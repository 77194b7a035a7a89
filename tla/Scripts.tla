------------------------------- MODULE Scripts -------------------------------
(***************************************************************************)
(* The migration scripts (scripts/set-migrate-*.ts) and the system fixture *)
(* of the tests (utils/fixtures/systemFixture.ts), as sequences of the     *)
(* instructions that talk to the chain.  Deployment.tla executes them.     *)
(* Console output and timeouts, which promise nothing about the chain, are *)
(* left out, and so are the names and decimals of tokens.                  *)
(***************************************************************************)
EXTENDS Chain

CONSTANT MAX_UINT_256       \* an allowance that is never used up

ASSUME AllowanceAssumption == MAX_UINT_256 \in Nat

Owned == -1     \* the quantity that the script read from setToken.balanceOf

\* op is what the script does, fn the contract function of a call, kind (and
\* token) the contract.  A call is checked when the script leaves the gas limit
\* to the library, which dry-runs the call to estimate it.
Instruction ==
    [op |-> "", fn |-> "", kind |-> "", token |-> 0, quantity |-> 0, modules |-> {}, checked |-> TRUE]

Call(fn, kind) == [Instruction EXCEPT !.op = "call", !.fn = fn, !.kind = kind]

\* The deploy helpers send the creation and return at once.
Deploy(kind) == [Instruction EXCEPT !.op = "deploy", !.fn = "deploy", !.kind = kind, !.checked = FALSE]

deployController           == Deploy("controller")
deploySetTokenCreator      == Deploy("setTokenCreator")
deployBasicIssuanceModule  == Deploy(IssuanceModule)
deployComponentManageModule == Deploy(ManageModule)
deployTokenMock(i)         == [Deploy("token") EXCEPT !.token = i]

\* await contract.deployed()
Deployed(instruction) == [instruction EXCEPT !.op = "deployed"]

AwaitDeployed(kind) == Deployed(Deploy(kind))

\* The instructions of one iteration after those of the one before.
ForEachComponent(first(_), second(_)) ==
    [k \in 1 .. 2 * N |-> LET i == (k + 1) \div 2 IN IF k % 2 = 1 THEN first(i) ELSE second(i)]

initialize(modules) == [Call("initialize", "controller") EXCEPT !.modules = modules]

create(modules) == [Call("create", "setTokenCreator") EXCEPT !.modules = modules]

initializeModule(kind) == Call("initializeModule", kind)

approve(kind, i, quantity) == [Call("approve", kind) EXCEPT !.token = i, !.quantity = quantity]

\* issue names its gas limit: no dry run.
issue(quantity) == [Call("issue", IssuanceModule) EXCEPT !.quantity = quantity, !.checked = FALSE]

redeem(quantity) == [Call("redeem", IssuanceModule) EXCEPT !.quantity = quantity]

removeFromSetToken(i, quantity) ==
    [Call("removeFromSetToken", ManageModule) EXCEPT !.token = i, !.quantity = quantity]

addToSetToken(i, quantity) ==
    [Call("addToSetToken", ManageModule) EXCEPT !.token = i, !.quantity = quantity]

lockSetToken == Call("lockSetToken", ManageModule)
unlockSetToken == Call("unlockSetToken", ManageModule)

\* setToken.approve(controller.address, ...)
approveController == Call("approveController", "controller")

AwaitReceipt == [Instruction EXCEPT !.op = "wait"]

getCreatedSetTokenAddress == [Instruction EXCEPT !.op = "getCreated"]

\* setTokenOwned = await setToken.balanceOf(owner.address)
ReadBalance == [Instruction EXCEPT !.op = "balanceOf"]

\* getBalances fills _components as it prints.
getBalances == [Instruction EXCEPT !.op = "getBalances"]

-----------------------------------------------------------------------------
(* Scripts 01 to 05, which an operator runs one after the other *)

DeployTokens ==
    LET second(i) == Deployed(deployTokenMock(i))
    IN  ForEachComponent(deployTokenMock, second)

Script01 == DeployTokens

\* Mutation: initialize is forgotten.
Script02WithoutInitialize ==
    <<deployController, AwaitDeployed("controller"),
      deploySetTokenCreator, AwaitDeployed("setTokenCreator"),
      deployBasicIssuanceModule, AwaitDeployed(IssuanceModule),
      deployComponentManageModule, AwaitDeployed(ManageModule)>>

Script02 ==
    <<deployController, AwaitDeployed("controller"),
      deploySetTokenCreator, AwaitDeployed("setTokenCreator"),
      deployBasicIssuanceModule, AwaitDeployed(IssuanceModule),
      deployComponentManageModule, AwaitDeployed(ManageModule),
      initialize({IssuanceModule, ManageModule})>>

\* Mutation: the receipt is not awaited.
Script03WithoutWait ==
    <<AwaitDeployed(IssuanceModule), AwaitDeployed(ManageModule),
      create({IssuanceModule, ManageModule}),
      getCreatedSetTokenAddress,
      initializeModule(IssuanceModule), initializeModule(ManageModule)>>

Script03 ==
    <<AwaitDeployed(IssuanceModule), AwaitDeployed(ManageModule),
      create({IssuanceModule, ManageModule}), AwaitReceipt,
      getCreatedSetTokenAddress,
      initializeModule(IssuanceModule), initializeModule(ManageModule)>>

ApproveUnits == [i \in 1 .. N |-> approve(IssuanceModule, i, _units[i])]

\* Mutation: issued before the last approval.
Script04IssuingEarly ==
    <<AwaitDeployed(IssuanceModule)>> \o SubSeq(ApproveUnits, 1, N - 1) \o <<issue(ether(1))>>
    \o SubSeq(ApproveUnits, N, N)

Script04 == <<AwaitDeployed(IssuanceModule)>> \o ApproveUnits \o <<issue(ether(1))>>

Script05 == <<AwaitDeployed(IssuanceModule), approveController, redeem(ether(1))>>

-----------------------------------------------------------------------------
(* Script 11: everything in one process *)

CoreSystem11 ==
    <<deployController, AwaitDeployed("controller"),
      deploySetTokenCreator, AwaitDeployed("setTokenCreator"),
      deployBasicIssuanceModule, AwaitDeployed(IssuanceModule),
      deployComponentManageModule, AwaitDeployed(ManageModule),
      initialize({IssuanceModule}), Call("addModule", ManageModule)>>

CreateSet11 ==
    <<create({IssuanceModule, ManageModule}), AwaitReceipt, getCreatedSetTokenAddress>>

InitializeModules11 ==
    <<initializeModule(IssuanceModule), initializeModule(ManageModule),
      lockSetToken, unlockSetToken>>

IssueSet11 == <<issue(ether(1)), ReadBalance>>

\* Under a lock: half of the first component, all of the second.
RemoveComponents11 ==
    <<lockSetToken, removeFromSetToken(1, halfEther), removeFromSetToken(2, ether(2)), unlockSetToken>>

\* Mutation: the second component comes back in one piece.
AddWhatWasRemoved11 ==
    <<approve(ManageModule, 2, ether(2)), addToSetToken(2, ether(2))>>

\* With the Set unlocked: the second component comes back in two parts.
AddComponents11 ==
    <<approve(ManageModule, 2, ether(1)), addToSetToken(2, ether(1)),
      approve(ManageModule, 2, ether(3)), addToSetToken(2, ether(3))>>

RedeemSet11 == <<approveController, redeem(Owned), ReadBalance>>

Script11 ==
    DeployTokens \o <<getBalances>> \o CoreSystem11 \o CreateSet11 \o ApproveUnits
    \o InitializeModules11 \o IssueSet11 \o RemoveComponents11 \o AddComponents11 \o RedeemSet11

-----------------------------------------------------------------------------
(* The fixture of the tests, which waits for nothing: the test node mines    *)
(* each transaction as it is sent.  The test creates a Set, initializes its  *)
(* issuance module and issues.                                               *)

\* WETH and the token mocks, their oracles, and approvals for later issuance.
initializeStandardComponents ==
    LET oracle(i) == Deploy("oracleMock")
        allow(i)  == approve(IssuanceModule, i, INITIAL_BALANCE)
    IN  ForEachComponent(deployTokenMock, oracle) \o [i \in 1 .. N |-> allow(i)]

\* The first integration registry is never used.
FixtureInitialize ==
    <<deployController, deployBasicIssuanceModule>>
    \o initializeStandardComponents
    \o <<Deploy("integrationRegistry"), deploySetTokenCreator, Deploy("priceOracle"),
         Deploy("integrationRegistry"), Deploy("setValuer"),
         Deploy("streamingFeeModule"), Deploy("navIssuanceModule"),
         initialize({IssuanceModule, "streamingFeeModule", "navIssuanceModule"})>>

createSetToken == <<create({IssuanceModule}), getCreatedSetTokenAddress>>

\* The address comes from the deployment itself.
createNonControllerEnabledSetToken ==
    <<[Call("deploySetToken", "controller") EXCEPT !.modules = {IssuanceModule}],
      [Instruction EXCEPT !.op = "attach"]>>

approveAndIssueSetToken(quantity) ==
    [i \in 1 .. N |-> approve(IssuanceModule, i, MAX_UINT_256)]
    \o <<[issue(quantity) EXCEPT !.checked = TRUE]>>

FixtureIssues ==
    FixtureInitialize \o createSetToken
    \o <<initializeModule(IssuanceModule)>> \o approveAndIssueSetToken(ether(1))

FixtureUnregistered ==
    FixtureInitialize \o createNonControllerEnabledSetToken
    \o <<initializeModule(IssuanceModule)>>

-----------------------------------------------------------------------------
Steps == {"01", "02", "03", "04", "05"}

Program(script) ==
    CASE script = "01" -> Script01
      [] script = "02" -> Script02
      [] script = "03" -> Script03
      [] script = "04" -> Script04
      [] script = "05" -> Script05
      [] script = "11" -> Script11
      [] script = "fixture" -> FixtureIssues
      [] script = "unregistered" -> FixtureUnregistered
==============================================================================
