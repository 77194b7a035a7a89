-------------------------------- MODULE Chain --------------------------------
(***************************************************************************)
(* The contracts that the migration scripts and the test fixtures deploy   *)
(* and call, as a record, and what each transaction of the scripts does to *)
(* it: CanX(ch, t) when transaction t does not revert on chain state ch,   *)
(* X(ch, t) the state after it.  All transactions come from one account,   *)
(* the owner of every Controller and the manager of every Set.             *)
(*                                                                         *)
(* A contract is <<kind, run>>: what it is and the script run that         *)
(* deployed it.  The Controller, the creator and the modules that one run  *)
(* deploys refer to each other, so the run also names their stack.  The    *)
(* component tokens of a run are numbered 1, 2, ... as in the scripts.     *)
(***************************************************************************)
EXTENDS SetTokenStorage, FiniteSets

CONSTANTS
    Runs,               \* numbers of the script runs
    INITIAL_BALANCE     \* what a token mock mints to its deployer

\* Script 11 edits the first two.
ASSUME ComponentsAssumption ==
    /\ Cardinality(Components) \in Nat \ {0, 1}
    /\ Components = 1 .. Cardinality(Components)

ASSUME RunsAssumption == Runs \subseteq Nat \ {0} /\ INITIAL_BALANCE \in Nat

N == Cardinality(Components)

\* ether(n), and half an ether.
ether(n) == n * PRECISE_UNIT
halfEther == PRECISE_UNIT \div 2

\* The units of the token lists: the i-th component has i ether.
_units == [i \in Components |-> ether(i)]

IssuanceModule == "basicIssuanceModule"
ManageModule == "componentManageModule"

ModuleKinds == {IssuanceModule, ManageModule, "streamingFeeModule", "navIssuanceModule"}

NoSet == 0          \* also: no log in the latest block
ForeignSet == -1    \* a Set that somebody else created, unknown to the Controllers here

FreshController == [initialized |-> FALSE, hasFactory |-> FALSE, modules |-> {}, sets |-> {}]

InitialChain ==
    [code        |-> {},
     controllers |-> [r \in Runs |-> FreshController],
     sets        |-> << >>,                                     \* every SetToken, by number
     created     |-> [r \in Runs |-> NoSet],                    \* the last Set created for a run
     log         |-> NoSet,                                     \* last SetTokenCreated of the latest block
     wallet      |-> [r \in Runs |-> [c \in Components |-> 0]],
     allowance   |-> [s \in {IssuanceModule, ManageModule} \X Runs |->
                        [r \in Runs |-> [c \in Components |-> 0]]],
     reverted    |-> {}]                                        \* transactions mined as failed

-----------------------------------------------------------------------------
(* Deployment and the Controller *)

\* A token mock mints the initial balance to its deployer.
DeployContract(ch, t) ==
    LET deployed == [ch EXCEPT !.code = @ \cup {<<t.kind, t.token, t.run>>}]
    IN  IF t.kind = "token"
          THEN [deployed EXCEPT !.wallet[t.run][t.token] = INITIAL_BALANCE]
          ELSE deployed

\* Controller.initialize, once.
CanInitializeController(ch, t) == ~ch.controllers[t.run].initialized

InitializeController(ch, t) ==
    [ch EXCEPT !.controllers[t.run] = [initialized |-> TRUE, hasFactory |-> TRUE,
                                       modules |-> {<<m, t.run>> : m \in t.modules}, sets |-> {}]]

CanAddModule(ch, t) ==
    ch.controllers[t.run].initialized /\ <<t.kind, t.run>> \notin ch.controllers[t.run].modules

AddModule(ch, t) == [ch EXCEPT !.controllers[t.run].modules = @ \cup {<<t.kind, t.run>>}]

-----------------------------------------------------------------------------
(* SetTokenCreator and the SetToken's constructor *)

NewSetToken(t) ==
    [stack       |-> t.stack,
     tokens      |-> t.tokens,
     pending     |-> t.modules,
     initialized |-> {},
     isLocked    |-> FALSE,
     storage     |-> InitialStorage([i \in Components |-> i], _units),
     balance     |-> [c \in Components |-> 0]]

\* Mutation: the modules are not looked up on the Controller.
CanCreateWithAny(ch, t) ==
    t.tokens # 0 /\ ch.controllers[t.stack].initialized /\ ch.controllers[t.stack].hasFactory

\* tokens = 0 is an empty components array.
CanCreate(ch, t) ==
    /\ t.tokens # 0
    /\ t.modules \subseteq ch.controllers[t.stack].modules
    /\ ch.controllers[t.stack].initialized /\ ch.controllers[t.stack].hasFactory

Create(ch, t) ==
    LET id == Len(ch.sets) + 1
    IN  [ch EXCEPT !.sets = Append(@, NewSetToken(t)),
                   !.controllers[t.stack].sets = @ \cup {id},
                   !.created[t.run] = id,
                   !.log = id]

\* A SetToken deployed by hand: no factory, no registration, no event.
DeploySetToken(ch, t) ==
    [ch EXCEPT !.sets = Append(@, NewSetToken(t)), !.created[t.run] = Len(ch.sets) + 1]

-----------------------------------------------------------------------------
(* Modules on a Set *)

Module(t) == <<t.kind, t.stack>>

\* The module's own Controller knows the Set.
ValidSet(ch, t) == t.set \in ch.controllers[t.stack].sets

CanInitializeModule(ch, t) ==
    /\ ValidSet(ch, t)
    /\ Module(t) \in ch.sets[t.set].pending
    /\ ~ch.sets[t.set].isLocked

InitializeModule(ch, t) ==
    [ch EXCEPT !.sets[t.set].pending = @ \ {Module(t)},
               !.sets[t.set].initialized = @ \cup {Module(t)}]

\* With SetToken's onlyModule, which asks the Set's Controller.
ValidAndInitialized(ch, t) ==
    /\ ValidSet(ch, t)
    /\ Module(t) \in ch.sets[t.set].initialized
    /\ Module(t) \in ch.controllers[ch.sets[t.set].stack].modules

CanLock(ch, t) == ValidAndInitialized(ch, t) /\ ~ch.sets[t.set].isLocked

Lock(ch, t) == [ch EXCEPT !.sets[t.set].isLocked = TRUE]

CanUnlock(ch, t) == ValidAndInitialized(ch, t) /\ ch.sets[t.set].isLocked

Unlock(ch, t) == [ch EXCEPT !.sets[t.set].isLocked = FALSE]

\* ERC20.approve replaces the allowance.
Approve(ch, t) == [ch EXCEPT !.allowance[Module(t)][t.tokens][t.token] = t.quantity]

Storage_(ch, t) == ch.sets[t.set].storage

\* Mutation: a component that is listed twice is visited once.
ListedOnce(ch, t, c) == IF IsComponent(Storage_(ch, t), c) THEN 1 ELSE 0

Listings(ch, t, c) == Occurrences(Storage_(ch, t).components, c)

\* What issue takes and redeem pays of component c, over all its listings.
Taken(ch, t, c) ==
    Listings(ch, t, c) * PreciseMulCeil(DefaultPositionRealUnit(Storage_(ch, t), c), t.quantity)

Paid(ch, t, c) ==
    Listings(ch, t, c) * PreciseMul(t.quantity, DefaultPositionRealUnit(Storage_(ch, t), c))

Spendable(ch, t, c, amount) ==
    /\ amount <= ch.wallet[ch.sets[t.set].tokens][c]
    /\ amount <= ch.allowance[Module(t)][ch.sets[t.set].tokens][c]

\* transferFrom the wallet to the Set, of every component.
MoveIn(ch, t, amount) ==
    LET g == ch.sets[t.set].tokens
    IN  [ch EXCEPT !.sets[t.set].balance       = [c \in Components |-> @[c] + amount[c]],
                   !.wallet[g]                 = [c \in Components |-> @[c] - amount[c]],
                   !.allowance[Module(t)][g]   = [c \in Components |-> @[c] - amount[c]]]

\* mint and burn need the Set unlocked, as the module is not the locker.
CanIssue(ch, t) ==
    /\ t.quantity > 0
    /\ ValidAndInitialized(ch, t) /\ ~ch.sets[t.set].isLocked
    /\ \A c \in Components : Spendable(ch, t, c, Taken(ch, t, c))

Issue(ch, t) ==
    [MoveIn(ch, t, [c \in Components |-> Taken(ch, t, c)])
        EXCEPT !.sets[t.set].storage = Mint(@, t.quantity)]

\* Mutation: the Set's balance is not checked.
CanRedeemUnbacked(ch, t) ==
    /\ t.quantity > 0
    /\ ValidAndInitialized(ch, t) /\ ~ch.sets[t.set].isLocked
    /\ CanBurn(Storage_(ch, t), t.quantity)

CanRedeem(ch, t) ==
    /\ t.quantity > 0
    /\ ValidAndInitialized(ch, t) /\ ~ch.sets[t.set].isLocked
    /\ CanBurn(Storage_(ch, t), t.quantity)
    /\ \A c \in Components : Paid(ch, t, c) <= ch.sets[t.set].balance[c]

Redeem(ch, t) ==
    LET g == ch.sets[t.set].tokens
    IN  [ch EXCEPT !.sets[t.set].balance = [c \in Components |-> @[c] - Paid(ch, t, c)],
                   !.wallet[g]           = [c \in Components |-> @[c] + Paid(ch, t, c)],
                   !.sets[t.set].storage = Burn(@, t.quantity)]

\* Removing all of a component delists it; removing a part makes the removed
\* quantity the unit.  The tokens go to another account.
CanRemoveFromSetToken(ch, t) ==
    /\ ValidAndInitialized(ch, t)
    /\ IsComponent(Storage_(ch, t), t.token)
    /\ t.quantity <= DefaultPositionRealUnit(Storage_(ch, t), t.token)
    /\ CanConvert(Storage_(ch, t), t.quantity)
    /\ t.quantity <= ch.sets[t.set].balance[t.token]

RemoveFromSetToken(ch, t) ==
    [ch EXCEPT !.sets[t.set].balance[t.token] = @ - t.quantity,
               !.sets[t.set].storage =
                    IF t.quantity = DefaultPositionRealUnit(@, t.token)
                      THEN RemoveComponent(@, t.token)
                      ELSE EditDefaultPositionUnit(@, t.token, t.quantity)]

CanAddToSetToken(ch, t) ==
    /\ ValidAndInitialized(ch, t)
    /\ t.quantity > 0
    /\ Spendable(ch, t, t.token, t.quantity)
    /\ CanConvert(Storage_(ch, t), t.quantity)

\* Lists the component again if it is listed, and replaces its unit.
AddToSetToken(ch, t) ==
    [MoveIn(ch, t, [c \in Components |-> IF c = t.token THEN t.quantity ELSE 0])
        EXCEPT !.sets[t.set].storage =
            EditDefaultPositionUnit(AddComponent(@, t.token), t.token, t.quantity)]

-----------------------------------------------------------------------------
(* Execution of one transaction.  setToken.approve changes nothing that the  *)
(* modelled calls read.                                                      *)

Succeeds(ch, t) ==
    CASE t.fn = "initialize"         -> CanInitializeController(ch, t)
      [] t.fn = "addModule"          -> CanAddModule(ch, t)
      [] t.fn = "create"             -> CanCreate(ch, t)
      [] t.fn = "initializeModule"   -> CanInitializeModule(ch, t)
      [] t.fn = "lockSetToken"       -> CanLock(ch, t)
      [] t.fn = "unlockSetToken"     -> CanUnlock(ch, t)
      [] t.fn = "issue"              -> CanIssue(ch, t)
      [] t.fn = "redeem"             -> CanRedeem(ch, t)
      [] t.fn = "removeFromSetToken" -> CanRemoveFromSetToken(ch, t)
      [] t.fn = "addToSetToken"      -> CanAddToSetToken(ch, t)
      [] OTHER                       -> TRUE

Effect(ch, t) ==
    CASE t.fn = "deploy"             -> DeployContract(ch, t)
      [] t.fn = "initialize"         -> InitializeController(ch, t)
      [] t.fn = "addModule"          -> AddModule(ch, t)
      [] t.fn = "create"             -> Create(ch, t)
      [] t.fn = "deploySetToken"     -> DeploySetToken(ch, t)
      [] t.fn = "initializeModule"   -> InitializeModule(ch, t)
      [] t.fn = "lockSetToken"       -> Lock(ch, t)
      [] t.fn = "unlockSetToken"     -> Unlock(ch, t)
      [] t.fn = "approve"            -> Approve(ch, t)
      [] t.fn = "issue"              -> Issue(ch, t)
      [] t.fn = "redeem"             -> Redeem(ch, t)
      [] t.fn = "removeFromSetToken" -> RemoveFromSetToken(ch, t)
      [] t.fn = "addToSetToken"      -> AddToSetToken(ch, t)
      [] OTHER                       -> ch

Execute(ch, t) ==
    IF Succeeds(ch, t) THEN Effect(ch, t) ELSE [ch EXCEPT !.reverted = @ \cup {t}]

\* A block of one transaction; its logs are those of the latest block.
Block(ch, t) == Execute([ch EXCEPT !.log = NoSet], t)
==============================================================================
