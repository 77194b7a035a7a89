--------------------------- MODULE SetTokenSystem ----------------------------
(***************************************************************************)
(* A SetToken, the tokens it holds and the modules that move both: users   *)
(* issue and redeem, the manager trades and wraps, anyone accrues the      *)
(* streaming fee.  The units promise each SetToken a share of the balance; *)
(* every module rounds on its own, and the question is whether the         *)
(* promises stay covered.                                                  *)
(*                                                                         *)
(* A transaction is one step: it reverts as a whole (the action is not     *)
(* enabled) and the modules are nonReentrant.  BasicIssuanceModule reads   *)
(* everything after its pre-issue hook, so what a hook does is a step      *)
(* before the issuance.  All modules are enabled on the Controller and     *)
(* none locks the SetToken (SetToken.tla has both).                        *)
(***************************************************************************)
EXTENDS Position, TestReference

CONSTANTS
    Installed,          \* the modules that the SetToken may have initialized
    InitialComponents,  \* what SetTokenCreator was given
    InitialUnits,
    ProtocolFees,       \* fee rates that governance sets on the Controller
    Percentages,        \* streaming fee rates that the manager chooses from
    ONE_YEAR,           \* ONE_YEAR_IN_SECONDS
    Quantities,         \* quantities issued and redeemed
    Units,              \* component units that the manager trades and wraps
    MaxSupply,          \* bound on the supply
    MaxIssued,          \* bound on the quantity issued altogether
    MaxBalance,         \* bound on the balances
    MaxElapsed          \* time since the last accrual, where the clock saturates

ASSUME InstalledAssumption ==
    Installed \subseteq {"BasicIssuance", "StreamingFee", "Trade", "Wrap"}

\* SetTokenCreator.create's checks: no duplicate, positive units.
ASSUME CreationAssumption ==
    /\ InitialComponents \in Seq(Components)
    /\ ~HasDuplicate(InitialComponents)
    /\ InitialUnits \in [Components -> Nat]
    /\ \A c \in Components : Contains(InitialComponents, c) <=> InitialUnits[c] > 0

ASSUME InputAssumption ==
    /\ ProtocolFees \subseteq Nat /\ Percentages \subseteq Nat
    /\ ONE_YEAR \in Nat \ {0}
    /\ Quantities \subseteq Nat \ {0} /\ Units \subseteq Nat
    /\ MaxSupply \in Nat /\ MaxIssued \in Nat /\ MaxBalance \in Nat
    /\ MaxElapsed \in Nat

VARIABLES
    storage,        \* the SetToken's positions, multiplier and supply
    balance,        \* what the SetToken holds of each component
    feeModule,      \* StreamingFeeModule's state on the SetToken
    feeState,       \* its fee parameters
    elapsed,        \* time since lastStreamingFeeTimestamp
    issued,         \* history: quantity issued altogether
    metered         \* history: the rate in force, summed over the time since the last accrual

vars == <<storage, balance, feeModule, feeState, elapsed, issued, metered>>
feeVars == <<feeModule, feeState, elapsed, metered>>

NoFeeState == [max |-> 0, percentage |-> 0]

TypeOK ==
    /\ storage \in Storage
    /\ balance \in [Components -> Nat]
    /\ feeModule \in {"NONE", "PENDING", "INITIALIZED"}
    /\ feeState \in [max : Nat, percentage : Nat]
    /\ elapsed \in Nat /\ issued \in Nat /\ metered \in Nat

Init ==
    /\ storage = InitialStorage(InitialComponents, InitialUnits)
    /\ balance = [c \in Components |-> 0]
    /\ feeModule = "NONE"
    /\ feeState = NoFeeState
    /\ elapsed = MaxElapsed /\ issued = 0 /\ metered = 0

Supply == storage.totalSupply

-----------------------------------------------------------------------------
(* BasicIssuanceModule: default positions only *)

OnlyDefaultPositions ==
    \A i \in DOMAIN storage.components : ~HasExternalPosition(storage, storage.components[i])

\* Mutation: issuance rounds down.
RoundedDownForIssue(c, q) == PreciseMul(DefaultPositionRealUnit(storage, c), q)

\* Rounds up, so that the issuer never pays less than the units promise.
RequiredForIssue(c, q) == PreciseMulCeil(DefaultPositionRealUnit(storage, c), q)

PaidOnRedeem(c, q) == PreciseMul(q, DefaultPositionRealUnit(storage, c))

\* The loops visit the components array, so a component listed twice moves twice.
Times(c) == Occurrences(storage.components, c)

Issue(q) ==
    /\ "BasicIssuance" \in Installed
    /\ OnlyDefaultPositions
    /\ Supply + q <= MaxSupply /\ issued + q <= MaxIssued
    /\ balance' = [c \in Components |-> balance[c] + Times(c) * RequiredForIssue(c, q)]
    /\ \A c \in Components : balance'[c] <= MaxBalance
    /\ storage' = Mint(storage, q)
    /\ issued' = issued + q
    /\ UNCHANGED feeVars

Redeem(q) ==
    /\ "BasicIssuance" \in Installed
    /\ OnlyDefaultPositions
    /\ CanBurn(storage, q)
    /\ \A c \in Components : Times(c) * PaidOnRedeem(c, q) <= balance[c]
    /\ storage' = Burn(storage, q)
    /\ balance' = [c \in Components |-> balance[c] - Times(c) * PaidOnRedeem(c, q)]
    /\ UNCHANGED <<feeVars, issued>>

-----------------------------------------------------------------------------
(* StreamingFeeModule *)

CalculateStreamingFee == (elapsed * feeState.percentage) \div ONE_YEAR

\* The quantity q that makes q / (supply + q) the fee.
StreamingFeeInflation(fee) == (fee * Supply) \div (PRECISE_UNIT - fee)

NewMultiplier(fee) == PreciseMulInt(storage.positionMultiplier, PRECISE_UNIT - fee)

\* Mutation: the units are not adjusted.
MintFee(fee) == Mint(storage, StreamingFeeInflation(fee))

\* Mint for the recipients, then scale every unit down.
ChargeFee(fee) ==
    EditPositionMultiplier(Mint(storage, StreamingFeeInflation(fee)), NewMultiplier(fee))

\* A fee of 100% or more, a multiplier that reaches zero and a protocol fee of
\* more than 100% revert.
CanChargeFee(fee, protocolFee) ==
    /\ fee < PRECISE_UNIT
    /\ PreciseMul(StreamingFeeInflation(fee), protocolFee) <= StreamingFeeInflation(fee)
    /\ CanEditPositionMultiplier(NewMultiplier(fee))

\* accrueFee: a rate of zero charges nothing; the clock restarts in any case.
DoAccrueFee ==
    /\ IF feeState.percentage > 0
         THEN /\ \E protocolFee \in ProtocolFees : CanChargeFee(CalculateStreamingFee, protocolFee)
              /\ Supply + StreamingFeeInflation(CalculateStreamingFee) <= MaxSupply
              /\ storage' = ChargeFee(CalculateStreamingFee)
         ELSE UNCHANGED storage
    /\ elapsed' = 0 /\ metered' = 0

AccrueFee ==
    /\ feeModule = "INITIALIZED"
    /\ DoAccrueFee
    /\ UNCHANGED <<balance, feeModule, feeState, issued>>

\* Mutation: the new rate is set without accruing at the old one.
SetStreamingFee(newFee) ==
    /\ feeModule = "INITIALIZED"
    /\ newFee < feeState.max
    /\ feeState' = [feeState EXCEPT !.percentage = newFee]
    /\ UNCHANGED <<storage, balance, feeModule, elapsed, issued, metered>>

UpdateStreamingFee(newFee) ==
    /\ feeModule = "INITIALIZED"
    /\ newFee < feeState.max
    /\ DoAccrueFee
    /\ feeState' = [feeState EXCEPT !.percentage = newFee]
    /\ UNCHANGED <<balance, feeModule, issued>>

\* The manager adds the module to the SetToken.
AddFeeModule ==
    /\ "StreamingFee" \in Installed
    /\ feeModule = "NONE"
    /\ feeModule' = "PENDING"
    /\ UNCHANGED <<storage, balance, feeState, elapsed, issued, metered>>

InitializeFeeModule(max, percentage) ==
    /\ feeModule = "PENDING"
    /\ max < PRECISE_UNIT /\ percentage <= max
    /\ feeModule' = "INITIALIZED"
    /\ feeState' = [max |-> max, percentage |-> percentage]
    /\ elapsed' = 0 /\ metered' = 0
    /\ UNCHANGED <<storage, balance, issued>>

\* removeModule deletes the fee state, with the timestamp, and forgoes what was
\* not accrued.
RemoveFeeModule ==
    /\ feeModule = "INITIALIZED"
    /\ feeModule' = "NONE"
    /\ feeState' = NoFeeState
    /\ elapsed' = MaxElapsed /\ metered' = 0
    /\ UNCHANGED <<storage, balance, issued>>

-----------------------------------------------------------------------------
(* TradeModule and WrapModule: the SetToken sends up to the approved amount  *)
(* of one token to an adapter's target and receives some amount of another.  *)
(* The caller's minimum, which may be zero, is left out.                     *)

Swapped(sent, spent, received, amount) ==
    [balance EXCEPT ![sent] = @ - spent, ![received] = @ + amount]

\* Recomputes the units of first, then of second, from balances before and after.
EditUnits(first, second, post) ==
    LET edited == CalculateAndEditDefaultPosition(storage, first, Supply, balance[first], post[first])
    IN  /\ CanCalculateAndEditDefaultPosition(storage, first, Supply, balance[first], post[first])
        /\ CanCalculateAndEditDefaultPosition(edited, second, Supply, balance[second], post[second])
        /\ storage' = CalculateAndEditDefaultPosition(edited, second, Supply,
                                                      balance[second], post[second])
        /\ balance' = post

\* The protocol's fee is paid out of what was received.
Trade(c, d, units, spent, received, protocolFee) ==
    LET total == DefaultTotalNotional(Supply, units)
        fee   == PreciseMul(received, protocolFee)
    IN  /\ "Trade" \in Installed /\ c # d
        /\ total > 0
        /\ HasSufficientDefaultUnits(storage, c, units)
        /\ spent <= total /\ spent <= balance[c]
        /\ fee <= received
        /\ balance[d] + received <= MaxBalance
        /\ EditUnits(c, d, Swapped(c, spent, d, received - fee))
        /\ UNCHANGED <<feeVars, issued>>

CanWrap(c, d, units, spent, received) ==
    /\ "Wrap" \in Installed /\ c # d
    /\ units > 0
    /\ HasDefaultPosition(storage, c)
    /\ HasSufficientDefaultUnits(storage, c, units)
    /\ spent <= DefaultTotalNotional(Supply, units) /\ spent <= balance[c]
    /\ balance[d] + received <= MaxBalance

\* Both functions edit the underlying token first.
Wrap(underlying, wrapped, units, spent, received) ==
    /\ CanWrap(underlying, wrapped, units, spent, received)
    /\ EditUnits(underlying, wrapped, Swapped(underlying, spent, wrapped, received))
    /\ UNCHANGED <<feeVars, issued>>

Unwrap(underlying, wrapped, units, spent, received) ==
    /\ CanWrap(wrapped, underlying, units, spent, received)
    /\ EditUnits(underlying, wrapped, Swapped(wrapped, spent, underlying, received))
    /\ UNCHANGED <<feeVars, issued>>

\* The Ether variants fix the underlying token to WETH, which the SetToken first
\* turns into Ether, all of it, and turn all the Ether it then has back: what an
\* earlier wrap returned in Ether counts as received by a later unwrap.  Any
\* component stands for WETH here.
WrapWithEther(weth, wrapped, units, spent, received) ==
    /\ spent = DefaultTotalNotional(Supply, units)
    /\ Wrap(weth, wrapped, units, spent, received)

UnwrapWithEther(weth, wrapped, units, spent, received) ==
    Unwrap(weth, wrapped, units, spent, received)

-----------------------------------------------------------------------------
(* The environment *)

\* Anyone may send tokens to the SetToken, past its modules.
Airdrop(c) ==
    /\ balance[c] < MaxBalance
    /\ balance' = [balance EXCEPT ![c] = @ + 1]
    /\ UNCHANGED <<storage, feeVars, issued>>

\* At MaxElapsed the clock stands still.  Where MaxElapsed is at least
\* PRECISE_UNIT * ONE_YEAR this loses nothing: every positive rate has reached
\* 100% and the accrual reverts.
Tick ==
    /\ IF elapsed < MaxElapsed
         THEN elapsed' = elapsed + 1 /\ metered' = metered + feeState.percentage
         ELSE UNCHANGED <<elapsed, metered>>
    /\ UNCHANGED <<storage, balance, feeModule, feeState, issued>>

-----------------------------------------------------------------------------
Issuance == \E q \in Quantities : Issue(q) \/ Redeem(q)

Fees ==
    \/ AddFeeModule
    \/ RemoveFeeModule
    \/ AccrueFee
    \/ \E p \in Percentages :
        \/ UpdateStreamingFee(p)
        \/ \E max \in Percentages : InitializeFeeModule(max, p)

Exchange ==
    \E c, d \in Components, units \in Units, spent, received \in 0 .. MaxBalance :
        \/ \E protocolFee \in ProtocolFees : Trade(c, d, units, spent, received, protocolFee)
        \/ Wrap(c, d, units, spent, received)
        \/ WrapWithEther(c, d, units, spent, received)
        \/ Unwrap(c, d, units, spent, received)
        \/ UnwrapWithEther(c, d, units, spent, received)

Next == Issuance \/ Fees \/ Exchange \/ (\E c \in Components : Airdrop(c)) \/ Tick

Spec == Init /\ [][Next]_vars

-----------------------------------------------------------------------------
(* Properties *)

Claim(c) == Supply * DefaultPositionRealUnit(storage, c)

\* Full collateralization: the SetToken holds of each component what its units
\* promise to the whole supply.  Issuance rounds up, redemption and the units
\* that follow an exchange round down, and none may undo the others.
Collateralized == \A c \in Components : Claim(c) <= balance[c] * PRECISE_UNIT

\* Holders can always redeem, any quantity up to the supply: no transfer that
\* the redemption makes exceeds the balance.
AlwaysRedeemable ==
    \A q \in 1 .. Supply, c \in Components : Times(c) * PaidOnRedeem(c, q) <= balance[c]

\* Streaming fees add to the supply and scale the units down, both rounded.  A
\* unit that rounds down makes issuance cheaper than the exact claim; what is
\* then missing never exceeds one wei for each whole SetToken ever issued.
BoundedShortfall == \A c \in Components : Claim(c) <= balance[c] * PRECISE_UNIT + issued

Surplus(c) == balance[c] - PreciseMul(DefaultPositionRealUnit(storage, c), Supply)

\* Tokens that reached the SetToken past its modules, and the dust that rounding
\* leaves, are promised to nobody: no module turns them into units later.
SurplusKept == \A c \in Components : Surplus(c)' >= Surplus(c)

SurplusNeverConsumed == [][SurplusKept]_vars

\* The manager never charges a rate for time before it was in force: what the
\* next accrual charges, the current rate for all that has elapsed, is the sum of
\* the rates in force while it elapsed, whatever updates, accruals, removals and
\* initializations came in between.
ChargedAtRateInForce == elapsed * feeState.percentage = metered

\* What the specs expect of an accrual (feeModuleUtils.ts): the inflation to the
\* wei; every unit reduced by the fee, where the specs reduce the unit and the
\* code the multiplier, up to what the two roundings may differ.
AccruesAsTested ==
    LET fee == getStreamingFee(elapsed, feeState.percentage, ONE_YEAR)
        st  == ChargeFee(CalculateStreamingFee)
    IN  CanChargeFee(CalculateStreamingFee, 0) =>
            /\ st.totalSupply = Supply + getStreamingFeeInflationAmount(fee, Supply)
            /\ \A c \in Components :
                LET unit     == DefaultPositionRealUnit(st, c)
                    expected == getPostFeePositionUnits(DefaultPositionRealUnit(storage, c), fee)
                IN  /\ unit <= expected + 1
                    /\ expected <= unit + storage.virtualUnit[c] \div PRECISE_UNIT + 1
==============================================================================
