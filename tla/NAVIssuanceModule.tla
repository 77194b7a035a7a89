-------------------------- MODULE NAVIssuanceModule --------------------------
(***************************************************************************)
(* Issuance and redemption of a SetToken at net asset value, in any        *)
(* allowed reserve asset (protocol/modules/NAVIssuanceModule.sol), with    *)
(* the valuation it asks SetValuer for and the oracle's prices.            *)
(*                                                                         *)
(* The SetToken starts with a supply that BasicIssuanceModule issued at    *)
(* the identity multiplier.  Then users issue and redeem at NAV, the       *)
(* manager edits the settings, prices move and tokens arrive past the      *)
(* module.  A transaction is one step: it reverts as a whole, the module   *)
(* is nonReentrant and hooks run before anything is read.  The caller's    *)
(* minimum is zero, which allows every call that a larger one allows.      *)
(***************************************************************************)
EXTENDS Position, TestReference

SE == INSTANCE SequencesExt

CONSTANTS
    WETH,               \* the component that is the wrapped Ether
    BaseUnits,          \* 10 ** decimals, of each component
    InitialComponents,  \* what SetTokenCreator was given
    InitialUnits,
    InitialSupply,      \* issued before this module is used
    MasterQuoteAsset,   \* the component that the oracle quotes prices in
    Prices,             \* of a whole token in the master quote asset
    ModuleFees,         \* fees that governance may have set on the Controller
    Percentages,        \* fees and premiums that the manager chooses from
    MinSupplies,        \* minimum supplies that the manager chooses from
    Recipients,         \* addresses of the manager's fee recipient
    Quantities,         \* quantities that users issue with and redeem
    MaxSupply,          \* bound on the supply
    MaxBalance,         \* bound on the balances
    MaxSurplus,         \* bound on what arrives past the module
    MaxLength           \* bound on the length of the components array

ASSUME NAVAssumption ==
    /\ {WETH, MasterQuoteAsset} \subseteq Components
    /\ BaseUnits \in [Components -> Nat \ {0}]
    /\ InitialComponents \in Seq(Components) /\ ~HasDuplicate(InitialComponents)
    /\ InitialUnits \in [Components -> Nat]
    /\ \A c \in Components : Contains(InitialComponents, c) <=> InitialUnits[c] > 0
    /\ InitialSupply \in Nat
    /\ Prices \subseteq Nat \ {0} /\ PRECISE_UNIT \in Prices
    /\ Percentages \subseteq Nat /\ MinSupplies \subseteq Nat /\ Quantities \subseteq Nat
    /\ ModuleFees \subseteq [{"issue", "redeem"} -> [share : Nat, direct : Nat]]
    /\ MaxSupply \in Nat /\ MaxBalance \in Nat /\ MaxSurplus \in Nat
    /\ MaxLength \in Nat

VARIABLES
    storage,        \* the SetToken's positions, multiplier and supply
    balance,        \* what the SetToken holds of each component
    price,          \* what the oracle answers
    moduleFee,      \* the module's fees on the Controller
    navModule,      \* the module's state on the SetToken
    settings,       \* navIssuanceSettings
    isReserveAsset

tokenVars == <<storage, balance>>
worldVars == <<price, moduleFee>>
moduleVars == <<navModule, settings, isReserveAsset>>
vars == <<tokenVars, worldVars, moduleVars>>

Actions == {"issue", "redeem"}

NoRecipient == "0x0"

\* The settings of a struct that was never written, or deleted.
NoSettings == [reserveAssets |-> << >>, managerFees |-> [a \in Actions |-> 0], maxManagerFee |-> 0,
               premium |-> 0, maxPremium |-> 0, minSetTokenSupply |-> 0,
               feeRecipient |-> NoRecipient]

\* Less than 100%.
Percentage == 0 .. PRECISE_UNIT - 1

Settings == [reserveAssets : Seq(Components), managerFees : [Actions -> Percentage],
             maxManagerFee : Percentage, premium : Percentage, maxPremium : Percentage,
             minSetTokenSupply : Nat,
             feeRecipient : Recipients \cup {NoRecipient}]

TypeOK ==
    /\ storage \in Storage
    /\ balance \in [Components -> Nat]
    /\ price \in [Components -> Prices]
    /\ moduleFee \in ModuleFees
    /\ navModule \in {"NONE", "PENDING", "INITIALIZED"}
    /\ settings \in Settings
    /\ isReserveAsset \in [Components -> BOOLEAN]

\* BasicIssuanceModule takes the units of what it issues, rounded up.
Init ==
    /\ storage = Mint(InitialStorage(InitialComponents, InitialUnits), InitialSupply)
    /\ balance = [c \in Components |-> PreciseMulCeil(InitialUnits[c], InitialSupply)]
    /\ price \in [Components -> Prices] /\ price[MasterQuoteAsset] = PRECISE_UNIT
    /\ moduleFee \in ModuleFees
    /\ navModule = "NONE"
    /\ settings = NoSettings
    /\ isReserveAsset = [c \in Components |-> FALSE]

Supply == storage.totalSupply

Unit(c) == DefaultPositionRealUnit(storage, c)

-----------------------------------------------------------------------------
(* SetValuer *)

\* Value of the units of one component, in the master quote asset.
ComponentValue(st, c) ==
    PreciseMul(PreciseDiv(DefaultPositionRealUnit(st, c), BaseUnits[c]), price[c])

\* Quoted in the reserve asset.  Over the components array: a component listed
\* twice counts twice.
ValuationOf(st, quote) ==
    LET sum[n \in 0 .. Len(st.components)] ==
            IF n = 0 THEN 0 ELSE sum[n - 1] + ComponentValue(st, st.components[n])
    IN  PreciseDiv(sum[Len(st.components)], price[quote])

Valuation(quote) == ValuationOf(storage, quote)

\* toUint256 reverts on a negative valuation.
CanValue(quote) == Valuation(quote) \in Nat

-----------------------------------------------------------------------------
(* Fees.  a is the action, which picks the fee indices. *)

ProtocolRevenueShare(a) == PreciseMul(moduleFee[a].share, settings.managerFees[a])

ManagerRevenueShare(a) == settings.managerFees[a] - ProtocolRevenueShare(a)

TotalProtocolFee(a) == ProtocolRevenueShare(a) + moduleFee[a].direct

\* What the comment of _getFees says.
FeesAsCommented(q, a) ==
    [protocol |-> PreciseMul(TotalProtocolFee(a), q),
     manager  |-> PreciseMul(ManagerRevenueShare(a), q)]

\* _getProtocolAndManagerFeePercentages returns the manager's percentage first,
\* and _getFees takes the first for the protocol's.
_getFees(q, a) ==
    [protocol |-> PreciseMul(ManagerRevenueShare(a), q),
     manager  |-> PreciseMul(TotalProtocolFee(a), q)]

NetFlow(q, a) == q - _getFees(q, a).protocol - _getFees(q, a).manager

CanGetFees(q, a) == ProtocolRevenueShare(a) <= settings.managerFees[a] /\ NetFlow(q, a) >= 0

-----------------------------------------------------------------------------
(* Quantities *)

WithoutPremium(net) == net - PreciseMul(net, settings.premium)

\* What the premium leaves with the SetToken raises the denominator.
MintDenominator(r, net) ==
    PreciseMul(Supply, Valuation(r))
        + PreciseDiv(net, BaseUnits[r]) - PreciseDiv(WithoutPremium(net), BaseUnits[r])

\* Mutations: the premium stays out of the denominator; the quantity is rounded up.
MintAtNetValue(r, net) ==
    PreciseDiv(PreciseMul(PreciseDiv(WithoutPremium(net), BaseUnits[r]), Supply),
               MintDenominator(r, net) - PreciseDiv(net, BaseUnits[r])
                   + PreciseDiv(WithoutPremium(net), BaseUnits[r]))
MintGross(r, net) ==
    PreciseDiv(PreciseMul(PreciseDiv(net + net, BaseUnits[r]), Supply), MintDenominator(r, net))

_getSetTokenMintQuantity(r, net) ==
    PreciseDiv(PreciseMul(PreciseDiv(WithoutPremium(net), BaseUnits[r]), Supply),
               MintDenominator(r, net))

\* Mutation: the premium is rounded down.
RedeemReserveRoundedUp(st, r, q) ==
    LET reserve == PreciseMul(PreciseMul(q, ValuationOf(st, r)), BaseUnits[r])
    IN  reserve - PreciseMul(reserve, settings.premium)

RedeemReserve(st, r, q) ==
    LET reserve == PreciseMul(PreciseMul(q, ValuationOf(st, r)), BaseUnits[r])
    IN  reserve - PreciseMulCeil(reserve, settings.premium)

_getRedeemReserveQuantity(r, q) == RedeemReserve(storage, r, q)

\* Mutations: rounded up; not adjusted.
MultiplierRoundedUp(newSupply) ==
    (storage.positionMultiplier * Supply + newSupply - 1) \div newSupply
MultiplierKept(newSupply) == IF newSupply > 0 THEN storage.positionMultiplier ELSE 0

\* The multiplier after the supply changed.
NewPositionMultiplier(newSupply) == (storage.positionMultiplier * Supply) \div newSupply

\* The reserve asset's unit when its part of the collateral is notional.
NewReserveUnit(newSupply, notional) == PreciseDiv(notional, newSupply)

-----------------------------------------------------------------------------
(* Issue and redeem *)

Enabled(r, q) == navModule = "INITIALIZED" /\ q > 0 /\ isReserveAsset[r]

\* All units scaled to the new supply.
Scaled(newSupply) == EditPositionMultiplier(storage, NewPositionMultiplier(newSupply))

\* Division by an empty supply reverts.
CanUpdatePositions(newSupply, r, notional) ==
    /\ newSupply > 0
    /\ CanEditPositionMultiplier(NewPositionMultiplier(newSupply))
    /\ CanEditDefaultPosition(Scaled(newSupply), r, NewReserveUnit(newSupply, notional))

UpdatePositions(newSupply, r, notional) ==
    [EditDefaultPosition(Scaled(newSupply), r, NewReserveUnit(newSupply, notional))
        EXCEPT !.totalSupply = newSupply]

Reserve(r) == PreciseMul(Unit(r), Supply)

CanIssue(r, q) ==
    /\ Enabled(r, q)
    /\ CanGetFees(q, "issue")
    /\ CanValue(r)
    /\ PreciseMul(NetFlow(q, "issue"), settings.premium) <= NetFlow(q, "issue")
    /\ MintDenominator(r, NetFlow(q, "issue")) > 0
    /\ Supply >= settings.minSetTokenSupply

SupplyAfterIssue(r, q) == Supply + _getSetTokenMintQuantity(r, NetFlow(q, "issue"))

\* The issuer pays the net flow to the SetToken and the fees to the recipients.
Issue(r, q) ==
    LET net       == NetFlow(q, "issue")
        newSupply == SupplyAfterIssue(r, q)
    IN  /\ CanIssue(r, q)
        /\ newSupply <= MaxSupply /\ balance[r] + net <= MaxBalance
        /\ CanUpdatePositions(newSupply, r, Reserve(r) + net)
        /\ Len(UpdatePositions(newSupply, r, Reserve(r) + net).components) <= MaxLength
        /\ storage' = UpdatePositions(newSupply, r, Reserve(r) + net)
        /\ balance' = [balance EXCEPT ![r] = @ + net]
        /\ UNCHANGED <<worldVars, moduleVars>>

\* The module wraps the Ether and pays as an issuer would.
IssueWithEther(q) == Issue(WETH, q)

CanRedeem(r, q) ==
    /\ Enabled(r, q)
    /\ CanValue(r)
    /\ _getRedeemReserveQuantity(r, q) >= 0
    /\ CanGetFees(_getRedeemReserveQuantity(r, q), "redeem")
    /\ Supply - q >= settings.minSetTokenSupply
    /\ Reserve(r) >= _getRedeemReserveQuantity(r, q)
    /\ balance[r] >= _getRedeemReserveQuantity(r, q)

\* Net flow and fees leave the SetToken.  All quantities were computed before
\* the burn and the transfers.
Redeem(r, q) ==
    LET outflow == _getRedeemReserveQuantity(r, q)
    IN  /\ CanRedeem(r, q)
        /\ CanUpdatePositions(Supply - q, r, Reserve(r) - outflow)
        /\ storage' = UpdatePositions(Supply - q, r, Reserve(r) - outflow)
        /\ balance' = [balance EXCEPT ![r] = @ - outflow]
        /\ UNCHANGED <<worldVars, moduleVars>>

RedeemIntoEther(q) == Redeem(WETH, q)

-----------------------------------------------------------------------------
(* Getters that a caller asks before the transaction *)

isIssueValid(r, q) == q # 0 /\ isReserveAsset[r] /\ Supply >= settings.minSetTokenSupply

\* Mutation: the minimum supply is not looked at.
isRedeemCovered(r, q) ==
    /\ q # 0 /\ isReserveAsset[r]
    /\ Reserve(r) >= NetFlow(_getRedeemReserveQuantity(r, q), "redeem")

\* Compares the net flow, without the fees, with the reserve.
isRedeemValid(r, q) ==
    /\ q # 0 /\ isReserveAsset[r]
    /\ Supply >= settings.minSetTokenSupply + q
    /\ Reserve(r) >= NetFlow(_getRedeemReserveQuantity(r, q), "redeem")

-----------------------------------------------------------------------------
(* The manager *)

\* setToken.addModule
AddModule ==
    /\ navModule = "NONE"
    /\ navModule' = "PENDING"
    /\ UNCHANGED <<tokenVars, worldVars, settings, isReserveAsset>>

\* The loop finds an asset that it has flagged itself, or that is still flagged.
MayFlag(assets) ==
    ~HasDuplicate(assets) /\ \A c \in SE!ToSet(assets) : ~isReserveAsset[c]

Initialize(new) ==
    /\ navModule = "PENDING"
    /\ Len(new.reserveAssets) > 0
    /\ new.maxManagerFee < PRECISE_UNIT /\ new.maxPremium < PRECISE_UNIT
    /\ \A a \in Actions : new.managerFees[a] <= new.maxManagerFee
    /\ new.premium <= new.maxPremium
    /\ new.feeRecipient # NoRecipient
    /\ new.minSetTokenSupply > 0
    /\ MayFlag(new.reserveAssets)
    /\ navModule' = "INITIALIZED"
    /\ settings' = new
    /\ isReserveAsset' = [c \in Components |-> isReserveAsset[c] \/ Contains(new.reserveAssets, c)]
    /\ UNCHANGED <<tokenVars, worldVars>>

\* Mutation: the flags of the reserve assets stay.
KeepFlags == isReserveAsset

UnflagAll == [c \in Components |-> isReserveAsset[c] /\ ~Contains(settings.reserveAssets, c)]

\* setToken.removeModule calls the module back.
RemoveModule ==
    /\ navModule = "INITIALIZED"
    /\ navModule' = "NONE"
    /\ settings' = NoSettings
    /\ isReserveAsset' = UnflagAll
    /\ UNCHANGED <<tokenVars, worldVars>>

\* onlyManagerAndValidSet: the module is initialized on the SetToken.
Edit(new) ==
    /\ navModule = "INITIALIZED"
    /\ settings' = new
    /\ UNCHANGED <<tokenVars, worldVars, navModule>>

AddReserveAsset(c) ==
    /\ ~isReserveAsset[c]
    /\ Edit([settings EXCEPT !.reserveAssets = Append(@, c)])
    /\ isReserveAsset' = [isReserveAsset EXCEPT ![c] = TRUE]

RemoveReserveAsset(c) ==
    /\ isReserveAsset[c]
    /\ Edit([settings EXCEPT !.reserveAssets = Remove(@, c)])
    /\ isReserveAsset' = [isReserveAsset EXCEPT ![c] = FALSE]

EditPremium(p) ==
    /\ p <= settings.maxPremium
    /\ Edit([settings EXCEPT !.premium = p])
    /\ UNCHANGED isReserveAsset

\* Mutation: the maximum is not looked at.
EditManagerFeeFreely(p, a) ==
    /\ Edit([settings EXCEPT !.managerFees[a] = p])
    /\ UNCHANGED isReserveAsset

EditManagerFee(p, a) ==
    /\ p <= settings.maxManagerFee
    /\ Edit([settings EXCEPT !.managerFees[a] = p])
    /\ UNCHANGED isReserveAsset

EditFeeRecipient(recipient) ==
    /\ recipient # NoRecipient
    /\ Edit([settings EXCEPT !.feeRecipient = recipient])
    /\ UNCHANGED isReserveAsset

-----------------------------------------------------------------------------
(* The environment *)

SetPrice(c, p) ==
    /\ c # MasterQuoteAsset
    /\ price' = [price EXCEPT ![c] = p]
    /\ UNCHANGED <<tokenVars, moduleFee, moduleVars>>

\* Anyone may send tokens to the SetToken, past its modules.
Airdrop(c) ==
    /\ balance[c] < Reserve(c) + MaxSurplus
    /\ balance' = [balance EXCEPT ![c] = @ + 1]
    /\ UNCHANGED <<storage, worldVars, moduleVars>>

-----------------------------------------------------------------------------
\* What the manager may pass to initialize, valid or not.
SettingsChoices ==
    {[reserveAssets |-> assets, managerFees |-> [a \in Actions |-> fee], maxManagerFee |-> max,
      premium |-> premium, maxPremium |-> max, minSetTokenSupply |-> min, feeRecipient |-> recipient] :
        assets \in SE!SeqOf(Components, 2), fee, premium, max \in Percentages, min \in MinSupplies,
        recipient \in Recipients}

Manager ==
    \/ AddModule
    \/ \E new \in SettingsChoices : Initialize(new)
    \/ RemoveModule
    \/ \E c \in Components : AddReserveAsset(c) \/ RemoveReserveAsset(c)
    \/ \E p \in Percentages : EditPremium(p) \/ \E a \in Actions : EditManagerFee(p, a)
    \/ \E recipient \in Recipients : EditFeeRecipient(recipient)

User ==
    \E q \in Quantities :
        \/ IssueWithEther(q) \/ RedeemIntoEther(q)
        \/ \E r \in Components : Issue(r, q) \/ Redeem(r, q)

Next ==
    \/ Manager
    \/ User
    \/ \E c \in Components : Airdrop(c) \/ \E p \in Prices : SetPrice(c, p)

Spec == Init /\ [][Next]_vars

-----------------------------------------------------------------------------
(* Properties *)

\* Exact collateralization: what the virtual units promise to the whole supply,
\* before any rounding, is covered by the balance.  Issuers pay in one asset and
\* the multiplier dilutes the others' units; no order of issuances, redemptions
\* and price moves, with all their roundings, promises a wei too much.
Collateralized ==
    \A c \in Components :
        (storage.virtualUnit[c] * storage.positionMultiplier) * Supply
            <= (balance[c] * PRECISE_UNIT) * PRECISE_UNIT

\* The check that the tests run after each transaction (reconcileBalances).
Reconciled == \A c \in Components : reconcileBalances(Unit(c), Supply, balance[c])

\* The array that the manager reads and the mapping that the module checks stay
\* in step over edits, removals of the module and its initialization again.
ReserveAssetsAgree ==
    /\ ~HasDuplicate(settings.reserveAssets)
    /\ \A c \in Components : isReserveAsset[c] <=> Contains(settings.reserveAssets, c)

RedeemsFreeOfFees == settings.managerFees["redeem"] = 0 /\ moduleFee["redeem"].direct = 0

\* What the getters announce: every issuance and redemption that goes through is
\* announced as valid, and where redemption is free of fees one that is announced
\* as valid finds its reserve and the tokens for it.
AnnouncedAsValid ==
    \A r \in Components, q \in Quantities :
        /\ CanIssue(r, q) => isIssueValid(r, q)
        /\ CanRedeem(r, q) => isRedeemValid(r, q)
        /\ isRedeemValid(r, q) /\ RedeemsFreeOfFees => CanRedeem(r, q)

\* Issuing and redeeming at once what was issued, at the same prices, gains
\* nothing but what roundings of the SetToken's total value are worth: with more
\* value in the SetToken, less.
RoundTripGainsDust ==
    \A r \in Components, q \in Quantities :
        LET newSupply == SupplyAfterIssue(r, q)
            notional  == Reserve(r) + NetFlow(q, "issue")
            paidBack  == RedeemReserve(UpdatePositions(newSupply, r, notional), r, newSupply - Supply)
            value     == MintDenominator(r, NetFlow(q, "issue"))
            dust      == Supply \div PRECISE_UNIT + 2
        IN  CanIssue(r, q) /\ CanUpdatePositions(newSupply, r, notional)
                /\ ~HasDuplicate(UpdatePositions(newSupply, r, notional).components) =>
                paidBack * value <= q * (value + dust)

\* expected is never above actual, and below it by at most tolerance.
AtMostBelow(expected, actual, tolerance) == expected <= actual /\ actual <= expected + tolerance

\* The specs round the inflation, and store and read a unit, in another order
\* than the code: they may come out lower by these many wei.
MultiplierTolerance == storage.positionMultiplier \div PRECISE_UNIT + 1
UnitTolerance(multiplier) == PRECISE_UNIT \div multiplier + multiplier \div PRECISE_UNIT + 1

UnitAsTested(newSupply, r, notional, expected) ==
    LET st == UpdatePositions(newSupply, r, notional)
    IN  CanUpdatePositions(newSupply, r, notional) =>
            \/ AtMostBelow(expected, DefaultPositionRealUnit(st, r), UnitTolerance(st.positionMultiplier))
            \/ AtMostBelow(DefaultPositionRealUnit(st, r), expected, UnitTolerance(st.positionMultiplier))

\* The specs' expectations of an issuance (navIssuanceModuleUtils.ts): the
\* quantity to the wei, the multiplier and the reserve's unit up to rounding.
\* The tests compare them at one scale and few amounts.
IssuesAsTested ==
    \A r \in Components, q \in Quantities :
        LET new == SupplyAfterIssue(r, q)
            manager == ManagerRevenueShare("issue")
            protocol == TotalProtocolFee("issue")
        IN  CanIssue(r, q) =>
                /\ new - Supply = getExpectedSetTokenIssueQuantity(
                                      Valuation(r), Supply, BaseUnits[r], q,
                                      manager, protocol, settings.premium)
                /\ AtMostBelow(getExpectedIssuePositionMultiplier(
                                   storage.positionMultiplier, Supply, new),
                               NewPositionMultiplier(new), MultiplierTolerance)
                /\ UnitAsTested(new, r, Reserve(r) + NetFlow(q, "issue"),
                       getExpectedIssuePositionUnit(Unit(r), q, Supply, new,
                           NewPositionMultiplier(new), manager, protocol))

\* The same of a redemption, in an asset of 18 decimals.
RedeemsAsTested ==
    \A r \in Components, q \in Quantities :
        LET new == Supply - q
            outflow == _getRedeemReserveQuantity(r, q)
        IN  CanRedeem(r, q) /\ BaseUnits[r] = PRECISE_UNIT =>
                /\ NetFlow(outflow, "redeem") = getExpectedReserveRedeemQuantity(
                        q, Valuation(r), BaseUnits[r], ManagerRevenueShare("redeem"),
                        TotalProtocolFee("redeem"), settings.premium)
                /\ AtMostBelow(getExpectedRedeemPositionMultiplier(
                                   storage.positionMultiplier, Supply, new),
                               NewPositionMultiplier(new), MultiplierTolerance)
                /\ UnitAsTested(new, r, Reserve(r) - outflow,
                       getExpectedRedeemPositionUnit(
                           Unit(r), PostPremiumValue(q, Valuation(r), settings.premium),
                           BaseUnits[r], Supply, new, NewPositionMultiplier(new)))

\* The comment of _getFees (NAVIssuanceModule.sol:880-881) says how a fee is
\* divided between the manager and the protocol.
FeesAsDocumented ==
    navModule = "INITIALIZED" =>
        \A q \in Quantities, a \in Actions :
            CanGetFees(q, a) => _getFees(q, a) = FeesAsCommented(q, a)
==============================================================================
