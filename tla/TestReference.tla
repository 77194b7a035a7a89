---------------------------- MODULE TestReference ----------------------------
(***************************************************************************)
(* What the repository's tests expect: the arithmetic of utils/common,     *)
(* which the specs compare the contracts with.  It is written a second     *)
(* time, in TypeScript, and rounds in other places than the contracts do.  *)
(* BigNumber's division truncates towards zero.                            *)
(***************************************************************************)
EXTENDS PreciseUnitMath

-----------------------------------------------------------------------------
(* mathUtils.ts *)

preciseMul(a, b) == TruncatedDiv(a * b, PRECISE_UNIT)

preciseDiv(a, b) == TruncatedDiv(a * PRECISE_UNIT, b)

preciseMulCeil(a, b) ==
    IF a = 0 \/ b = 0 THEN 0 ELSE TruncatedDiv(a * b - 1, PRECISE_UNIT) + 1

preciseDivCeil(a, b) ==
    IF a = 0 \/ b = 0 THEN 0 ELSE TruncatedDiv(a * PRECISE_UNIT - 1, b) + 1

SameSign(a, b) == (a > 0 /\ b > 0) \/ (a < 0 /\ b < 0)

\* Rounds away from zero.
preciseMulCeilInt(a, b) ==
    IF a = 0 \/ b = 0 THEN 0
    ELSE IF SameSign(a, b) THEN TruncatedDiv(a * b - 1, PRECISE_UNIT) + 1
    ELSE TruncatedDiv(a * b + 1, PRECISE_UNIT) - 1

-----------------------------------------------------------------------------
(* navIssuanceModuleUtils.ts *)

getExpectedIssuePositionMultiplier(previousMultiplier, previousSupply, currentSupply) ==
    LET inflation == preciseDivCeil(currentSupply - previousSupply, currentSupply)
    IN  preciseMul(previousMultiplier, PRECISE_UNIT - inflation)

getExpectedRedeemPositionMultiplier(previousMultiplier, previousSupply, currentSupply) ==
    LET deflation == preciseDiv(previousSupply - currentSupply, currentSupply)
    IN  preciseMul(previousMultiplier, PRECISE_UNIT + deflation)

getExpectedPostFeeQuantity(quantity, managerFee, protocolDirectFee) ==
    quantity - preciseMul(quantity, managerFee) - preciseMul(quantity, protocolDirectFee)

getExpectedSetTokenIssueQuantity(valuation, supply, baseUnits, quantity, managerFee, protocolDirectFee, premium) ==
    LET subFees        == getExpectedPostFeeQuantity(quantity, managerFee, protocolDirectFee)
        normalized     == preciseDiv(subFees, baseUnits)
        withoutPremium == preciseDiv(subFees - preciseMul(subFees, premium), baseUnits)
        denominator    == preciseMul(supply, valuation) + normalized - withoutPremium
    IN  preciseDiv(preciseMul(withoutPremium, supply), denominator)

\* The unit is rounded as it is when it is stored and read back.
RoundDownPositionUnit(notional, supply, multiplier) ==
    preciseDiv(preciseMul(preciseDiv(notional, supply), multiplier), multiplier)

getExpectedIssuePositionUnit(previousUnits, quantity, previousSupply, currentSupply, multiplier, managerFee, protocolDirectFee) ==
    RoundDownPositionUnit(
        preciseMul(previousSupply, previousUnits)
            + getExpectedPostFeeQuantity(quantity, managerFee, protocolDirectFee),
        currentSupply, multiplier)

\* Fees and premium are taken before the conversion to the asset's base units.
PostPremiumValue(quantity, valuation, premium) ==
    preciseMul(valuation, quantity) - preciseMulCeil(preciseMul(valuation, quantity), premium)

getExpectedReserveRedeemQuantity(quantity, valuation, baseUnits, managerFee, protocolDirectFee, premium) ==
    preciseMul(getExpectedPostFeeQuantity(PostPremiumValue(quantity, valuation, premium),
                                          managerFee, protocolDirectFee),
               baseUnits)

getExpectedRedeemPositionUnit(previousUnits, postPremiumValue, baseUnits, previousSupply, currentSupply, multiplier) ==
    RoundDownPositionUnit(
        preciseMul(previousSupply, previousUnits) - preciseMul(postPremiumValue, baseUnits),
        currentSupply, multiplier)

-----------------------------------------------------------------------------
(* feeModuleUtils.ts *)

getStreamingFee(timeElapsed, accrualRate, ONE_YEAR_IN_SECONDS) ==
    (timeElapsed * accrualRate) \div ONE_YEAR_IN_SECONDS

getStreamingFeeInflationAmount(inflationPercent, totalSupply) ==
    (inflationPercent * totalSupply) \div (PRECISE_UNIT - inflationPercent)

\* Of one unit.  Negative units round away from zero.
getPostFeePositionUnits(unit, inflationPercent) ==
    IF unit >= 0 THEN preciseMul(unit, PRECISE_UNIT - inflationPercent)
    ELSE preciseMulCeilInt(unit, PRECISE_UNIT - inflationPercent)

-----------------------------------------------------------------------------
(* accountingUtils.ts *)

\* reconcileBalances, of one component: the balance covers what the unit
\* promises to the whole supply, rounded down.
reconcileBalances(unit, supply, actualBalance) == actualBalance >= preciseMul(unit, supply)
==============================================================================
