------------------------- MODULE NAVIssuanceProofs --------------------------
(***************************************************************************)
(* Issuance and redemption at net asset value never promise more than the  *)
(* SetToken holds, and the reserve assets' two records agree, for every    *)
(* scale, fee schedule, price and bound.                                   *)
(***************************************************************************)
EXTENDS NAVIssuanceModule, PositionProofs

-----------------------------------------------------------------------------
(* The collateral, abstracted from what the module did *)

UnitsNatural == \A c \in Components : storage.virtualUnit[c] \in Nat

TypeInv == TypeOK /\ UnitsNatural

\* What a storage record and the balances behind it promise.
Covers(st, bal) ==
    \A c \in Components :
        (st.virtualUnit[c] * st.positionMultiplier) * st.totalSupply
            <= (bal[c] * PRECISE_UNIT) * PRECISE_UNIT

LEMMA ScaleBound ==
    ASSUME NEW k \in Nat, NEW a \in Int, NEW b \in Int, a <= b
    PROVE  k * a <= k * b
  BY SMT

\* The arithmetic of a component that only the multiplier touches.
LEMMA DilutedClaim ==
    ASSUME NEW v \in Nat, NEW m \in Nat, NEW n \in Nat, NEW old \in Nat, NEW S \in Nat,
           n * m <= old * S
    PROVE  (v * m) * n <= (v * old) * S
  <1>1. n * m \in Int /\ old * S \in Int
    BY SMT
  <1>2. v * (n * m) <= v * (old * S)
    BY <1>1, ScaleBound
  <1>3. (v * m) * n = v * (n * m) /\ (v * old) * S = v * (old * S)
    BY SMT
  <1> QED BY <1>2, <1>3

\* The arithmetic of the reserve asset, whose unit is computed afresh.
LEMMA ReserveClaim ==
    ASSUME NEW U \in Nat, NEW v \in Nat, NEW m \in Nat, NEW n \in Nat, NEW u \in Nat,
           NEW notional \in Nat, NEW held \in Nat,
           m * v <= u * U, n * u <= notional * U, notional <= held
    PROVE  (v * m) * n <= (held * U) * U
  <1>1. /\ m * v \in Int /\ u * U \in Nat /\ n * u \in Int /\ notional * U \in Int
        /\ held * U \in Int /\ notional * U <= held * U
    BY SMT
  <1>2. n * (m * v) <= n * (u * U)
    BY <1>1, ScaleBound
  <1>3. n * u <= held * U
    BY <1>1, SMT
  <1>4. U * (n * u) <= U * (held * U)
    BY <1>1, <1>3, ScaleBound
  <1>5. /\ (v * m) * n = n * (m * v) /\ n * (u * U) = U * (n * u)
        /\ (held * U) * U = U * (held * U)
    BY SMT
  <1> QED BY <1>2, <1>4, <1>5

-----------------------------------------------------------------------------
(* The end of every issuance and redemption *)

\* All units scaled to the new supply, the reserve asset's unit rewritten.
LEMMA UpdatedFields ==
    ASSUME TypeInv, NEW n \in Nat, NEW r \in Components, NEW notional \in Nat,
           CanUpdatePositions(n, r, notional)
    PROVE  LET st == UpdatePositions(n, r, notional)
               m  == NewPositionMultiplier(n)
               u  == NewReserveUnit(n, notional)
           IN  /\ st \in Storage /\ st.totalSupply = n /\ st.positionMultiplier = m
               /\ m \in Nat \ {0} /\ n * m <= storage.positionMultiplier * storage.totalSupply
               /\ u \in Nat /\ n * u <= notional * PRECISE_UNIT
               /\ \E v \in Nat : /\ st.virtualUnit = [storage.virtualUnit EXCEPT ![r] = v]
                                 /\ m * v <= u * PRECISE_UNIT
  <1> DEFINE m == NewPositionMultiplier(n)
             u == NewReserveUnit(n, notional)
             mid == EditPositionMultiplier(storage, m)
             st == EditDefaultPosition(mid, r, u)
             v == ConservativePreciseDiv(u, m)
  <1>1. /\ storage \in Storage /\ storage.positionMultiplier \in Nat
        /\ storage.totalSupply \in Nat /\ n \in Nat \ {0}
    BY StorageFields, SMT DEF TypeInv, TypeOK, CanUpdatePositions
  <1>2. storage.positionMultiplier * storage.totalSupply \in Nat
    BY <1>1, SMT
  <1>3. m \in Nat /\ n * m <= storage.positionMultiplier * storage.totalSupply
    BY <1>1, <1>2, DivBounds, DivNat DEF NewPositionMultiplier, Supply
  <1>4. CanEditPositionMultiplier(m) /\ CanEditDefaultPosition(mid, r, u)
    BY DEF CanUpdatePositions, Scaled
  <1>5. m \in Nat \ {0}
    BY <1>3, <1>4, SMT DEF CanEditPositionMultiplier
  <1>6. u \in Nat /\ n * u <= notional * PRECISE_UNIT
    BY <1>1, PreciseDivBounds DEF NewReserveUnit
  <1> HIDE DEF m, u
  <1>7. mid \in Storage
    BY <1>1, <1>3, <1>4, EditPositionMultiplierType
  <1>8. mid.positionMultiplier = m /\ mid.virtualUnit = storage.virtualUnit
    BY <1>1 DEF EditPositionMultiplier, Storage
  <1> HIDE DEF mid
  <1>9. u \in Int
    BY <1>6, SMT
  <1>10. st \in Storage
    BY <1>4, <1>7, <1>9, EditDefaultPositionType
  <1>11. /\ st.virtualUnit = [storage.virtualUnit EXCEPT ![r] = v]
         /\ st.positionMultiplier = m
    BY <1>7, <1>8, <1>9, EditedFields DEF ConvertRealToVirtualUnit
  <1>12. v \in Nat /\ m * v <= u * PRECISE_UNIT
    BY <1>5, <1>6, ConservativeDivBounds
  <1> HIDE DEF st, v
  <1>13. [st EXCEPT !.totalSupply = n] \in Storage
    BY <1>10 DEF Storage
  <1>14. /\ [st EXCEPT !.totalSupply = n].totalSupply = n
         /\ [st EXCEPT !.totalSupply = n].positionMultiplier = m
         /\ [st EXCEPT !.totalSupply = n].virtualUnit = st.virtualUnit
    BY <1>10, <1>11 DEF Storage
  <1>15. UpdatePositions(n, r, notional) = [st EXCEPT !.totalSupply = n]
    BY DEF UpdatePositions, Scaled, st, mid, m, u
  <1> QED BY <1>3, <1>5, <1>6, <1>11, <1>12, <1>13, <1>14, <1>15 DEF m, u

\* Whatever notional amount of the reserve asset is written into its unit, if it
\* is held and no other balance fell the claims stay covered.
LEMMA UpdateCovered ==
    ASSUME TypeInv, Collateralized, NEW n \in Nat, NEW r \in Components, NEW notional \in Nat,
           CanUpdatePositions(n, r, notional),
           NEW bal \in [Components -> Nat], notional <= bal[r],
           \A c \in Components : c # r => balance[c] <= bal[c]
    PROVE  LET st == UpdatePositions(n, r, notional)
           IN  /\ st \in Storage /\ \A c \in Components : st.virtualUnit[c] \in Nat
               /\ Covers(st, bal)
  <1> DEFINE st == UpdatePositions(n, r, notional)
             m == NewPositionMultiplier(n)
             u == NewReserveUnit(n, notional)
             old == storage.positionMultiplier
             S == storage.totalSupply
  <1>1. /\ st \in Storage /\ st.totalSupply = n /\ st.positionMultiplier = m
        /\ m \in Nat /\ n * m <= old * S /\ u \in Nat /\ n * u <= notional * PRECISE_UNIT
    BY UpdatedFields
  <1>2. PICK v \in Nat : /\ st.virtualUnit = [storage.virtualUnit EXCEPT ![r] = v]
                         /\ m * v <= u * PRECISE_UNIT
    BY UpdatedFields
  <1> HIDE DEF st, m, u
  <1>3. /\ old \in Nat /\ S \in Nat /\ storage.virtualUnit \in [Components -> Int]
        /\ \A c \in Components : storage.virtualUnit[c] \in Nat /\ balance[c] \in Nat
    BY StorageFields DEF TypeInv, TypeOK, UnitsNatural
  <1>4. \A c \in Components : st.virtualUnit[c] = IF c = r THEN v ELSE storage.virtualUnit[c]
    BY <1>2, <1>3
  <1>5. ASSUME NEW c \in Components
        PROVE  (st.virtualUnit[c] * st.positionMultiplier) * st.totalSupply
                   <= (bal[c] * PRECISE_UNIT) * PRECISE_UNIT
    <2>1. CASE c = r
      <3>1. bal[r] \in Nat /\ PRECISE_UNIT \in Nat
        BY PreciseUnitAssumption
      <3>2. (v * m) * n <= (bal[r] * PRECISE_UNIT) * PRECISE_UNIT
        BY <1>1, <1>2, <3>1, ReserveClaim
      <3> QED BY <1>1, <1>4, <2>1, <3>2
    <2>2. CASE c # r
      <3> DEFINE w == storage.virtualUnit[c]
      <3>1. (w * m) * n <= (w * old) * S
        BY <1>1, <1>3, DilutedClaim
      <3>2. (w * old) * S <= (balance[c] * PRECISE_UNIT) * PRECISE_UNIT
        BY DEF Collateralized, Supply
      <3>3. (balance[c] * PRECISE_UNIT) * PRECISE_UNIT <= (bal[c] * PRECISE_UNIT) * PRECISE_UNIT
        <4>1. balance[c] \in Nat /\ bal[c] \in Nat /\ balance[c] <= bal[c]
          BY <1>3, <2>2
        <4>2. /\ balance[c] * PRECISE_UNIT \in Int /\ bal[c] * PRECISE_UNIT \in Int
              /\ balance[c] * PRECISE_UNIT <= bal[c] * PRECISE_UNIT
          BY <4>1, PreciseUnitAssumption, SMT
        <4> QED BY <4>2, PreciseUnitAssumption, SMT
      <3>4. st.virtualUnit[c] = w /\ w \in Nat
        BY <1>3, <1>4, <2>2
      <3> HIDE DEF w, old, S
      <3>5. /\ (w * m) * n \in Int /\ (w * old) * S \in Int
            /\ (balance[c] * PRECISE_UNIT) * PRECISE_UNIT \in Int
            /\ (bal[c] * PRECISE_UNIT) * PRECISE_UNIT \in Int
        BY <1>1, <1>3, <3>4, PreciseUnitAssumption, SMT DEF old, S
      <3>6. (w * m) * n <= (bal[c] * PRECISE_UNIT) * PRECISE_UNIT
        BY <3>1, <3>2, <3>3, <3>5, SMT
      <3> QED BY <1>1, <3>4, <3>6
    <2> QED BY <2>1, <2>2
  <1>6. \A c \in Components : st.virtualUnit[c] \in Nat
    BY <1>3, <1>4
  <1> QED BY <1>1, <1>5, <1>6 DEF Covers, st

-----------------------------------------------------------------------------
(* Quantities are natural *)

LEMMA SettingsFields ==
    ASSUME TypeOK
    PROVE  /\ settings.reserveAssets \in Seq(Components)
           /\ settings.managerFees \in [Actions -> Percentage]
           /\ settings.maxManagerFee \in Percentage
           /\ settings.premium \in Percentage
           /\ settings.maxPremium \in Percentage
           /\ settings.minSetTokenSupply \in Nat
           /\ settings.feeRecipient \in Recipients \cup {NoRecipient}
  BY DEF TypeOK, Settings

LEMMA NetFlowType ==
    ASSUME TypeOK, NEW a \in Actions, NEW q \in Nat, CanGetFees(q, a)
    PROVE  NetFlow(q, a) \in Nat
  <1>1. settings.managerFees[a] \in Nat
    BY SettingsFields, PreciseUnitAssumption, SMT DEF Percentage
  <1>2. moduleFee[a].share \in Nat /\ moduleFee[a].direct \in Nat
    BY NAVAssumption DEF TypeOK, Actions
  <1>3. ProtocolRevenueShare(a) \in Nat
    BY <1>1, <1>2, PreciseMulBounds DEF ProtocolRevenueShare
  <1>4. ManagerRevenueShare(a) \in Nat
    BY <1>1, <1>3, SMT DEF CanGetFees, ManagerRevenueShare
  <1>5. TotalProtocolFee(a) \in Nat
    BY <1>2, <1>3, SMT DEF TotalProtocolFee
  <1>6. _getFees(q, a).protocol \in Nat /\ _getFees(q, a).manager \in Nat
    BY <1>4, <1>5, PreciseMulBounds DEF _getFees
  <1> QED BY <1>6, SMT DEF NetFlow, CanGetFees

LEMMA UnitType ==
    ASSUME TypeInv, NEW r \in Components
    PROVE  Unit(r) \in Nat
  <1>1. storage.virtualUnit[r] \in Nat /\ storage.positionMultiplier \in Nat
    BY StorageFields DEF TypeInv, TypeOK, UnitsNatural
  <1> QED BY <1>1, ConservativeMulBounds DEF Unit, DefaultPositionRealUnit, ConvertVirtualToRealUnit

LEMMA ReserveBounds ==
    ASSUME TypeInv, Collateralized, NEW r \in Components
    PROVE  Reserve(r) \in Nat /\ Reserve(r) <= balance[r]
  <1> DEFINE v == storage.virtualUnit[r]
             m == storage.positionMultiplier
             S == storage.totalSupply
             u == ConservativePreciseMul(v, m)
             n == PreciseMul(u, S)
             U == PRECISE_UNIT
             b == balance[r]
  <1>1. v \in Nat /\ m \in Nat /\ S \in Nat /\ b \in Nat /\ U \in Nat \ {0}
    BY StorageFields, PreciseUnitAssumption DEF TypeInv, TypeOK, UnitsNatural
  <1>2. Reserve(r) = n
    BY DEF Reserve, Unit, DefaultPositionRealUnit, ConvertVirtualToRealUnit, Supply
  <1>3. (v * m) * S <= (b * U) * U
    BY DEF Collateralized, Supply
  <1>4. u \in Nat /\ U * u <= v * m
    BY <1>1, ConservativeMulBounds
  <1>5. n \in Nat /\ U * n <= u * S
    BY <1>1, <1>4, PreciseMulBounds
  <1> HIDE DEF v, m, S, u, n, U, b
  <1>6. U * (U * n) <= U * (b * U)
    <2>1. U * (U * n) <= U * (u * S)
      BY <1>1, <1>4, <1>5, ScaleBound
    <2>2. S * (U * u) <= S * (v * m)
      BY <1>1, <1>4, ScaleBound
    <2>3. /\ U * (u * S) = S * (U * u) /\ S * (v * m) = (v * m) * S
          /\ (b * U) * U = U * (b * U)
      BY <1>1, <1>4, SMT
    <2>4. /\ U * (U * n) \in Int /\ U * (u * S) \in Int /\ S * (v * m) \in Int
          /\ U * (b * U) \in Int
      BY <1>1, <1>4, <1>5, SMT
    <2> QED BY <1>3, <2>1, <2>2, <2>3, <2>4, SMT
  <1>7. U * n \in Int /\ b * U \in Int /\ b * U = U * b
    BY <1>1, <1>5, SMT
  <1>8. U * n <= U * b
    BY <1>1, <1>6, <1>7, CancelFactor
  <1>9. n <= b
    BY <1>1, <1>5, <1>8, CancelFactor
  <1> QED BY <1>2, <1>5, <1>9 DEF b

LEMMA OutflowType ==
    ASSUME TypeOK, NEW r \in Components, NEW q \in Nat, CanRedeem(r, q)
    PROVE  _getRedeemReserveQuantity(r, q) \in Nat
  <1> DEFINE reserve == PreciseMul(PreciseMul(q, ValuationOf(storage, r)), BaseUnits[r])
  <1>1. ValuationOf(storage, r) \in Nat
    BY DEF CanRedeem, CanValue, Valuation
  <1>2. BaseUnits[r] \in Nat /\ settings.premium \in Nat
    BY NAVAssumption, SettingsFields, PreciseUnitAssumption, SMT DEF Percentage
  <1>3. reserve \in Nat
    BY <1>1, <1>2, PreciseMulBounds
  <1>4. PreciseMulCeil(reserve, settings.premium) \in Nat
    BY <1>2, <1>3, PreciseMulCeilBounds
  <1> HIDE DEF reserve
  <1>5. reserve - PreciseMulCeil(reserve, settings.premium) \in Int
    BY <1>3, <1>4, SMT
  <1>6. _getRedeemReserveQuantity(r, q) = reserve - PreciseMulCeil(reserve, settings.premium)
    BY DEF _getRedeemReserveQuantity, RedeemReserve, reserve
  <1> QED BY <1>5, <1>6, SMT DEF CanRedeem

LEMMA MintQuantityType ==
    ASSUME TypeOK, NEW r \in Components, NEW q \in Nat, CanIssue(r, q)
    PROVE  _getSetTokenMintQuantity(r, NetFlow(q, "issue")) \in Nat
  <1> DEFINE net == NetFlow(q, "issue")
             paid == PreciseMul(net, settings.premium)
             value == PreciseMul(PreciseDiv(WithoutPremium(net), BaseUnits[r]), Supply)
  <1>1. net \in Nat
    BY NetFlowType DEF CanIssue, Actions
  <1>2. settings.premium \in Nat /\ BaseUnits[r] \in Nat \ {0} /\ Supply \in Nat
    BY SettingsFields, StorageFields, NAVAssumption, PreciseUnitAssumption, SMT
       DEF Percentage, TypeOK, Supply
  <1>3. paid \in Nat /\ paid <= net
    BY <1>1, <1>2, PreciseMulBounds DEF CanIssue
  <1>4. WithoutPremium(net) \in Nat
    BY <1>1, <1>3, SMT DEF WithoutPremium
  <1>5. /\ PreciseDiv(WithoutPremium(net), BaseUnits[r]) \in Nat
        /\ PreciseDiv(net, BaseUnits[r]) \in Nat
    BY <1>1, <1>2, <1>4, PreciseDivBounds
  <1>6. value \in Nat
    BY <1>2, <1>5, PreciseMulBounds
  <1>7. PreciseMul(Supply, Valuation(r)) \in Nat
    BY <1>2, PreciseMulBounds DEF CanIssue, CanValue
  <1>8. MintDenominator(r, net) \in Nat \ {0}
    BY <1>5, <1>7, SMT DEF CanIssue, MintDenominator
  <1> QED BY <1>6, <1>8, PreciseDivBounds DEF _getSetTokenMintQuantity

LEMMA SupplyAfterIssueType ==
    ASSUME TypeOK, NEW r \in Components, NEW q \in Nat, CanIssue(r, q)
    PROVE  SupplyAfterIssue(r, q) \in Nat
  <1>1. Supply \in Nat
    BY StorageFields DEF TypeOK, Supply
  <1> QED BY <1>1, MintQuantityType, SMT DEF SupplyAfterIssue

-----------------------------------------------------------------------------
(* Types and collateral are kept by every transaction *)

ClaimInv == TypeInv /\ Collateralized

LEMMA IssueClaim ==
    ASSUME ClaimInv, NEW r \in Components, NEW q \in Nat, Issue(r, q)
    PROVE  ClaimInv'
  <1> DEFINE net == NetFlow(q, "issue")
             n == SupplyAfterIssue(r, q)
             notional == Reserve(r) + net
             bal == [balance EXCEPT ![r] = @ + net]
             st == UpdatePositions(n, r, notional)
  <1>1. /\ CanIssue(r, q) /\ CanUpdatePositions(n, r, notional)
        /\ storage' = st /\ balance' = bal /\ UNCHANGED <<worldVars, moduleVars>>
    BY DEF Issue
  <1>2. net \in Nat /\ n \in Nat
    BY <1>1, NetFlowType, SupplyAfterIssueType DEF ClaimInv, TypeInv, CanIssue, Actions
  <1>3. balance \in [Components -> Nat] /\ Reserve(r) \in Nat /\ Reserve(r) <= balance[r]
    BY ReserveBounds DEF ClaimInv, TypeInv, TypeOK
  <1> HIDE DEF net, n
  <1>4. /\ balance[r] + net \in Nat /\ notional \in Nat /\ notional <= balance[r] + net
        /\ \A c \in Components : balance[c] <= balance[c]
    BY <1>2, <1>3, SMT
  <1> HIDE DEF notional
  <1>5. /\ bal \in [Components -> Nat] /\ notional <= bal[r]
        /\ \A c \in Components : c # r => balance[c] <= bal[c]
    BY <1>3, <1>4
  <1> HIDE DEF bal
  <1>6. /\ st \in Storage /\ \A c \in Components : st.virtualUnit[c] \in Nat
        /\ Covers(st, bal)
    BY <1>1, <1>2, <1>4, <1>5, UpdateCovered DEF ClaimInv
  <1> HIDE DEF st
  <1>7. TypeOK'
    BY <1>1, <1>5, <1>6 DEF ClaimInv, TypeInv, TypeOK, worldVars, moduleVars
  <1>8. UnitsNatural' /\ Collateralized'
    BY <1>1, <1>6 DEF UnitsNatural, Collateralized, Covers, Supply
  <1> QED BY <1>7, <1>8 DEF ClaimInv, TypeInv

LEMMA RedeemClaim ==
    ASSUME ClaimInv, NEW r \in Components, NEW q \in Nat, Redeem(r, q)
    PROVE  ClaimInv'
  <1> DEFINE out == _getRedeemReserveQuantity(r, q)
             n == Supply - q
             notional == Reserve(r) - out
             bal == [balance EXCEPT ![r] = @ - out]
             st == UpdatePositions(n, r, notional)
  <1>1. /\ CanRedeem(r, q) /\ CanUpdatePositions(n, r, notional)
        /\ storage' = st /\ balance' = bal /\ UNCHANGED <<worldVars, moduleVars>>
    BY DEF Redeem
  <1>2. out \in Nat /\ out <= Reserve(r)
    BY <1>1, OutflowType DEF ClaimInv, TypeInv, CanRedeem
  <1>3. n \in Nat
    BY <1>1, SettingsFields, StorageFields, SMT DEF ClaimInv, TypeInv, TypeOK, CanRedeem, Supply
  <1>4. balance \in [Components -> Nat] /\ Reserve(r) \in Nat /\ Reserve(r) <= balance[r]
    BY ReserveBounds DEF ClaimInv, TypeInv, TypeOK
  <1> HIDE DEF out, n
  <1>5. /\ balance[r] - out \in Nat /\ notional \in Nat /\ notional <= balance[r] - out
        /\ \A c \in Components : balance[c] <= balance[c]
    BY <1>2, <1>4, SMT
  <1> HIDE DEF notional
  <1>6. /\ bal \in [Components -> Nat] /\ notional <= bal[r]
        /\ \A c \in Components : c # r => balance[c] <= bal[c]
    BY <1>4, <1>5
  <1> HIDE DEF bal
  <1>7. /\ st \in Storage /\ \A c \in Components : st.virtualUnit[c] \in Nat
        /\ Covers(st, bal)
    BY <1>1, <1>3, <1>5, <1>6, UpdateCovered DEF ClaimInv
  <1> HIDE DEF st
  <1>8. TypeOK'
    BY <1>1, <1>6, <1>7 DEF ClaimInv, TypeInv, TypeOK, worldVars, moduleVars
  <1>9. UnitsNatural' /\ Collateralized'
    BY <1>1, <1>7 DEF UnitsNatural, Collateralized, Covers, Supply
  <1> QED BY <1>8, <1>9 DEF ClaimInv, TypeInv

-----------------------------------------------------------------------------
(* The manager's settings *)

LEMMA PercentageNat == Percentage \subseteq Nat /\ 0 \in Percentage
  BY PreciseUnitAssumption, SMT DEF Percentage

LEMMA BelowPercentage ==
    ASSUME NEW max \in Percentage, NEW p \in Nat, p <= max
    PROVE  p \in Percentage
  BY PreciseUnitAssumption, SMT DEF Percentage

LEMMA NoSettingsType == NoSettings \in Settings
  <1>1. << >> \in Seq(Components)
    BY EmptySeq
  <1> QED BY <1>1, PercentageNat, SMT DEF NoSettings, Settings

\* What initialize lets through is within its maximums.
LEMMA InitializedType ==
    ASSUME NEW new \in SettingsChoices, Initialize(new)
    PROVE  new \in Settings
  <1>1. PICK assets \in SE!SeqOf(Components, 2), fee \in Percentages, premium \in Percentages,
             max \in Percentages, min \in MinSupplies, recipient \in Recipients :
          new = [reserveAssets |-> assets, managerFees |-> [a \in Actions |-> fee],
                 maxManagerFee |-> max, premium |-> premium, maxPremium |-> max,
                 minSetTokenSupply |-> min, feeRecipient |-> recipient]
    BY DEF SettingsChoices
  <1>2. assets \in Seq(Components)
    <2>1. PICK n \in 0 .. 2 : assets \in [1 .. n -> Components]
      BY DEF SE!SeqOf
    <2>2. n \in Nat
      BY SMT
    <2> QED BY <2>1, <2>2, IsASeq
  <1>3. fee \in Nat /\ premium \in Nat /\ max \in Nat /\ min \in Nat
    BY NAVAssumption
  <1>4. max < PRECISE_UNIT /\ fee <= max /\ premium <= max
    <2>1. "issue" \in Actions
      BY DEF Actions
    <2> QED BY <1>1, <2>1 DEF Initialize
  <1>5. max \in Percentage /\ fee \in Percentage /\ premium \in Percentage
    BY <1>3, <1>4, PreciseUnitAssumption, SMT DEF Percentage
  <1> QED BY <1>1, <1>2, <1>3, <1>5 DEF Settings

\* Nothing is configured until initialize, nor after removeModule.
SettingsInv ==
    /\ TypeOK
    /\ ReserveAssetsAgree
    /\ navModule # "INITIALIZED" => settings = NoSettings

LEMMA NothingFlagged ==
    ASSUME SettingsInv, navModule # "INITIALIZED", NEW c \in Components
    PROVE  ~isReserveAsset[c]
  <1>1. settings.reserveAssets = << >>
    BY DEF SettingsInv, NoSettings
  <1>2. ~Contains(settings.reserveAssets, c)
    BY <1>1 DEF Contains
  <1> QED BY <1>2 DEF SettingsInv, ReserveAssetsAgree

\* The settings of an edit that touches no reserve asset.
LEMMA EditedSettings ==
    ASSUME SettingsInv, NEW new \in Settings, new.reserveAssets = settings.reserveAssets,
           Edit(new), UNCHANGED isReserveAsset
    PROVE  SettingsInv'
  BY DEF Edit, SettingsInv, TypeOK, ReserveAssetsAgree, tokenVars, worldVars

LEMMA InitializeSettings ==
    ASSUME SettingsInv, NEW new \in SettingsChoices, Initialize(new)
    PROVE  SettingsInv'
  <1>1. new \in Settings /\ settings' = new
    BY InitializedType DEF Initialize
  <1>2. \A c \in Components : isReserveAsset'[c] <=> Contains(new.reserveAssets, c)
    BY NothingFlagged DEF Initialize
  <1>3. isReserveAsset' \in [Components -> BOOLEAN]
    BY DEF Initialize, SettingsInv, TypeOK
  <1>4. ~HasDuplicate(new.reserveAssets)
    BY DEF Initialize, MayFlag
  <1> QED BY <1>1, <1>2, <1>3, <1>4
          DEF Initialize, SettingsInv, TypeOK, ReserveAssetsAgree, tokenVars, worldVars

LEMMA RemoveModuleSettings ==
    ASSUME SettingsInv, RemoveModule
    PROVE  SettingsInv'
  <1>1. \A c \in Components : ~isReserveAsset'[c]
    BY DEF RemoveModule, UnflagAll, SettingsInv, ReserveAssetsAgree
  <1>2. isReserveAsset' \in [Components -> BOOLEAN]
    BY DEF RemoveModule, UnflagAll
  <1>3. NoSettings.reserveAssets = << >>
    BY DEF NoSettings
  <1>4. ~HasDuplicate(<< >>) /\ \A c \in Components : ~Contains(<< >>, c)
    BY DEF HasDuplicate, Contains
  <1> QED BY <1>1, <1>2, <1>3, <1>4, NoSettingsType
          DEF RemoveModule, SettingsInv, TypeOK, ReserveAssetsAgree, tokenVars, worldVars

LEMMA AddReserveAssetSettings ==
    ASSUME SettingsInv, NEW c \in Components, AddReserveAsset(c)
    PROVE  SettingsInv'
  <1> DEFINE A == settings.reserveAssets
             B == Append(A, c)
             new == [settings EXCEPT !.reserveAssets = Append(@, c)]
  <1>1. A \in Seq(Components) /\ ~HasDuplicate(A) /\ ~Contains(A, c)
    BY SettingsFields DEF AddReserveAsset, SettingsInv, ReserveAssetsAgree
  <1>2. /\ B \in Seq(Components) /\ Elements(B) = Elements(A) \cup {c} /\ ~HasDuplicate(B)
    BY <1>1, PushProperties
  <1>3. \A d \in Components : Contains(B, d) <=> Contains(A, d) \/ d = c
    BY <1>2, ContainsElements
  <1>4. new \in Settings /\ new.reserveAssets = B
    BY <1>2 DEF SettingsInv, TypeOK, Settings
  <1>5. settings' = new /\ isReserveAsset' = [isReserveAsset EXCEPT ![c] = TRUE]
    BY DEF AddReserveAsset, Edit
  <1> HIDE DEF B, new
  <1>6. /\ isReserveAsset' \in [Components -> BOOLEAN]
        /\ \A d \in Components : isReserveAsset'[d] <=> Contains(B, d)
    BY <1>3, <1>5 DEF SettingsInv, TypeOK, ReserveAssetsAgree
  <1> QED BY <1>2, <1>4, <1>5, <1>6
          DEF AddReserveAsset, Edit, SettingsInv, TypeOK, ReserveAssetsAgree, tokenVars, worldVars

LEMMA RemoveReserveAssetSettings ==
    ASSUME SettingsInv, NEW c \in Components, RemoveReserveAsset(c)
    PROVE  SettingsInv'
  <1> DEFINE A == settings.reserveAssets
             B == Remove(A, c)
             new == [settings EXCEPT !.reserveAssets = Remove(@, c)]
  <1>1. A \in Seq(Components) /\ ~HasDuplicate(A) /\ Contains(A, c)
    BY SettingsFields DEF RemoveReserveAsset, SettingsInv, ReserveAssetsAgree
  <1>2. /\ B \in Seq(Components) /\ Elements(B) = Elements(A) \ {c} /\ ~HasDuplicate(B)
    BY <1>1, RemoveType, RemoveProperties
  <1>3. \A d \in Components : Contains(B, d) <=> Contains(A, d) /\ d # c
    BY <1>2, ContainsElements
  <1>4. new \in Settings /\ new.reserveAssets = B
    BY <1>2 DEF SettingsInv, TypeOK, Settings
  <1>5. settings' = new /\ isReserveAsset' = [isReserveAsset EXCEPT ![c] = FALSE]
    BY DEF RemoveReserveAsset, Edit
  <1> HIDE DEF B, new
  <1>6. /\ isReserveAsset' \in [Components -> BOOLEAN]
        /\ \A d \in Components : isReserveAsset'[d] <=> Contains(B, d)
    BY <1>3, <1>5 DEF SettingsInv, TypeOK, ReserveAssetsAgree
  <1> QED BY <1>2, <1>4, <1>5, <1>6
          DEF RemoveReserveAsset, Edit, SettingsInv, TypeOK, ReserveAssetsAgree, tokenVars, worldVars

LEMMA ManagerSettings ==
    ASSUME SettingsInv, Manager
    PROVE  SettingsInv'
  <1>1. CASE AddModule
    BY <1>1 DEF AddModule, SettingsInv, TypeOK, ReserveAssetsAgree, tokenVars, worldVars
  <1>2. CASE \E new \in SettingsChoices : Initialize(new)
    BY <1>2, InitializeSettings
  <1>3. CASE RemoveModule
    BY <1>3, RemoveModuleSettings
  <1>4. CASE \E c \in Components : AddReserveAsset(c) \/ RemoveReserveAsset(c)
    BY <1>4, AddReserveAssetSettings, RemoveReserveAssetSettings
  <1>5. ASSUME NEW p \in Percentages, EditPremium(p) PROVE SettingsInv'
    <2>1. p \in Percentage
      BY <1>5, SettingsFields, NAVAssumption, BelowPercentage DEF EditPremium, SettingsInv
    <2>2. [settings EXCEPT !.premium = p] \in Settings
      BY <2>1 DEF SettingsInv, TypeOK, Settings
    <2>3. [settings EXCEPT !.premium = p].reserveAssets = settings.reserveAssets
      BY DEF SettingsInv, TypeOK, Settings
    <2> QED BY <1>5, <2>2, <2>3, EditedSettings DEF EditPremium
  <1>6. ASSUME NEW p \in Percentages, NEW a \in Actions, EditManagerFee(p, a) PROVE SettingsInv'
    <2>1. p \in Percentage
      BY <1>6, SettingsFields, NAVAssumption, BelowPercentage DEF EditManagerFee, SettingsInv
    <2>2. [settings.managerFees EXCEPT ![a] = p] \in [Actions -> Percentage]
      BY <2>1, SettingsFields DEF SettingsInv
    <2>3. [settings EXCEPT !.managerFees[a] = p] \in Settings
      BY <2>2 DEF SettingsInv, TypeOK, Settings
    <2>4. [settings EXCEPT !.managerFees[a] = p].reserveAssets = settings.reserveAssets
      BY DEF SettingsInv, TypeOK, Settings
    <2> QED BY <1>6, <2>3, <2>4, EditedSettings DEF EditManagerFee
  <1>7. ASSUME NEW recipient \in Recipients, EditFeeRecipient(recipient) PROVE SettingsInv'
    <2>1. [settings EXCEPT !.feeRecipient = recipient] \in Settings
      BY DEF SettingsInv, TypeOK, Settings
    <2>2. [settings EXCEPT !.feeRecipient = recipient].reserveAssets = settings.reserveAssets
      BY DEF SettingsInv, TypeOK, Settings
    <2> QED BY <1>7, <2>1, <2>2, EditedSettings DEF EditFeeRecipient
  <1> QED BY <1>1, <1>2, <1>3, <1>4, <1>5, <1>6, <1>7 DEF Manager

LEMMA ManagerKeepsTokens ==
    ASSUME Manager
    PROVE  UNCHANGED <<tokenVars, worldVars>>
  BY DEF Manager, AddModule, Initialize, RemoveModule, AddReserveAsset, RemoveReserveAsset,
         EditPremium, EditManagerFee, EditFeeRecipient, Edit

-----------------------------------------------------------------------------
(* The environment *)

LEMMA AirdropClaim ==
    ASSUME ClaimInv, NEW c \in Components, Airdrop(c)
    PROVE  ClaimInv'
  <1>1. /\ balance \in [Components -> Nat] /\ balance' = [balance EXCEPT ![c] = @ + 1]
        /\ UNCHANGED <<storage, worldVars, moduleVars>>
    BY DEF Airdrop, ClaimInv, TypeInv, TypeOK
  <1>2. /\ balance[c] + 1 \in Nat
        /\ \A d \in Components : balance[d] <= balance[d] /\ balance[d] <= balance[d] + 1
    BY <1>1, SMT
  <1>3. balance' \in [Components -> Nat] /\ \A d \in Components : balance[d] <= balance'[d]
    BY <1>1, <1>2
  <1>4. ASSUME NEW d \in Components
        PROVE  (storage.virtualUnit[d] * storage.positionMultiplier) * Supply
                   <= (balance'[d] * PRECISE_UNIT) * PRECISE_UNIT
    <2> DEFINE x == (storage.virtualUnit[d] * storage.positionMultiplier) * Supply
               b == balance[d]
               e == balance'[d]
               U == PRECISE_UNIT
    <2>1. b \in Nat /\ e \in Nat /\ b <= e /\ U \in Nat
      BY <1>1, <1>3, PreciseUnitAssumption
    <2>2. x \in Int /\ x <= (b * U) * U
      <3>1. /\ storage.virtualUnit[d] \in Nat /\ storage.positionMultiplier \in Nat
            /\ Supply \in Nat
        BY StorageFields DEF ClaimInv, TypeInv, TypeOK, UnitsNatural, Supply
      <3>2. x \in Int
        BY <3>1, SMT
      <3> QED BY <3>2 DEF ClaimInv, Collateralized
    <2> HIDE DEF x, b, e, U
    <2>3. b * U \in Int /\ e * U \in Int /\ b * U <= e * U
      BY <2>1, SMT
    <2>4. (b * U) * U \in Int /\ (e * U) * U \in Int /\ (b * U) * U <= (e * U) * U
      BY <2>1, <2>3, SMT
    <2>5. x <= (e * U) * U
      BY <2>2, <2>4, SMT
    <2> QED BY <2>5 DEF x, e, U
  <1>5. Collateralized' /\ UnitsNatural'
    BY <1>1, <1>4 DEF Collateralized, Supply, UnitsNatural, ClaimInv, TypeInv
  <1> QED BY <1>1, <1>3, <1>5 DEF ClaimInv, TypeInv, TypeOK, worldVars, moduleVars

LEMMA SetPriceClaim ==
    ASSUME ClaimInv, NEW c \in Components, NEW p \in Prices, SetPrice(c, p)
    PROVE  ClaimInv'
  BY DEF SetPrice, ClaimInv, TypeInv, TypeOK, UnitsNatural, Collateralized, Supply,
         tokenVars, moduleVars

-----------------------------------------------------------------------------
(* The theorems *)

\* Claims and settings are inductive together.
Inv == ClaimInv /\ SettingsInv

LEMMA InitInv == Init => Inv
  <1> SUFFICES ASSUME Init PROVE Inv
    OBVIOUS
  <1> DEFINE st == InitialStorage(InitialComponents, InitialUnits)
  <1>1. /\ InitialUnits \in [Components -> Nat] /\ InitialUnits \in [Components -> Int]
        /\ InitialComponents \in Seq(Components) /\ InitialSupply \in Nat
    BY NAVAssumption
  <1>2. st \in Storage
    BY <1>1, InitialStorageType
  <1>3. /\ st.virtualUnit = InitialUnits /\ st.positionMultiplier = PRECISE_UNIT
        /\ st.totalSupply = 0
    BY DEF InitialStorage
  <1> HIDE DEF st
  <1>4. storage = Mint(st, InitialSupply) /\ storage \in Storage
    BY <1>1, <1>2, SupplyType DEF Init, st
  <1>5. /\ storage.virtualUnit = InitialUnits /\ storage.positionMultiplier = PRECISE_UNIT
        /\ storage.totalSupply = InitialSupply
    <2>1. st.totalSupply + InitialSupply = InitialSupply
      BY <1>1, <1>3, SMT
    <2>2. /\ storage.virtualUnit = st.virtualUnit
          /\ storage.positionMultiplier = st.positionMultiplier
          /\ storage.totalSupply = st.totalSupply + InitialSupply
      BY <1>2, <1>4 DEF Mint, Storage
    <2> QED BY <1>3, <2>1, <2>2
  <1>6. ASSUME NEW c \in Components
        PROVE  /\ balance[c] \in Nat
               /\ (InitialUnits[c] * PRECISE_UNIT) * InitialSupply
                      <= (balance[c] * PRECISE_UNIT) * PRECISE_UNIT
    <2> DEFINE b == PreciseMulCeil(InitialUnits[c], InitialSupply)
               x == InitialUnits[c]
               S == InitialSupply
               U == PRECISE_UNIT
    <2>1. x \in Nat /\ S \in Nat /\ U \in Nat \ {0}
      BY <1>1, PreciseUnitAssumption
    <2>2. b \in Nat /\ x * S <= U * b
      BY <2>1, PreciseMulCeilBounds
    <2>3. balance[c] = b
      BY DEF Init
    <2> HIDE DEF b, x, S, U
    <2>4. x * S \in Int /\ U * b \in Int
      BY <2>1, <2>2, SMT
    <2>5. U * (x * S) <= U * (U * b)
      BY <2>1, <2>2, <2>4, ScaleBound
    <2>6. (x * U) * S = U * (x * S) /\ (b * U) * U = U * (U * b)
      BY <2>1, <2>2, SMT
    <2> QED BY <2>2, <2>3, <2>5, <2>6 DEF x, S, U
  <1>7. balance \in [Components -> Nat]
    BY <1>6 DEF Init
  <1>8. UnitsNatural /\ Collateralized
    BY <1>1, <1>5, <1>6 DEF UnitsNatural, Collateralized, Supply
  <1>9. TypeOK
    BY <1>4, <1>7, NoSettingsType DEF Init, TypeOK
  <1>10. ReserveAssetsAgree
    <2>1. settings.reserveAssets = << >> /\ \A c \in Components : ~isReserveAsset[c]
      BY DEF Init, NoSettings
    <2> QED BY <2>1 DEF ReserveAssetsAgree, HasDuplicate, Contains
  <1>11. settings = NoSettings
    BY DEF Init
  <1> QED BY <1>8, <1>9, <1>10, <1>11 DEF Inv, ClaimInv, TypeInv, SettingsInv

LEMMA NextInv == Inv /\ [Next]_vars => Inv'
  <1> SUFFICES ASSUME Inv, [Next]_vars PROVE Inv'
    OBVIOUS
  <1> USE DEF Inv
  <1>1. ASSUME ClaimInv', UNCHANGED moduleVars PROVE Inv'
    BY <1>1 DEF ClaimInv, TypeInv, SettingsInv, ReserveAssetsAgree, moduleVars
  <1>2. ASSUME Manager PROVE Inv'
    <2>1. SettingsInv' /\ UNCHANGED <<tokenVars, worldVars>>
      BY <1>2, ManagerSettings, ManagerKeepsTokens
    <2>2. UnitsNatural' /\ Collateralized'
      BY <2>1 DEF ClaimInv, TypeInv, UnitsNatural, Collateralized, Supply, tokenVars
    <2> QED BY <2>1, <2>2 DEF ClaimInv, TypeInv, SettingsInv
  <1>3. ASSUME NEW q \in Quantities, NEW r \in Components, Issue(r, q) \/ Redeem(r, q)
        PROVE  Inv'
    <2>1. q \in Nat
      BY NAVAssumption
    <2>2. ClaimInv'
      BY <1>3, <2>1, IssueClaim, RedeemClaim
    <2>3. UNCHANGED moduleVars
      BY <1>3 DEF Issue, Redeem
    <2> QED BY <1>1, <2>2, <2>3
  <1>4. ASSUME User PROVE Inv'
    <2>1. WETH \in Components
      BY NAVAssumption
    <2> QED BY <1>3, <1>4, <2>1 DEF User, IssueWithEther, RedeemIntoEther
  <1>5. ASSUME NEW c \in Components, Airdrop(c) PROVE Inv'
    <2>1. UNCHANGED moduleVars
      BY <1>5 DEF Airdrop
    <2> QED BY <1>1, <1>5, <2>1, AirdropClaim
  <1>6. ASSUME NEW c \in Components, NEW p \in Prices, SetPrice(c, p) PROVE Inv'
    <2>1. UNCHANGED moduleVars
      BY <1>6 DEF SetPrice
    <2> QED BY <1>1, <1>6, <2>1, SetPriceClaim
  <1>7. ASSUME UNCHANGED vars PROVE Inv'
    BY <1>7 DEF ClaimInv, TypeInv, TypeOK, UnitsNatural, Collateralized, Supply, SettingsInv,
                ReserveAssetsAgree, vars, tokenVars, worldVars, moduleVars
  <1> QED BY <1>2, <1>4, <1>5, <1>6, <1>7 DEF Next

THEOREM Invariance == Spec => []Inv
  BY InitInv, NextInv, PTL DEF Spec

\* Every quantity stays natural: no issuance, redemption or edit of the settings
\* underflows a balance, a unit, the supply or a percentage.
THEOREM TypeCorrect == Spec => []TypeOK
  <1>1. Inv => TypeOK
    BY DEF Inv, SettingsInv
  <1> QED BY <1>1, Invariance, PTL

\* NAVIssuanceModule never promises more than the SetToken holds, whatever the
\* prices, fees and premiums: the multiplier is rounded down after the supply
\* grew, the reserve asset's unit is rounded down from what is really held.
THEOREM NAVCollateralized == Spec => []Collateralized
  <1>1. Inv => Collateralized
    BY DEF Inv, ClaimInv
  <1> QED BY <1>1, Invariance, PTL

\* The check of the repository's specs follows for every scale.
THEOREM NAVReconciled == Spec => []Reconciled
  <1>1. Inv => Reconciled
    <2> SUFFICES ASSUME Inv, NEW c \in Components
                 PROVE  reconcileBalances(Unit(c), Supply, balance[c])
      BY DEF Reconciled
    <2>1. Reserve(c) \in Nat /\ Reserve(c) <= balance[c]
      BY ReserveBounds DEF Inv, ClaimInv
    <2>2. Unit(c) \in Nat /\ Supply \in Nat
      BY UnitType, StorageFields DEF Inv, ClaimInv, TypeInv, TypeOK, Supply
    <2>3. preciseMul(Unit(c), Supply) = Reserve(c)
      <3>1. Unit(c) * Supply >= 0
        BY <2>2, SMT
      <3> QED BY <3>1 DEF preciseMul, TruncatedDiv, Reserve, PreciseMul
    <2>4. balance[c] \in Nat
      BY DEF Inv, ClaimInv, TypeInv, TypeOK
    <2> QED BY <2>1, <2>3, <2>4, SMT DEF reconcileBalances
  <1> QED BY <1>1, Invariance, PTL

\* The array of reserve assets and the mapping that issue and redeem consult
\* agree over every sequence of edits, removals and initializations.
THEOREM ReserveAssetsStayInStep == Spec => []ReserveAssetsAgree
  <1>1. Inv => ReserveAssetsAgree
    BY DEF Inv, SettingsInv
  <1> QED BY <1>1, Invariance, PTL

-----------------------------------------------------------------------------
(* The expectations of the specs: arithmetic *)

\* The specs' truncating division is the contracts' on what is not negative.
LEMMA SpecDivision ==
    ASSUME NEW a \in Nat, NEW b \in Nat
    PROVE  /\ preciseMul(a, b) = PreciseMul(a, b)
           /\ preciseMul(a, b) = PreciseMul(b, a)
           /\ preciseMulCeil(a, b) = PreciseMulCeil(a, b)
           /\ b # 0 => preciseDiv(a, b) = PreciseDiv(a, b)
  <1>1. a * b \in Nat /\ a * b = b * a /\ a * PRECISE_UNIT \in Nat
    BY PreciseUnitAssumption, SMT
  <1>2. a # 0 /\ b # 0 => a * b - 1 >= 0
    BY SMT
  <1> QED BY <1>1, <1>2, SMT DEF preciseMul, PreciseMul, preciseMulCeil, PreciseMulCeil,
                                 preciseDiv, PreciseDiv, TruncatedDiv

\* Both ways of scaling a multiplier to a new supply, whatever it was rounded to.
LEMMA MultiplierArithmetic ==
    ASSUME NEW U \in Nat \ {0}, NEW m \in Nat, NEW S \in Nat, NEW n \in Nat \ {0}
    PROVE  LET code == (m * S) \div n
               spec == (m * ((S * U) \div n)) \div U
           IN  /\ code \in Nat /\ spec \in Nat
               /\ spec <= code /\ code <= spec + m \div U + 1
  <1> DEFINE code == (m * S) \div n
             spec == (m * ((S * U) \div n)) \div U
             k == m \div U
             exact == m * (S * U)
             nU == n * U
  <1>1. S * U \in Nat /\ m * S \in Nat /\ nU \in Nat \ {0} /\ exact \in Nat
    BY SMT
  <1>2. spec \in Nat /\ nU * spec <= exact /\ exact < nU * (spec + 1) + m * n
    BY <1>1, FloorOfFloor
  <1>3. code \in Nat /\ n * code <= m * S /\ m * S < n * code + n
    BY <1>1, DivBounds, DivNat
  <1>4. k \in Nat /\ m <= U * (k + 1)
    <2>1. k \in Nat /\ m < U * k + U
      BY DivBounds, DivNat
    <2> HIDE DEF k
    <2> QED BY <2>1, SMT
  <1> HIDE DEF code, spec, k
  <1>5. nU * code <= exact /\ exact < nU * (code + 1)
    <2>1. n * code \in Int /\ n * code + n \in Int /\ m * S \in Int
      BY <1>1, <1>3, SMT
    <2>2. U * (n * code) <= U * (m * S) /\ U * (m * S) < U * (n * code + n)
      BY <1>3, <2>1, ProductMonotone, SMT
    <2>3. /\ U * (n * code) = nU * code /\ U * (m * S) = exact
          /\ U * (n * code + n) = nU * (code + 1)
      BY <1>3, SMT
    <2> QED BY <2>2, <2>3
  <1>6. m * n <= nU * (k + 1)
    <2>1. U * (k + 1) \in Int
      BY <1>4, SMT
    <2>2. n * m <= n * (U * (k + 1))
      BY <1>4, <2>1, ProductMonotone
    <2>3. n * m = m * n /\ n * (U * (k + 1)) = nU * (k + 1)
      BY <1>4, SMT
    <2> QED BY <2>2, <2>3
  <1> HIDE DEF exact, nU
  <1>7. nU * (spec + k + 2) = nU * (spec + 1) + nU * (k + 1)
    BY <1>1, <1>2, <1>4, SMT
  <1>8. /\ nU * code \in Int /\ nU * spec \in Int /\ nU * (spec + 1) \in Int
        /\ nU * (code + 1) \in Int /\ m * n \in Int /\ nU * (k + 1) \in Int
        /\ nU * (spec + k + 2) \in Int
    BY <1>1, <1>2, <1>3, <1>4, SMT
  <1>9. nU * spec < nU * (code + 1) /\ nU * code < nU * (spec + k + 2)
    BY <1>1, <1>2, <1>5, <1>6, <1>7, <1>8, SMT
  <1>10. spec < code + 1 /\ code < spec + k + 2
    <2>1. code + 1 \in Int /\ spec + k + 2 \in Int /\ code \in Int /\ spec \in Int
      BY <1>2, <1>3, <1>4, SMT
    <2> QED BY <1>1, <1>9, <2>1, CancelStrict
  <1> QED BY <1>2, <1>3, <1>4, <1>10, SMT DEF code, spec, k

\* A unit w stored and read back, through either of two conversions by a factor:
\* what comes back is below w by at most the ratio's whole part and one.
LEMMA ThereAndBack ==
    ASSUME NEW w \in Nat, NEW x \in Nat \ {0}, NEW y \in Nat \ {0}
    PROVE  LET back == (((w * x) \div y) * y) \div x
           IN  /\ back \in Nat /\ back <= w /\ w <= back + y \div x + 1
  <1> DEFINE q == (w * x) \div y
             r == (y * q) \div x
             j == y \div x
             yx == y * x
  <1>1. w * x \in Nat /\ yx \in Nat \ {0}
    BY SMT
  <1>2. q \in Nat /\ r \in Nat /\ yx * r <= y * (w * x) /\ y * (w * x) < yx * (r + 1) + y * y
    BY <1>1, FloorOfFloor
  <1>3. j \in Nat /\ y <= x * (j + 1)
    <2>1. j \in Nat /\ y < x * j + x
      BY DivBounds, DivNat
    <2> HIDE DEF j
    <2> QED BY <2>1, SMT
  <1>4. (((w * x) \div y) * y) \div x = r
    <2>1. q * y = y * q
      BY <1>2, SMT
    <2> QED BY <2>1
  <1> HIDE DEF q, r, j
  <1>5. y * (w * x) = yx * w
    BY SMT
  <1>6. y * y <= yx * (j + 1)
    <2>1. x * (j + 1) \in Int
      BY <1>3, SMT
    <2>2. y * y <= y * (x * (j + 1))
      BY <1>3, <2>1, ProductMonotone
    <2>3. y * (x * (j + 1)) = yx * (j + 1)
      BY <1>3, SMT
    <2> QED BY <2>2, <2>3
  <1> HIDE DEF yx
  <1>7. yx * (r + j + 2) = yx * (r + 1) + yx * (j + 1)
    BY <1>1, <1>2, <1>3, SMT
  <1>8. /\ yx * r \in Int /\ yx * w \in Int /\ yx * (r + 1) \in Int /\ y * y \in Int
        /\ yx * (j + 1) \in Int /\ yx * (r + j + 2) \in Int
    BY <1>1, <1>2, <1>3, SMT
  <1>9. yx * r <= yx * w /\ yx * w < yx * (r + j + 2)
    BY <1>2, <1>5, <1>6, <1>7, <1>8, SMT
  <1>10. r <= w /\ w < r + j + 2
    <2>1. r \in Int /\ r + j + 2 \in Int
      BY <1>2, <1>3, SMT
    <2> QED BY <1>1, <1>9, <2>1, CancelFactor, CancelStrict
  <1> QED BY <1>2, <1>3, <1>4, <1>10, SMT DEF j

\* The inflation that issuance causes and the deflation that redemption causes
\* both leave the multiplier its share of the old supply in the new.
LEMMA SupplyRatio ==
    ASSUME NEW U \in Nat \ {0}, NEW S \in Nat, NEW n \in Nat \ {0}
    PROVE  /\ S <= n /\ n # S => U - (((n - S) * U - 1) \div n + 1) = (S * U) \div n
           /\ S = n => U = (S * U) \div n
           /\ n <= S => U + ((S - n) * U) \div n = (S * U) \div n
  <1>1. S * U \in Int /\ n * U \in Int /\ (n - S) * U = n * U - S * U
        /\ (S - n) * U = S * U - n * U
    BY SMT
  <1>2. CASE S <= n /\ n # S
    <2> DEFINE c == ((n - S) * U - 1) \div n
               x == U - (c + 1)
    <2>1. (n - S) * U - 1 \in Int
      BY <1>1, SMT
    <2>2. c \in Int /\ n * c <= (n - S) * U - 1 /\ (n - S) * U - 1 < n * c + n
      BY <2>1, DivBounds
    <2> HIDE DEF c
    <2>3. x \in Int /\ n * x = n * U - n * c - n /\ n * c \in Int
      BY <2>2, SMT
    <2> HIDE DEF x
    <2>4. n * x <= S * U /\ S * U < n * x + n
      BY <1>1, <2>2, <2>3, SMT
    <2>5. (S * U) \div n = x
      BY <1>1, <2>3, <2>4, DivUnique
    <2> QED BY <1>2, <2>5 DEF x, c
  <1>3. CASE S = n
    <2>1. n * U <= S * U /\ S * U < n * U + n
      BY <1>1, <1>3, SMT
    <2> QED BY <1>1, <1>3, <2>1, DivUnique, SMT
  <1>4. n <= S => U + ((S - n) * U) \div n = (S * U) \div n
    <2> DEFINE d == ((S - n) * U) \div n
               x == U + d
    <2>1. (S - n) * U \in Int
      BY <1>1, SMT
    <2>2. d \in Int /\ n * d <= (S - n) * U /\ (S - n) * U < n * d + n
      BY <2>1, DivBounds
    <2> HIDE DEF d
    <2>3. x \in Int /\ n * x = n * U + n * d /\ n * d \in Int
      BY <2>2, SMT
    <2> HIDE DEF x
    <2>4. n * x <= S * U /\ S * U < n * x + n
      BY <1>1, <2>2, <2>3, SMT
    <2>5. (S * U) \div n = x
      BY <1>1, <2>3, <2>4, DivUnique
    <2> QED BY <2>5 DEF x, d
  <1> QED BY <1>2, <1>3, <1>4

-----------------------------------------------------------------------------
(* The expectations of the specs: every issuance and redemption *)

\* initialize asks for a positive minimum supply and no edit changes it: while
\* the module may be called the supply is positive, and nothing divides by zero.
MinSupplyInv == navModule = "INITIALIZED" => settings.minSetTokenSupply > 0

LEMMA EditKeepsMinSupply ==
    ASSUME SettingsInv, MinSupplyInv, NEW new, Edit(new),
           new.minSetTokenSupply = settings.minSetTokenSupply
    PROVE  MinSupplyInv'
  BY DEF Edit, MinSupplyInv

LEMMA MinSupplyStep == Inv /\ MinSupplyInv /\ [Next]_vars => MinSupplyInv'
  <1> SUFFICES ASSUME Inv, MinSupplyInv, [Next]_vars PROVE MinSupplyInv'
    OBVIOUS
  <1>1. SettingsInv /\ settings \in Settings
    BY DEF Inv, SettingsInv, TypeOK
  <1>2. CASE AddModule \/ RemoveModule
    BY <1>2 DEF AddModule, RemoveModule, MinSupplyInv
  <1>3. CASE \E new \in SettingsChoices : Initialize(new)
    BY <1>3 DEF Initialize, MinSupplyInv
  <1>4. CASE \E c \in Components : AddReserveAsset(c) \/ RemoveReserveAsset(c)
    <2>1. PICK A : Edit([settings EXCEPT !.reserveAssets = A])
      BY <1>4 DEF AddReserveAsset, RemoveReserveAsset
    <2>2. [settings EXCEPT !.reserveAssets = A].minSetTokenSupply = settings.minSetTokenSupply
      BY <1>1 DEF Settings
    <2> QED BY <1>1, <2>1, <2>2, EditKeepsMinSupply
  <1>5. ASSUME NEW p \in Percentages, EditPremium(p) PROVE MinSupplyInv'
    <2>1. [settings EXCEPT !.premium = p].minSetTokenSupply = settings.minSetTokenSupply
      BY <1>1 DEF Settings
    <2> QED BY <1>1, <1>5, <2>1, EditKeepsMinSupply DEF EditPremium
  <1>6. ASSUME NEW p \in Percentages, NEW a \in Actions, EditManagerFee(p, a) PROVE MinSupplyInv'
    <2>1. [settings EXCEPT !.managerFees[a] = p].minSetTokenSupply = settings.minSetTokenSupply
      BY <1>1 DEF Settings
    <2> QED BY <1>1, <1>6, <2>1, EditKeepsMinSupply DEF EditManagerFee
  <1>7. ASSUME NEW recipient \in Recipients, EditFeeRecipient(recipient) PROVE MinSupplyInv'
    <2>1. [settings EXCEPT !.feeRecipient = recipient].minSetTokenSupply = settings.minSetTokenSupply
      BY <1>1 DEF Settings
    <2> QED BY <1>1, <1>7, <2>1, EditKeepsMinSupply DEF EditFeeRecipient
  <1>8. CASE UNCHANGED moduleVars
    BY <1>8 DEF MinSupplyInv, moduleVars
  <1>9. User \/ (\E c \in Components : Airdrop(c) \/ \E p \in Prices : SetPrice(c, p))
            \/ UNCHANGED vars => UNCHANGED moduleVars
    BY DEF User, IssueWithEther, RedeemIntoEther, Issue, Redeem, Airdrop, SetPrice, vars
  <1> QED BY <1>2, <1>3, <1>4, <1>5, <1>6, <1>7, <1>8, <1>9 DEF Next, Manager

LEMMA MinSupplyInvariance == Spec => []MinSupplyInv
  <1>1. Init => MinSupplyInv
    BY DEF Init, MinSupplyInv
  <1> QED BY <1>1, MinSupplyStep, Invariance, PTL DEF Spec

\* Percentages of both directions, once the contract's subtraction went through.
LEMMA FeePercentages ==
    ASSUME TypeOK, NEW a \in Actions, ProtocolRevenueShare(a) <= settings.managerFees[a]
    PROVE  ManagerRevenueShare(a) \in Nat /\ TotalProtocolFee(a) \in Nat
  <1>1. settings.managerFees[a] \in Nat
    BY SettingsFields, PreciseUnitAssumption, SMT DEF Percentage
  <1>2. moduleFee[a].share \in Nat /\ moduleFee[a].direct \in Nat
    BY NAVAssumption DEF TypeOK, Actions
  <1>3. ProtocolRevenueShare(a) \in Nat
    BY <1>1, <1>2, PreciseMulBounds DEF ProtocolRevenueShare
  <1> QED BY <1>1, <1>2, <1>3, SMT DEF ManagerRevenueShare, TotalProtocolFee

LEMMA NetFlowAsTested ==
    ASSUME TypeOK, NEW a \in Actions, NEW q \in Nat, CanGetFees(q, a)
    PROVE  getExpectedPostFeeQuantity(q, ManagerRevenueShare(a), TotalProtocolFee(a)) = NetFlow(q, a)
  <1>1. ManagerRevenueShare(a) \in Nat /\ TotalProtocolFee(a) \in Nat
    BY FeePercentages DEF CanGetFees
  <1>2. /\ preciseMul(q, ManagerRevenueShare(a)) = PreciseMul(ManagerRevenueShare(a), q)
        /\ preciseMul(q, TotalProtocolFee(a)) = PreciseMul(TotalProtocolFee(a), q)
    BY <1>1, SpecDivision
  <1> QED BY <1>2 DEF getExpectedPostFeeQuantity, NetFlow, _getFees

LEMMA MintQuantityAsTested ==
    ASSUME TypeOK, NEW r \in Components, NEW q \in Nat, CanIssue(r, q)
    PROVE  _getSetTokenMintQuantity(r, NetFlow(q, "issue")) =
               getExpectedSetTokenIssueQuantity(Valuation(r), Supply, BaseUnits[r], q,
                   ManagerRevenueShare("issue"), TotalProtocolFee("issue"), settings.premium)
  <1> DEFINE net == NetFlow(q, "issue")
             premium == settings.premium
             base == BaseUnits[r]
             without == WithoutPremium(net)
             shares == PreciseDiv(without, base)
             total == MintDenominator(r, net)
  <1>1. /\ net \in Nat
        /\ getExpectedPostFeeQuantity(q, ManagerRevenueShare("issue"), TotalProtocolFee("issue")) = net
    BY NetFlowType, NetFlowAsTested DEF CanIssue, Actions
  <1> HIDE DEF net
  <1>2. premium \in Nat /\ base \in Nat \ {0} /\ base \in Nat /\ base # 0 /\ Supply \in Nat
    <2>1. premium \in Nat
      BY SettingsFields, PreciseUnitAssumption, SMT DEF Percentage
    <2>2. base \in Nat \ {0}
      BY NAVAssumption
    <2>3. Supply \in Nat
      BY StorageFields DEF TypeOK, Supply
    <2> QED BY <2>1, <2>2, <2>3
  <1>3. /\ Valuation(r) \in Nat /\ PreciseMul(net, premium) <= net /\ total > 0
    BY DEF CanIssue, CanValue, net
  <1> HIDE DEF premium, base
  <1>4. PreciseMul(net, premium) \in Nat /\ preciseMul(net, premium) = PreciseMul(net, premium)
    BY <1>1, <1>2, PreciseMulBounds, SpecDivision
  <1>5. without = net - preciseMul(net, premium) /\ without \in Nat
    BY <1>1, <1>3, <1>4, SMT DEF WithoutPremium, premium
  <1> HIDE DEF without
  <1>6. /\ PreciseDiv(net, base) = preciseDiv(net, base) /\ PreciseDiv(net, base) \in Nat
        /\ shares = preciseDiv(without, base) /\ shares \in Nat
    BY <1>1, <1>2, <1>5, SpecDivision, PreciseDivBounds
  <1> HIDE DEF shares
  <1>7. /\ PreciseMul(Supply, Valuation(r)) = preciseMul(Supply, Valuation(r))
        /\ PreciseMul(Supply, Valuation(r)) \in Nat
        /\ PreciseMul(shares, Supply) = preciseMul(shares, Supply)
        /\ PreciseMul(shares, Supply) \in Nat
    BY <1>2, <1>3, <1>6, SpecDivision, PreciseMulBounds
  <1>8. total = PreciseMul(Supply, Valuation(r)) + PreciseDiv(net, base) - shares
    BY DEF MintDenominator, shares, without, base
  <1>9. total \in Nat /\ total # 0
    BY <1>3, <1>6, <1>7, <1>8, SMT
  <1>10. _getSetTokenMintQuantity(r, net) = PreciseDiv(PreciseMul(shares, Supply), total)
    BY DEF _getSetTokenMintQuantity, shares, without, base
  <1> HIDE DEF total
  <1>11. _getSetTokenMintQuantity(r, net) = preciseDiv(preciseMul(shares, Supply), total)
    BY <1>7, <1>9, <1>10, SpecDivision
  <1> QED BY <1>1, <1>5, <1>6, <1>7, <1>8, <1>11
          DEF getExpectedSetTokenIssueQuantity, net, premium, base

\* The multiplier after the supply grew from S to n, or fell to it.
LEMMA MultiplierAsTested ==
    ASSUME TypeOK, NEW n \in Nat \ {0}
    PROVE  LET m == storage.positionMultiplier
           IN  /\ NewPositionMultiplier(n) \in Nat
               /\ Supply <= n => AtMostBelow(getExpectedIssuePositionMultiplier(m, Supply, n),
                                             NewPositionMultiplier(n), MultiplierTolerance)
               /\ n <= Supply => AtMostBelow(getExpectedRedeemPositionMultiplier(m, Supply, n),
                                             NewPositionMultiplier(n), MultiplierTolerance)
  <1> DEFINE m == storage.positionMultiplier
             S == storage.totalSupply
             U == PRECISE_UNIT
             ratio == (S * U) \div n
             spec == (m * ratio) \div U
             code == (m * S) \div n
  <1>1. m \in Nat /\ S \in Nat /\ U \in Nat \ {0}
    BY StorageFields, PreciseUnitAssumption DEF TypeOK
  <1>2. code \in Nat /\ spec \in Nat /\ spec <= code /\ code <= spec + m \div U + 1
    BY <1>1, MultiplierArithmetic
  <1>3. AtMostBelow(spec, code, MultiplierTolerance)
    <2>1. m \div U \in Nat
      BY <1>1, DivNat
    <2>2. MultiplierTolerance = m \div U + 1 /\ spec + m \div U + 1 = spec + (m \div U + 1)
      BY <1>2, <2>1, SMT DEF MultiplierTolerance
    <2> QED BY <1>2, <2>2 DEF AtMostBelow
  <1>4. S * U \in Nat /\ ratio \in Nat /\ preciseMul(m, ratio) = spec
    <2>1. S * U \in Nat
      BY <1>1, SMT
    <2>2. ratio \in Nat
      BY <2>1, DivNat
    <2> HIDE DEF ratio
    <2>3. preciseMul(m, ratio) = PreciseMul(m, ratio)
      BY <1>1, <2>2, SpecDivision
    <2> QED BY <2>1, <2>2, <2>3 DEF PreciseMul
  <1>5. Supply = S /\ NewPositionMultiplier(n) = code
    BY DEF Supply, NewPositionMultiplier
  <1>6. ASSUME S <= n
        PROVE  getExpectedIssuePositionMultiplier(m, S, n) = spec
    <2>1. n - S \in Nat /\ n # 0
      BY <1>1, <1>6, SMT
    <2>2. U - preciseDivCeil(n - S, n) = ratio
      <3>1. CASE n = S
        <4>1. n - S = 0
          BY <1>1, <3>1, SMT
        <4>2. preciseDivCeil(n - S, n) = 0
          BY <4>1 DEF preciseDivCeil
        <4>3. U - 0 = U
          BY <1>1, SMT
        <4> QED BY <1>1, <3>1, <4>2, <4>3, SupplyRatio
      <3>2. CASE n # S
        <4>1. n - S # 0 /\ (n - S) * U - 1 >= 0
          BY <1>1, <2>1, <3>2, SMT
        <4>2. preciseDivCeil(n - S, n) = ((n - S) * U - 1) \div n + 1
          BY <2>1, <4>1 DEF preciseDivCeil, TruncatedDiv
        <4> HIDE DEF S, U
        <4>3. U - (((n - S) * U - 1) \div n + 1) = (S * U) \div n
          BY <1>1, <1>6, <3>2, SupplyRatio
        <4> QED BY <4>2, <4>3
      <3> QED BY <3>1, <3>2
    <2> QED BY <1>4, <2>2 DEF getExpectedIssuePositionMultiplier
  <1>7. ASSUME n <= S
        PROVE  getExpectedRedeemPositionMultiplier(m, S, n) = spec
    <2>1. S - n \in Nat /\ n \in Nat /\ n # 0
      BY <1>1, <1>7, SMT
    <2>2. preciseDiv(S - n, n) = ((S - n) * U) \div n
      BY <2>1, SpecDivision DEF PreciseDiv
    <2>3. U + preciseDiv(S - n, n) = ratio
      <3> HIDE DEF S, U
      <3>1. U + ((S - n) * U) \div n = (S * U) \div n
        BY <1>1, <1>7, SupplyRatio
      <3> QED BY <2>2, <3>1
    <2> QED BY <1>4, <2>3 DEF getExpectedRedeemPositionMultiplier
  <1> QED BY <1>2, <1>3, <1>5, <1>6, <1>7

\* The reserve asset's unit, read back from the storage that was written.
LEMMA UpdatedUnit ==
    ASSUME TypeInv, NEW n \in Nat, NEW r \in Components, NEW notional \in Nat,
           CanUpdatePositions(n, r, notional)
    PROVE  LET st == UpdatePositions(n, r, notional)
               m  == NewPositionMultiplier(n)
               w  == NewReserveUnit(n, notional)
           IN  /\ st.positionMultiplier = m /\ m \in Nat \ {0} /\ w \in Nat
               /\ DefaultPositionRealUnit(st, r) = (((w * PRECISE_UNIT) \div m) * m) \div PRECISE_UNIT
  <1> DEFINE st == UpdatePositions(n, r, notional)
             m == NewPositionMultiplier(n)
             w == NewReserveUnit(n, notional)
             mid == EditPositionMultiplier(storage, m)
             edited == EditDefaultPosition(mid, r, w)
             v == (w * PRECISE_UNIT) \div m
  <1>1. /\ st \in Storage /\ st.positionMultiplier = m /\ m \in Nat \ {0} /\ w \in Nat
    BY UpdatedFields
  <1>2. mid \in Storage /\ mid.positionMultiplier = m
    <2>1. CanEditPositionMultiplier(m) /\ m \in Nat
      BY <1>1 DEF CanUpdatePositions
    <2>2. storage \in Storage
      BY DEF TypeInv, TypeOK
    <2>3. mid \in Storage
      BY <2>1, <2>2, EditPositionMultiplierType
    <2> QED BY <2>2, <2>3 DEF EditPositionMultiplier, Storage
  <1>3. st = [edited EXCEPT !.totalSupply = n]
    BY DEF UpdatePositions, Scaled
  <1>4. CanEditDefaultPosition(mid, r, w)
    BY DEF CanUpdatePositions, Scaled
  <1> HIDE DEF mid, m, w, st
  <1>5. /\ edited \in Storage
        /\ edited.virtualUnit = [mid.virtualUnit EXCEPT ![r] = ConvertRealToVirtualUnit(mid, w)]
    <2>1. w \in Int
      BY <1>1, SMT
    <2> QED BY <1>2, <1>4, <2>1, EditDefaultPositionType, EditedFields
  <1> HIDE DEF edited
  <1>6. st.virtualUnit[r] = ConvertRealToVirtualUnit(mid, w)
    <2>1. mid.virtualUnit \in [Components -> Int]
      BY <1>2, StorageFields
    <2>2. st.virtualUnit = edited.virtualUnit
      BY <1>3, <1>5 DEF Storage
    <2> QED BY <1>5, <2>1, <2>2
  <1>7. w * PRECISE_UNIT \in Nat
    BY <1>1, PreciseUnitAssumption, SMT
  <1>8. ConvertRealToVirtualUnit(mid, w) = v /\ v \in Nat
    BY <1>1, <1>2, <1>7, DivDownIsFloor, DivNat DEF ConvertRealToVirtualUnit, ConservativePreciseDiv
  <1> HIDE DEF v
  <1>9. v * m \in Int
    BY <1>1, <1>8, SMT
  <1>10. DefaultPositionRealUnit(st, r) = (v * m) \div PRECISE_UNIT
    BY <1>1, <1>6, <1>8, <1>9, DivDownIsFloor, PreciseUnitAssumption
       DEF DefaultPositionRealUnit, ConvertVirtualToRealUnit, ConservativePreciseMul
  <1> QED BY <1>1, <1>10 DEF v, st, m, w

LEMMA UnitWithinTolerance ==
    ASSUME TypeInv, NEW n \in Nat \ {0}, NEW r \in Components, NEW notional \in Nat
    PROVE  UnitAsTested(n, r, notional,
               RoundDownPositionUnit(notional, n, NewPositionMultiplier(n)))
  <1> DEFINE st == UpdatePositions(n, r, notional)
             m == NewPositionMultiplier(n)
             w == NewReserveUnit(n, notional)
             U == PRECISE_UNIT
             code == (((w * U) \div m) * m) \div U
             spec == (((w * m) \div U) * U) \div m
             tolerance == U \div m + m \div U + 1
  <1> SUFFICES ASSUME CanUpdatePositions(n, r, notional)
               PROVE  \/ AtMostBelow(RoundDownPositionUnit(notional, n, m),
                                     DefaultPositionRealUnit(st, r), UnitTolerance(st.positionMultiplier))
                      \/ AtMostBelow(DefaultPositionRealUnit(st, r),
                                     RoundDownPositionUnit(notional, n, m), UnitTolerance(st.positionMultiplier))
    BY DEF UnitAsTested
  <1>1. /\ st.positionMultiplier = m /\ m \in Nat \ {0} /\ w \in Nat
        /\ DefaultPositionRealUnit(st, r) = code
    BY UpdatedUnit
  <1>2. U \in Nat \ {0}
    BY PreciseUnitAssumption
  <1>3. RoundDownPositionUnit(notional, n, m) = spec
    <2>1. preciseDiv(notional, n) = w
      BY SpecDivision DEF NewReserveUnit
    <2> HIDE DEF w, m
    <2>2. preciseMul(w, m) = (w * m) \div U
      BY <1>1, SpecDivision DEF PreciseMul
    <2>3. w * m \in Nat
      BY <1>1, SMT
    <2>4. (w * m) \div U \in Nat
      BY <1>2, <2>3, DivNat
    <2>5. preciseDiv((w * m) \div U, m) = spec
      <3> HIDE DEF U
      <3>1. m \in Nat /\ m # 0
        BY <1>1
      <3>2. preciseDiv((w * m) \div U, m) = PreciseDiv((w * m) \div U, m)
        BY <2>4, <3>1, SpecDivision
      <3> QED BY <3>2 DEF PreciseDiv, U
    <2> QED BY <2>1, <2>2, <2>5 DEF RoundDownPositionUnit
  <1>4. UnitTolerance(st.positionMultiplier) = tolerance
    BY <1>1 DEF UnitTolerance
  <1> HIDE DEF w, m, U, st
  <1>5. code \in Nat /\ code <= w /\ w <= code + m \div U + 1
    BY <1>1, <1>2, ThereAndBack
  <1>6. spec \in Nat /\ spec <= w /\ w <= spec + U \div m + 1
    BY <1>1, <1>2, ThereAndBack
  <1>7. m \div U \in Nat /\ U \div m \in Nat
    BY <1>1, <1>2, DivNat
  <1> HIDE DEF code, spec
  <1>8. AtMostBelow(spec, code, tolerance) \/ AtMostBelow(code, spec, tolerance)
    <2> DEFINE i == m \div U
               j == U \div m
    <2>1. i \in Nat /\ j \in Nat /\ w <= code + i + 1 /\ w <= spec + j + 1
      BY <1>5, <1>6, <1>7
    <2>2. tolerance = j + i + 1
      OBVIOUS
    <2> HIDE DEF i, j, tolerance
    <2> QED BY <1>1, <1>5, <1>6, <2>1, <2>2, SMT DEF AtMostBelow
  <1> QED BY <1>1, <1>3, <1>4, <1>8 DEF m

LEMMA IssueAsTested ==
    ASSUME Inv, MinSupplyInv, NEW r \in Components, NEW q \in Nat, CanIssue(r, q)
    PROVE  LET new == SupplyAfterIssue(r, q)
               manager == ManagerRevenueShare("issue")
               protocol == TotalProtocolFee("issue")
           IN  /\ new - Supply = getExpectedSetTokenIssueQuantity(
                                     Valuation(r), Supply, BaseUnits[r], q,
                                     manager, protocol, settings.premium)
               /\ AtMostBelow(getExpectedIssuePositionMultiplier(
                                  storage.positionMultiplier, Supply, new),
                              NewPositionMultiplier(new), MultiplierTolerance)
               /\ UnitAsTested(new, r, Reserve(r) + NetFlow(q, "issue"),
                      getExpectedIssuePositionUnit(Unit(r), q, Supply, new,
                          NewPositionMultiplier(new), manager, protocol))
  <1> DEFINE net == NetFlow(q, "issue")
             new == SupplyAfterIssue(r, q)
             minted == _getSetTokenMintQuantity(r, net)
  <1>1. TypeOK /\ TypeInv /\ Collateralized
    BY DEF Inv, ClaimInv, TypeInv
  <1>2. Supply \in Nat \ {0} /\ new \in Nat
    <2>1. settings.minSetTokenSupply \in Nat /\ settings.minSetTokenSupply > 0
          /\ Supply >= settings.minSetTokenSupply
      BY <1>1, SettingsFields DEF MinSupplyInv, CanIssue, Enabled
    <2>2. Supply \in Nat
      BY <1>1, StorageFields DEF TypeOK, Supply
    <2> QED BY <1>1, <2>1, <2>2, SupplyAfterIssueType, SMT
  <1>3. minted \in Nat /\ new = Supply + minted
    BY <1>1, MintQuantityType DEF SupplyAfterIssue
  <1>4. new \in Nat \ {0} /\ Supply <= new /\ new - Supply = minted
    BY <1>2, <1>3, SMT
  <1>5. net \in Nat /\ Reserve(r) \in Nat
    BY <1>1, NetFlowType, ReserveBounds DEF CanIssue, Actions
  <1>6. UnitAsTested(new, r, Reserve(r) + net,
            getExpectedIssuePositionUnit(Unit(r), q, Supply, new, NewPositionMultiplier(new),
                ManagerRevenueShare("issue"), TotalProtocolFee("issue")))
    <2>1. Unit(r) \in Nat
      BY <1>1, UnitType
    <2>2. preciseMul(Supply, Unit(r)) = Reserve(r)
      BY <1>2, <2>1, SpecDivision DEF Reserve
    <2>3. getExpectedPostFeeQuantity(q, ManagerRevenueShare("issue"), TotalProtocolFee("issue")) = net
      BY <1>1, NetFlowAsTested DEF CanIssue, Actions
    <2>4. Reserve(r) + net \in Nat
      BY <1>5, SMT
    <2> HIDE DEF net, new
    <2>5. UnitAsTested(new, r, Reserve(r) + net,
              RoundDownPositionUnit(Reserve(r) + net, new, NewPositionMultiplier(new)))
      BY <1>1, <1>4, <2>4, UnitWithinTolerance
    <2> QED BY <2>2, <2>3, <2>5 DEF getExpectedIssuePositionUnit
  <1> QED BY <1>1, <1>4, <1>6, MintQuantityAsTested, MultiplierAsTested

LEMMA RedeemAsTested ==
    ASSUME Inv, MinSupplyInv, NEW r \in Components, NEW q \in Nat, CanRedeem(r, q),
           BaseUnits[r] = PRECISE_UNIT
    PROVE  LET new == Supply - q
               outflow == _getRedeemReserveQuantity(r, q)
           IN  /\ NetFlow(outflow, "redeem") = getExpectedReserveRedeemQuantity(
                       q, Valuation(r), BaseUnits[r], ManagerRevenueShare("redeem"),
                       TotalProtocolFee("redeem"), settings.premium)
               /\ AtMostBelow(getExpectedRedeemPositionMultiplier(
                                  storage.positionMultiplier, Supply, new),
                              NewPositionMultiplier(new), MultiplierTolerance)
               /\ UnitAsTested(new, r, Reserve(r) - outflow,
                      getExpectedRedeemPositionUnit(
                          Unit(r), PostPremiumValue(q, Valuation(r), settings.premium),
                          BaseUnits[r], Supply, new, NewPositionMultiplier(new)))
  <1> DEFINE out == _getRedeemReserveQuantity(r, q)
             new == Supply - q
             premium == settings.premium
             V == Valuation(r)
             value == PreciseMul(q, V)
  <1>1. TypeOK /\ TypeInv /\ Collateralized
    BY DEF Inv, ClaimInv, TypeInv
  <1>2. Supply \in Nat /\ new \in Nat \ {0} /\ new <= Supply
    <2>1. settings.minSetTokenSupply \in Nat /\ settings.minSetTokenSupply > 0
          /\ new >= settings.minSetTokenSupply
      BY <1>1, SettingsFields DEF MinSupplyInv, CanRedeem, Enabled
    <2>2. Supply \in Nat
      BY <1>1, StorageFields DEF TypeOK, Supply
    <2> QED BY <1>1, <2>1, <2>2, SMT
  <1>3. out \in Nat /\ Reserve(r) \in Nat /\ out <= Reserve(r)
    BY <1>1, OutflowType, ReserveBounds DEF CanRedeem
  <1>4. V \in Nat /\ premium \in Nat
    BY <1>1, SettingsFields, PreciseUnitAssumption, SMT DEF CanRedeem, CanValue, Percentage
  <1>5. value \in Nat /\ value = preciseMul(V, q)
    BY <1>4, PreciseMulBounds, SpecDivision
  <1>6. \A x \in Nat : PreciseMul(x, PRECISE_UNIT) = x
    <2> TAKE x \in Nat
    <2>1. /\ x * PRECISE_UNIT \in Int
          /\ PRECISE_UNIT * x <= x * PRECISE_UNIT
          /\ x * PRECISE_UNIT < PRECISE_UNIT * x + PRECISE_UNIT
      BY PreciseUnitAssumption, SMT
    <2> QED BY <2>1, DivUnique, PreciseUnitAssumption DEF PreciseMul
  <1>7. out = PostPremiumValue(q, V, premium)
    <2>1. out = PreciseMul(value, PRECISE_UNIT)
                    - PreciseMulCeil(PreciseMul(value, PRECISE_UNIT), premium)
      BY DEF _getRedeemReserveQuantity, RedeemReserve, Valuation
    <2> HIDE DEF value
    <2>2. preciseMulCeil(value, premium) = PreciseMulCeil(value, premium)
      BY <1>4, <1>5, SpecDivision
    <2> QED BY <1>5, <1>6, <2>1, <2>2 DEF PostPremiumValue
  <1>8. NetFlow(out, "redeem") = getExpectedReserveRedeemQuantity(
            q, V, BaseUnits[r], ManagerRevenueShare("redeem"), TotalProtocolFee("redeem"), premium)
    <2>1. NetFlow(out, "redeem") \in Nat
      BY <1>1, <1>3, NetFlowType DEF CanRedeem, Actions
    <2>2. getExpectedPostFeeQuantity(out, ManagerRevenueShare("redeem"), TotalProtocolFee("redeem"))
              = NetFlow(out, "redeem")
      BY <1>1, <1>3, NetFlowAsTested DEF CanRedeem, Actions
    <2>3. preciseMul(NetFlow(out, "redeem"), PRECISE_UNIT) = NetFlow(out, "redeem")
      BY <1>6, <2>1, SpecDivision, PreciseUnitAssumption
    <2> QED BY <1>7, <2>2, <2>3 DEF getExpectedReserveRedeemQuantity
  <1>9. UnitAsTested(new, r, Reserve(r) - out,
            getExpectedRedeemPositionUnit(Unit(r), PostPremiumValue(q, V, premium),
                BaseUnits[r], Supply, new, NewPositionMultiplier(new)))
    <2>1. Unit(r) \in Nat
      BY <1>1, UnitType
    <2>2. preciseMul(Supply, Unit(r)) = Reserve(r)
      BY <1>2, <2>1, SpecDivision DEF Reserve
    <2>3. preciseMul(PostPremiumValue(q, V, premium), BaseUnits[r]) = out
      BY <1>3, <1>6, <1>7, SpecDivision, PreciseUnitAssumption
    <2>4. Reserve(r) - out \in Nat
      BY <1>3, SMT
    <2> HIDE DEF out, new, V, premium
    <2>5. UnitAsTested(new, r, Reserve(r) - out,
              RoundDownPositionUnit(Reserve(r) - out, new, NewPositionMultiplier(new)))
      BY <1>1, <1>2, <2>4, UnitWithinTolerance
    <2> QED BY <2>2, <2>3, <2>5 DEF getExpectedRedeemPositionUnit
  <1>10. AtMostBelow(getExpectedRedeemPositionMultiplier(storage.positionMultiplier, Supply, new),
                     NewPositionMultiplier(new), MultiplierTolerance)
    BY <1>1, <1>2, MultiplierAsTested
  <1> QED BY <1>8, <1>9, <1>10

\* What navIssuanceModuleUtils.ts expects of an issuance holds of every issuance
\* the contract lets through: the quantity to the wei, the multiplier and the
\* reserve's unit within the tolerances, at every scale, price, fee and premium.
THEOREM IssuesAsTheSpecsExpect == Spec => []IssuesAsTested
  <1>1. Inv /\ MinSupplyInv => IssuesAsTested
    BY IssueAsTested, NAVAssumption DEF IssuesAsTested
  <1> QED BY <1>1, Invariance, MinSupplyInvariance, PTL

\* The same of every redemption in an asset of 18 decimals.
THEOREM RedeemsAsTheSpecsExpect == Spec => []RedeemsAsTested
  <1>1. Inv /\ MinSupplyInv => RedeemsAsTested
    BY RedeemAsTested, NAVAssumption DEF RedeemsAsTested
  <1> QED BY <1>1, Invariance, MinSupplyInvariance, PTL

-----------------------------------------------------------------------------
(* What the getters announce *)

\* The valuation sums natural values over the components array, whatever is in
\* it: the conversion to uint256 at its end never reverts.
LEMMA ValuationNat ==
    ASSUME TypeInv, NEW r \in Components
    PROVE  Valuation(r) \in Nat
  <1> DEFINE L == Len(storage.components)
             value(n) == ComponentValue(storage, storage.components[n])
             sum[n \in 0 .. L] == IF n = 0 THEN 0 ELSE sum[n - 1] + value(n)
             Sums(f, k) == /\ f \in [0 .. k -> Nat] /\ f[0] = 0
                           /\ \A n \in 1 .. k : f[n] = f[n - 1] + value(n)
  <1>1. L \in Nat /\ \A n \in 1 .. L : storage.components[n] \in Components
    BY StorageFields DEF TypeInv, TypeOK
  <1>2. \A n \in 1 .. L : value(n) \in Nat
    <2> TAKE n \in 1 .. L
    <2> DEFINE c == storage.components[n]
    <2>1. c \in Components /\ BaseUnits[c] \in Nat \ {0} /\ price[c] \in Nat \ {0}
      BY <1>1, NAVAssumption DEF TypeInv, TypeOK
    <2>2. DefaultPositionRealUnit(storage, c) \in Nat
      BY <2>1, UnitType DEF Unit
    <2> HIDE DEF c
    <2>3. PreciseDiv(DefaultPositionRealUnit(storage, c), BaseUnits[c]) \in Nat
      BY <2>1, <2>2, PreciseDivBounds
    <2> QED BY <2>1, <2>3, PreciseMulBounds DEF ComponentValue, c
  <1> HIDE DEF value, L
  <1>3. \E f : Sums(f, L)
    <2> DEFINE Reached == {k \in Nat : k <= L => \E f : Sums(f, k)}
    <2>1. 0 \in Reached
      <3>1. [n \in 0 .. 0 |-> 0] \in [0 .. 0 -> Nat] /\ 0 \in 0 .. 0 /\ 1 .. 0 = {}
        BY SMT
      <3>2. Sums([n \in 0 .. 0 |-> 0], 0)
        BY <3>1
      <3> HIDE DEF Sums
      <3> QED BY <3>2
    <2>2. ASSUME NEW k \in Nat, k \in Reached PROVE k + 1 \in Reached
      <3>1. k + 1 \in Nat
        BY SMT
      <3>2. ASSUME k + 1 <= L PROVE \E f : Sums(f, k + 1)
        <4>1. k <= L /\ k + 1 \in 1 .. L
          BY <1>1, <3>2, SMT
        <4>2. PICK f : Sums(f, k)
          BY <2>2, <4>1
        <4> DEFINE g == [n \in 0 .. k + 1 |-> IF n <= k THEN f[n] ELSE f[k] + value(k + 1)]
        <4>3. f[k] + value(k + 1) \in Nat
          BY <1>2, <4>1, <4>2, SMT
        <4>4. g \in [0 .. k + 1 -> Nat] /\ g[0] = 0
          BY <4>2, <4>3, SMT
        <4>5. \A n \in 1 .. k + 1 : g[n] = g[n - 1] + value(n)
          <5> TAKE n \in 1 .. k + 1
          <5>1. CASE n <= k
            BY <4>2, <5>1, SMT
          <5>2. CASE n = k + 1
            BY <4>2, <5>2, SMT
          <5> QED BY <5>1, <5>2, SMT
        <4>6. Sums(g, k + 1)
          BY <4>4, <4>5
        <4> HIDE DEF g, Sums
        <4> QED BY <4>6
      <3> QED BY <3>1, <3>2
    <2> HIDE DEF Reached
    <2>3. L \in Reached
      BY <1>1, <2>1, <2>2, SetInduction
    <2> HIDE DEF Sums
    <2> QED BY <1>1, <2>3, SMT DEF Reached
  <1>4. \E f : f = [n \in 0 .. L |-> IF n = 0 THEN 0 ELSE f[n - 1] + value(n)]
    <2>1. PICK f : Sums(f, L)
      BY <1>3
    <2>2. \A n \in 0 .. L : f[n] = IF n = 0 THEN 0 ELSE f[n - 1] + value(n)
      BY <1>1, <2>1, SMT
    <2>3. f = [n \in 0 .. L |-> f[n]]
      BY <2>1
    <2>4. f = [n \in 0 .. L |-> IF n = 0 THEN 0 ELSE f[n - 1] + value(n)]
      BY <2>2, <2>3
    <2> QED BY <2>4
  <1>5. sum = [n \in 0 .. L |-> IF n = 0 THEN 0 ELSE sum[n - 1] + value(n)]
    BY <1>4
  <1> HIDE DEF sum
  <1>6. sum[L] \in Nat
    <2> DEFINE Natural == {n \in Nat : n <= L => sum[n] \in Nat}
    <2>1. 0 \in Natural
      BY <1>1, <1>5, SMT
    <2>2. ASSUME NEW n \in Nat, n \in Natural PROVE n + 1 \in Natural
      <3>1. n + 1 \in Nat /\ (n + 1) - 1 = n /\ n + 1 # 0
        BY SMT
      <3>2. ASSUME n + 1 <= L PROVE sum[n + 1] \in Nat
        <4>1. n + 1 \in 0 .. L /\ n + 1 \in 1 .. L /\ n <= L
          BY <1>1, <3>2, SMT
        <4>2. sum[n + 1] = sum[n] + value(n + 1)
          BY <1>5, <3>1, <4>1
        <4>3. sum[n] \in Nat /\ value(n + 1) \in Nat
          BY <1>2, <2>2, <4>1
        <4> QED BY <4>2, <4>3, SMT
      <3> QED BY <3>1, <3>2
    <2> HIDE DEF Natural
    <2>3. L \in Natural
      BY <1>1, <2>1, <2>2, SetInduction
    <2> QED BY <1>1, <2>3, SMT DEF Natural
  <1>7. price[r] \in Nat \ {0}
    BY NAVAssumption DEF TypeInv, TypeOK
  <1>8. PreciseDiv(sum[L], price[r]) \in Nat
    BY <1>6, <1>7, PreciseDivBounds
  <1> QED BY <1>8 DEF Valuation, ValuationOf, sum, L, value

\* A fraction below one, rounded up, is never more than the whole.
LEMMA PremiumBelowWhole ==
    ASSUME NEW x \in Nat, NEW p \in Nat, p < PRECISE_UNIT
    PROVE  PreciseMulCeil(x, p) \in Nat /\ PreciseMulCeil(x, p) <= x
  <1> DEFINE k == PreciseMulCeil(x, p)
             U == PRECISE_UNIT
  <1>1. U \in Nat \ {0}
    BY PreciseUnitAssumption
  <1>2. k \in Nat /\ U * k < x * p + U
    BY PreciseMulCeilBounds
  <1> HIDE DEF k, U
  <1>3. x * p <= U * x
    <2>1. x * p <= x * U
      BY <1>1, ProductMonotone, SMT DEF U
    <2> QED BY <1>1, <2>1, SMT
  <1>4. U * (x + 1) = U * x + U /\ x * p \in Int /\ U * x \in Int /\ U * k \in Int
    BY <1>1, <1>2, SMT
  <1>5. U * k < U * (x + 1)
    BY <1>1, <1>2, <1>3, <1>4, SMT
  <1>6. k < x + 1
    <2>1. x + 1 \in Int /\ k \in Int
      BY <1>2, SMT
    <2> QED BY <1>1, <1>5, <2>1, CancelStrict
  <1> QED BY <1>2, <1>6, SMT DEF k

\* What leaves the SetToken, fees and premium included, before any check.
LEMMA OutflowNat ==
    ASSUME TypeInv, NEW r \in Components, NEW q \in Nat
    PROVE  _getRedeemReserveQuantity(r, q) \in Nat
  <1> DEFINE reserve == PreciseMul(PreciseMul(q, ValuationOf(storage, r)), BaseUnits[r])
             k == PreciseMulCeil(reserve, settings.premium)
  <1>1. ValuationOf(storage, r) \in Nat
    BY ValuationNat DEF Valuation
  <1>2. BaseUnits[r] \in Nat /\ settings.premium \in Nat /\ settings.premium < PRECISE_UNIT
    <2>1. settings.premium \in Percentage
      BY SettingsFields DEF TypeInv
    <2> QED BY <2>1, NAVAssumption, PreciseUnitAssumption, SMT DEF Percentage
  <1>3. reserve \in Nat
    BY <1>1, <1>2, PreciseMulBounds
  <1>4. k \in Nat /\ k <= reserve
    BY <1>2, <1>3, PremiumBelowWhole
  <1>5. _getRedeemReserveQuantity(r, q) = reserve - k
    BY DEF _getRedeemReserveQuantity, RedeemReserve
  <1> HIDE DEF reserve, k
  <1> QED BY <1>3, <1>4, <1>5, SMT

LEMMA RedemptionAnnounced ==
    ASSUME Inv, NEW r \in Components, NEW q \in Nat, CanRedeem(r, q)
    PROVE  isRedeemValid(r, q)
  <1> DEFINE out == _getRedeemReserveQuantity(r, q)
             fees == _getFees(out, "redeem")
  <1>1. TypeInv /\ TypeOK
    BY DEF Inv, ClaimInv, TypeInv
  <1>2. out \in Nat /\ Reserve(r) >= out /\ CanGetFees(out, "redeem") /\ Reserve(r) \in Nat
    BY <1>1, OutflowNat, ReserveBounds DEF CanRedeem, Inv, ClaimInv
  <1> HIDE DEF out
  <1>3. fees.protocol \in Nat /\ fees.manager \in Nat
    BY <1>1, <1>2, FeePercentages, PreciseMulBounds DEF CanGetFees, _getFees, Actions
  <1>4. Reserve(r) >= NetFlow(out, "redeem")
    BY <1>2, <1>3, SMT DEF NetFlow
  <1>5. Supply >= settings.minSetTokenSupply + q
    <2>1. Supply \in Nat /\ settings.minSetTokenSupply \in Nat
      BY <1>1, StorageFields, SettingsFields DEF TypeOK, Supply
    <2> QED BY <2>1, SMT DEF CanRedeem
  <1>6. q # 0 /\ isReserveAsset[r]
    BY SMT DEF CanRedeem, Enabled
  <1> QED BY <1>4, <1>5, <1>6 DEF isRedeemValid, out

LEMMA AnnouncedRedemption ==
    ASSUME Inv, NEW r \in Components, NEW q \in Nat, isRedeemValid(r, q), RedeemsFreeOfFees
    PROVE  CanRedeem(r, q)
  <1> DEFINE out == _getRedeemReserveQuantity(r, q)
  <1>1. TypeInv /\ TypeOK /\ Collateralized /\ SettingsInv
    BY DEF Inv, ClaimInv, TypeInv
  <1>2. Valuation(r) \in Nat /\ out \in Nat
    BY <1>1, ValuationNat, OutflowNat
  <1>3. Enabled(r, q)
    <2>1. q > 0
      BY SMT DEF isRedeemValid
    <2> QED BY <1>1, <2>1, NothingFlagged DEF isRedeemValid, Enabled
  <1> HIDE DEF out
  <1>4. \A x \in Nat : PreciseMul(x, 0) = 0 /\ PreciseMul(0, x) = 0
    <2> TAKE x \in Nat
    <2>1. x * 0 = 0 /\ 0 * x = 0
      BY SMT
    <2>2. 0 \div PRECISE_UNIT = 0
      BY PreciseUnitAssumption, SMT
    <2> QED BY <2>1, <2>2 DEF PreciseMul
  <1>5. ManagerRevenueShare("redeem") = 0 /\ TotalProtocolFee("redeem") = 0
            /\ ProtocolRevenueShare("redeem") = 0
    <2>1. moduleFee["redeem"].share \in Nat
      BY <1>1, NAVAssumption DEF TypeOK
    <2>2. ProtocolRevenueShare("redeem") = 0
      BY <1>4, <2>1 DEF ProtocolRevenueShare, RedeemsFreeOfFees
    <2> QED BY <2>2, SMT DEF ManagerRevenueShare, TotalProtocolFee, RedeemsFreeOfFees
  <1>6. NetFlow(out, "redeem") = out
    BY <1>2, <1>4, <1>5, SMT DEF NetFlow, _getFees
  <1>7. CanGetFees(out, "redeem")
    BY <1>2, <1>5, <1>6, SMT DEF CanGetFees, RedeemsFreeOfFees
  <1>8. Reserve(r) >= out /\ balance[r] >= out
    <2>1. Reserve(r) >= out
      BY <1>6 DEF isRedeemValid, out
    <2>2. Reserve(r) \in Nat /\ Reserve(r) <= balance[r] /\ balance[r] \in Nat
      BY <1>1, ReserveBounds DEF TypeOK
    <2> QED BY <1>2, <2>1, <2>2, SMT
  <1>9. Supply - q >= settings.minSetTokenSupply
    <2>1. Supply \in Nat /\ settings.minSetTokenSupply \in Nat
      BY <1>1, StorageFields, SettingsFields DEF TypeOK, Supply
    <2> QED BY <2>1, SMT DEF isRedeemValid
  <1>10. out >= 0
    BY <1>2, SMT
  <1> QED BY <1>2, <1>3, <1>7, <1>8, <1>9, <1>10 DEF CanRedeem, CanValue, out

\* Whatever goes through is announced, and without fees whatever is announced
\* goes through: the valuation, the premium and the tokens are always there.
THEOREM GettersTellTheTruth == Spec => []AnnouncedAsValid
  <1>1. ASSUME NEW r \in Components, NEW q \in Nat, CanIssue(r, q) PROVE isIssueValid(r, q)
    BY <1>1, SMT DEF CanIssue, Enabled, isIssueValid
  <1>2. Inv => AnnouncedAsValid
    BY <1>1, RedemptionAnnounced, AnnouncedRedemption, NAVAssumption DEF AnnouncedAsValid
  <1> QED BY <1>2, Invariance, PTL
==============================================================================
