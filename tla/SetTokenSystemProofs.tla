-------------------------- MODULE SetTokenSystemProofs -----------------------
(***************************************************************************)
(* What a SetToken's units promise is covered, for every set of tokens,    *)
(* every scale and every sequence of transactions.                         *)
(*                                                                         *)
(* Without streaming fees the multiplier stays one, every unit is exact    *)
(* and every transaction rounds in favour of those who stay.  With them,   *)
(* and without exchanges, the virtual units stay and supply times          *)
(* multiplier never grows by an accrual; only issuance at a unit that was  *)
(* rounded down adds to the shortfall.                                     *)
(***************************************************************************)
EXTENDS ComponentManageModule, PositionProofs

LEMMA InitType == Init => TypeOK
  <1> SUFFICES ASSUME Init PROVE TypeOK
    OBVIOUS
  <1>1. InitialUnits \in [Components -> Int] /\ storage = InitialStorage(InitialComponents, InitialUnits)
    BY CreationAssumption DEF Init
  <1>2. storage \in Storage
    BY <1>1, InitialStorageType, CreationAssumption
  <1> QED BY <1>2, InputAssumption DEF Init, TypeOK, NoFeeState

\* The unit recomputed from a balance is a number, and promises to the whole
\* supply no more than the balance has gained on what was not promised before.
LEMMA RecomputedUnit ==
    ASSUME NEW supply \in Nat, NEW pre \in Nat, NEW post \in Nat, NEW unit \in Nat,
           CanCalculateDefaultEditPositionUnit(supply, pre, post, unit)
    PROVE  LET new == CalculateDefaultEditPositionUnit(supply, pre, post, unit) IN
           /\ new \in Nat
           /\ AirdroppedAmount(supply, pre, unit) \in Nat
           /\ supply * new <= (post - AirdroppedAmount(supply, pre, unit)) * PRECISE_UNIT
  <1> DEFINE air == AirdroppedAmount(supply, pre, unit)
             new == CalculateDefaultEditPositionUnit(supply, pre, post, unit)
  <1>1. PreciseMul(unit, supply) \in Nat
    BY PreciseMulBounds
  <1>2. air \in Int
    BY <1>1, SMT DEF AirdroppedAmount
  <1> HIDE DEF air
  <1>3. supply \in Nat \ {0} /\ air >= 0 /\ post >= air
    BY SMT DEF CanCalculateDefaultEditPositionUnit, air
  <1>4. air \in Nat /\ post - air \in Nat
    BY <1>2, <1>3, SMT
  <1>5. new = PreciseDiv(post - air, supply)
    BY DEF CalculateDefaultEditPositionUnit, air
  <1>6. new \in Nat /\ supply * new <= (post - air) * PRECISE_UNIT
    BY <1>3, <1>4, <1>5, PreciseDivBounds
  <1> QED BY <1>4, <1>6 DEF air

LEMMA RecomputedType ==
    ASSUME NEW st \in Storage, NEW c \in Components,
           NEW supply \in Nat, NEW pre \in Nat, NEW post \in Nat,
           CanCalculateAndEditDefaultPosition(st, c, supply, pre, post)
    PROVE  CalculateAndEditDefaultPosition(st, c, supply, pre, post) \in Storage
  <1> DEFINE unit == DefaultPositionRealUnit(st, c)
             new  == CalculateDefaultEditPositionUnit(supply, pre, post, unit)
  <1>1. unit \in Int
    BY StorageFields, ConversionType DEF DefaultPositionRealUnit
  <1>2. /\ unit >= 0 /\ CanCalculateDefaultEditPositionUnit(supply, pre, post, unit)
        /\ CanEditDefaultPosition(st, c, new)
    BY DEF CanCalculateAndEditDefaultPosition
  <1> HIDE DEF unit
  <1>3. unit \in Nat
    BY <1>1, <1>2, SMT
  <1>4. new \in Nat
    BY <1>2, <1>3, RecomputedUnit
  <1>5. EditDefaultPosition(st, c, new) \in Storage
    <2>1. new \in Int
      BY <1>4, SMT
    <2> HIDE DEF new
    <2> QED BY <1>2, <2>1, EditDefaultPositionType
  <1> QED BY <1>5 DEF CalculateAndEditDefaultPosition, unit

\* What the proofs need of an exchange: it recomputes two units, from balances that
\* stay natural numbers.
LEMMA ExchangeEditsUnits ==
    ASSUME TypeOK, Exchange
    PROVE  /\ \E a, b \in Components, post \in [Components -> Nat] :
                /\ a # b /\ EditUnits(a, b, post)
                /\ \A e \in Components : e # a /\ e # b => post[e] = balance[e]
           /\ UNCHANGED <<feeVars, issued>>
           /\ Installed \cap {"Trade", "Wrap"} # {}
  <1>1. PICK c, d \in Components, units \in Units, spent, received \in 0 .. MaxBalance :
            \/ \E protocolFee \in ProtocolFees : Trade(c, d, units, spent, received, protocolFee)
            \/ Wrap(c, d, units, spent, received)
            \/ Unwrap(c, d, units, spent, received)
    BY DEF Exchange, WrapWithEther, UnwrapWithEther
  <1>2. spent \in Nat /\ received \in Nat
    BY InputAssumption, SMT
  <1>3. ASSUME NEW s \in Components, NEW r \in Components, s # r,
               NEW x \in Nat, NEW y \in Nat, x <= balance[s]
        PROVE  /\ Swapped(s, x, r, y) \in [Components -> Nat]
               /\ \A e \in Components : e # s /\ e # r => Swapped(s, x, r, y)[e] = balance[e]
    <2>1. balance[s] - x \in Nat /\ balance[r] + y \in Nat
      BY <1>3, SMT DEF TypeOK
    <2> QED BY <1>3, <2>1 DEF Swapped, TypeOK
  <1>4. CASE \E protocolFee \in ProtocolFees : Trade(c, d, units, spent, received, protocolFee)
    <2>1. PICK protocolFee \in ProtocolFees : Trade(c, d, units, spent, received, protocolFee)
      BY <1>4
    <2> DEFINE fee == PreciseMul(received, protocolFee)
    <2>2. fee \in Nat /\ fee <= received
      BY <1>2, <2>1, PreciseMulBounds, InputAssumption DEF Trade
    <2> HIDE DEF fee
    <2>3. received - fee \in Nat
      BY <1>2, <2>2, SMT
    <2> DEFINE post == Swapped(c, spent, d, received - fee)
    <2>4. /\ post \in [Components -> Nat]
          /\ \A e \in Components : e # c /\ e # d => post[e] = balance[e]
      BY <1>2, <1>3, <2>1, <2>3 DEF Trade
    <2>5. EditUnits(c, d, post) /\ c # d
      BY <2>1 DEF Trade, fee
    <2> HIDE DEF post
    <2> QED BY <2>1, <2>4, <2>5 DEF Trade
  <1>5. CASE Wrap(c, d, units, spent, received)
    <2> DEFINE post == Swapped(c, spent, d, received)
    <2>1. /\ post \in [Components -> Nat] /\ c # d
          /\ \A e \in Components : e # c /\ e # d => post[e] = balance[e]
      BY <1>2, <1>3, <1>5 DEF Wrap, CanWrap
    <2>2. EditUnits(c, d, post)
      BY <1>5 DEF Wrap
    <2> HIDE DEF post
    <2> QED BY <1>5, <2>1, <2>2 DEF Wrap, CanWrap
  <1>6. CASE Unwrap(c, d, units, spent, received)
    <2> DEFINE post == Swapped(d, spent, c, received)
    <2>1. /\ post \in [Components -> Nat] /\ c # d
          /\ \A e \in Components : e # c /\ e # d => post[e] = balance[e]
      BY <1>2, <1>3, <1>6 DEF Unwrap, CanWrap
    <2>2. EditUnits(c, d, post)
      BY <1>6 DEF Unwrap
    <2> HIDE DEF post
    <2> QED BY <1>6, <2>1, <2>2 DEF Unwrap, CanWrap
  <1> QED BY <1>1, <1>4, <1>5, <1>6

-----------------------------------------------------------------------------
(* Types: no transaction drives a balance or a unit below zero *)

UnitsNatural == \A c \in Components : storage.virtualUnit[c] \in Nat

TypeInv == TypeOK /\ UnitsNatural

LEMMA InitTypeInv == Init => TypeInv
  <1> SUFFICES ASSUME Init PROVE UnitsNatural
    BY InitType DEF TypeInv
  <1>1. storage.virtualUnit = InitialUnits
    BY DEF Init, InitialStorage
  <1> QED BY <1>1, CreationAssumption DEF UnitsNatural

LEMMA TimesType ==
    ASSUME TypeOK, NEW c
    PROVE  Times(c) \in Nat
  <1> DEFINE A == storage.components
             T == {i \in DOMAIN A : A[i] = c}
  <1>1. A \in Seq(Components) /\ Len(A) \in Nat /\ DOMAIN A = 1 .. Len(A)
    BY StorageFields, LenProperties DEF TypeOK
  <1>2. IsFiniteSet(1 .. Len(A))
    BY <1>1, FS_Interval
  <1>3. IsFiniteSet(T)
    BY <1>1, <1>2, FS_Subset
  <1> QED BY <1>3, FS_CardinalityType DEF Times, Occurrences

LEMMA RealUnitType ==
    ASSUME TypeInv, NEW c \in Components
    PROVE  /\ DefaultPositionRealUnit(storage, c) \in Nat
           /\ PRECISE_UNIT * DefaultPositionRealUnit(storage, c)
                <= storage.virtualUnit[c] * storage.positionMultiplier
  <1>1. storage.virtualUnit[c] \in Nat /\ storage.positionMultiplier \in Nat
    BY StorageFields DEF TypeInv, TypeOK, UnitsNatural
  <1> QED BY <1>1, ConservativeMulBounds
          DEF DefaultPositionRealUnit, ConvertVirtualToRealUnit

LEMMA MintBurnKeep ==
    ASSUME NEW st \in Storage, NEW q
    PROVE  /\ Mint(st, q).virtualUnit = st.virtualUnit /\ Burn(st, q).virtualUnit = st.virtualUnit
           /\ Mint(st, q).components = st.components /\ Burn(st, q).components = st.components
           /\ Mint(st, q).positionMultiplier = st.positionMultiplier
           /\ Burn(st, q).positionMultiplier = st.positionMultiplier
           /\ Mint(st, q).externalPositionModules = st.externalPositionModules
           /\ Burn(st, q).externalPositionModules = st.externalPositionModules
           /\ Mint(st, q).totalSupply = st.totalSupply + q
           /\ Burn(st, q).totalSupply = st.totalSupply - q
  BY DEF Mint, Burn, Storage

LEMMA IssueType ==
    ASSUME TypeInv, NEW q \in Quantities, Issue(q)
    PROVE  TypeInv'
  <1>1. q \in Nat
    BY InputAssumption
  <1>2. storage \in Storage /\ storage' = Mint(storage, q) /\ storage' \in Storage
    BY <1>1, SupplyType DEF TypeInv, TypeOK, Issue
  <1>3. ASSUME NEW c \in Components
        PROVE  balance[c] + Times(c) * RequiredForIssue(c, q) \in Nat
    <2>1. RequiredForIssue(c, q) \in Nat
      BY <1>1, RealUnitType, PreciseMulCeilBounds DEF RequiredForIssue
    <2>2. Times(c) \in Nat /\ balance[c] \in Nat
      BY TimesType DEF TypeInv, TypeOK
    <2> QED BY <2>1, <2>2, SMT
  <1>4. balance' \in [Components -> Nat]
    BY <1>3 DEF Issue
  <1>5. UnitsNatural'
    BY <1>2, MintBurnKeep DEF TypeInv, UnitsNatural
  <1>6. issued' \in Nat
    BY <1>1, SMT DEF TypeInv, TypeOK, Issue
  <1> QED BY <1>2, <1>4, <1>5, <1>6 DEF TypeInv, TypeOK, Issue, feeVars

LEMMA RedeemType ==
    ASSUME TypeInv, NEW q \in Quantities, Redeem(q)
    PROVE  TypeInv'
  <1>1. q \in Nat
    BY InputAssumption
  <1>2. storage \in Storage /\ storage' = Burn(storage, q) /\ storage' \in Storage
    BY <1>1, SupplyType DEF TypeInv, TypeOK, Redeem
  <1>3. ASSUME NEW c \in Components
        PROVE  balance[c] - Times(c) * PaidOnRedeem(c, q) \in Nat
    <2>1. PaidOnRedeem(c, q) \in Nat
      BY <1>1, RealUnitType, PreciseMulBounds DEF PaidOnRedeem
    <2>2. Times(c) \in Nat /\ balance[c] \in Nat
      BY TimesType DEF TypeInv, TypeOK
    <2>3. Times(c) * PaidOnRedeem(c, q) <= balance[c]
      BY DEF Redeem
    <2> QED BY <2>1, <2>2, <2>3, SMT
  <1>4. balance' \in [Components -> Nat]
    BY <1>3 DEF Redeem
  <1>5. UnitsNatural'
    BY <1>2, MintBurnKeep DEF TypeInv, UnitsNatural
  <1> QED BY <1>2, <1>4, <1>5 DEF TypeInv, TypeOK, Redeem, feeVars

\* Scaled down by x of U, the multiplier loses at least what the inflated supply
\* gains: the exact claim of the whole supply does not grow.
LEMMA InflationCompensated ==
    ASSUME NEW U \in Nat \ {0}, NEW f \in Nat, f < U,
           NEW supply \in Nat, NEW multiplier \in Nat
    PROVE  LET inflation == (f * supply) \div (U - f)
               scaled    == (multiplier * (U - f)) \div U
           IN  /\ inflation \in Nat /\ scaled \in Nat
               /\ (supply + inflation) * scaled <= supply * multiplier
  <1> DEFINE x == U - f
             i == (f * supply) \div x
             s == (multiplier * x) \div U
  <1>1. x \in Nat \ {0} /\ f + x = U
    BY SMT
  <1>2. f * supply \in Nat /\ multiplier * x \in Nat
    BY <1>1, SMT
  <1> HIDE DEF x
  <1>3. i \in Nat /\ x * i <= f * supply
    BY <1>1, <1>2, DivBounds, DivNat
  <1>4. s \in Nat /\ U * s <= multiplier * x
    BY <1>2, DivBounds, DivNat
  <1> HIDE DEF i, s
  <1>5. x * (supply + i) <= U * supply
    <2>1. x * (supply + i) = x * supply + x * i
      BY <1>1, <1>3, SMT
    <2>2. U * supply = f * supply + x * supply
      BY <1>1, SMT
    <2>3. x * supply \in Int /\ x * i \in Int /\ f * supply \in Int
      BY <1>1, <1>3, SMT
    <2> QED BY <1>3, <2>1, <2>2, <2>3, SMT
  <1>6. (x * (supply + i)) * (U * s) <= (U * supply) * (multiplier * x)
    <2>1. /\ x * (supply + i) \in Nat /\ U * supply \in Nat
          /\ U * s \in Nat /\ multiplier * x \in Nat
      BY <1>1, <1>3, <1>4, SMT
    <2> QED BY <1>4, <1>5, <2>1, ProductBound
  <1>7. /\ (x * (supply + i)) * (U * s) = (x * U) * ((supply + i) * s)
        /\ (U * supply) * (multiplier * x) = (x * U) * (supply * multiplier)
    BY <1>1, <1>3, <1>4, SMT
  <1>8. x * U \in Nat \ {0} /\ (supply + i) * s \in Int /\ supply * multiplier \in Int
    BY <1>1, <1>3, <1>4, SMT
  <1>9. (supply + i) * s <= supply * multiplier
    BY <1>6, <1>7, <1>8, CancelFactor
  <1> QED BY <1>3, <1>4, <1>9 DEF x, i, s

\* An accrual moves only the supply and the multiplier.
LEMMA AccrueFacts ==
    ASSUME TypeInv, DoAccrueFee
    PROVE  /\ storage' \in Storage
           /\ storage'.virtualUnit = storage.virtualUnit
           /\ storage'.components = storage.components
           /\ storage'.externalPositionModules = storage.externalPositionModules
           /\ storage'.totalSupply * storage'.positionMultiplier
                <= storage.totalSupply * storage.positionMultiplier
  <1> DEFINE fee == CalculateStreamingFee
  <1>1. fee \in Nat
    <2>1. elapsed * feeState.percentage \in Nat
      BY SMT DEF TypeInv, TypeOK
    <2> QED BY <2>1, DivNat, InputAssumption DEF CalculateStreamingFee
  <1>2. /\ storage \in Storage
        /\ storage.totalSupply \in Nat /\ storage.positionMultiplier \in Nat
    BY StorageFields DEF TypeInv, TypeOK
  <1>3. CASE ~(feeState.percentage > 0)
    <2>1. storage' = storage
      BY <1>3 DEF DoAccrueFee
    <2>2. storage.totalSupply * storage.positionMultiplier \in Int
      BY <1>2, SMT
    <2> QED BY <1>2, <2>1, <2>2, SMT
  <1>4. CASE feeState.percentage > 0
    <2>1. /\ fee < PRECISE_UNIT
          /\ CanEditPositionMultiplier(NewMultiplier(fee))
          /\ storage' = ChargeFee(fee)
      BY <1>4 DEF DoAccrueFee, CanChargeFee
    <2> HIDE DEF fee
    <2> DEFINE inflation == (fee * storage.totalSupply) \div (PRECISE_UNIT - fee)
               scaled    == (storage.positionMultiplier * (PRECISE_UNIT - fee)) \div PRECISE_UNIT
    <2>2. /\ inflation \in Nat /\ scaled \in Nat
          /\ (storage.totalSupply + inflation) * scaled
                <= storage.totalSupply * storage.positionMultiplier
      BY <1>1, <1>2, <2>1, PreciseUnitAssumption, InflationCompensated
    <2>3. StreamingFeeInflation(fee) = inflation
      BY DEF StreamingFeeInflation, Supply
    <2>4. NewMultiplier(fee) = scaled
      <3>1. storage.positionMultiplier * (PRECISE_UNIT - fee) >= 0
        BY <1>1, <1>2, <2>1, PreciseUnitAssumption, SMT
      <3> QED BY <3>1 DEF NewMultiplier, PreciseMulInt, TruncatedDiv
    <2> HIDE DEF inflation, scaled
    <2>5. Mint(storage, inflation) \in Storage
      BY <1>2, <2>2, SupplyType
    <2>6. storage' = EditPositionMultiplier(Mint(storage, inflation), scaled)
      BY <2>1, <2>3, <2>4 DEF ChargeFee
    <2>7. storage' \in Storage
      BY <2>1, <2>2, <2>4, <2>5, <2>6, EditPositionMultiplierType
    <2>8. /\ storage'.totalSupply = storage.totalSupply + inflation
          /\ storage'.positionMultiplier = scaled
          /\ storage'.virtualUnit = storage.virtualUnit
          /\ storage'.components = storage.components
          /\ storage'.externalPositionModules = storage.externalPositionModules
      BY <1>2, <2>6 DEF EditPositionMultiplier, Mint, Storage
    <2> QED BY <2>2, <2>7, <2>8
  <1> QED BY <1>3, <1>4

LEMMA FeesType ==
    ASSUME TypeInv, Fees
    PROVE  TypeInv'
  <1> USE InputAssumption DEF TypeInv, TypeOK, UnitsNatural
  <1>1. CASE AddFeeModule
    BY <1>1 DEF AddFeeModule
  <1>2. CASE RemoveFeeModule
    BY <1>2 DEF RemoveFeeModule, NoFeeState
  <1>3. CASE AccrueFee
    BY <1>3, AccrueFacts, SMT DEF AccrueFee, DoAccrueFee
  <1>4. ASSUME NEW p \in Percentages, UpdateStreamingFee(p)
        PROVE  TypeInv'
    BY <1>4, AccrueFacts, SMT DEF UpdateStreamingFee, DoAccrueFee
  <1>5. ASSUME NEW p \in Percentages, NEW max \in Percentages, InitializeFeeModule(max, p)
        PROVE  TypeInv'
    BY <1>5 DEF InitializeFeeModule
  <1> QED BY <1>1, <1>2, <1>3, <1>4, <1>5 DEF Fees

\* One unit recomputed keeps every unit a natural number.
LEMMA RecomputedUnits ==
    ASSUME NEW st \in Storage, \A d \in Components : st.virtualUnit[d] \in Nat,
           NEW c \in Components,
           NEW supply \in Nat, NEW pre \in Nat, NEW post \in Nat,
           CanCalculateAndEditDefaultPosition(st, c, supply, pre, post)
    PROVE  \A d \in Components :
                CalculateAndEditDefaultPosition(st, c, supply, pre, post).virtualUnit[d] \in Nat
  <1> DEFINE unit == DefaultPositionRealUnit(st, c)
             u    == CalculateDefaultEditPositionUnit(supply, pre, post, unit)
             new  == EditDefaultPosition(st, c, u)
  <1>1. st.positionMultiplier \in Nat \ {0} /\ st.virtualUnit \in [Components -> Int]
    BY StorageFields
  <1>2. unit \in Nat
    BY <1>1, ConservativeMulBounds DEF DefaultPositionRealUnit, ConvertVirtualToRealUnit
  <1>3. u \in Nat
    BY <1>2, RecomputedUnit DEF CanCalculateAndEditDefaultPosition
  <1> HIDE DEF u
  <1>4. ConvertRealToVirtualUnit(st, u) \in Nat
    BY <1>1, <1>3, ConservativeDivBounds DEF ConvertRealToVirtualUnit
  <1>5. u \in Int
    BY <1>3, SMT
  <1>6. new.virtualUnit = [st.virtualUnit EXCEPT ![c] = ConvertRealToVirtualUnit(st, u)]
    BY <1>5, EditedFields
  <1> HIDE DEF new
  <1>7. \A d \in Components : new.virtualUnit[d] \in Nat
    BY <1>1, <1>4, <1>6
  <1>8. CalculateAndEditDefaultPosition(st, c, supply, pre, post) = new
    BY DEF CalculateAndEditDefaultPosition, new, u
  <1> QED BY <1>7, <1>8

LEMMA ExchangeType ==
    ASSUME TypeInv, Exchange
    PROVE  TypeInv'
  <1>1. PICK a, b \in Components, post \in [Components -> Nat] : EditUnits(a, b, post)
    BY ExchangeEditsUnits DEF TypeInv
  <1> DEFINE edited == CalculateAndEditDefaultPosition(storage, a, Supply, balance[a], post[a])
             last   == CalculateAndEditDefaultPosition(edited, b, Supply, balance[b], post[b])
  <1>2. /\ Supply \in Nat /\ storage \in Storage
        /\ \A c \in Components : storage.virtualUnit[c] \in Nat
        /\ \A c \in Components : balance[c] \in Nat /\ post[c] \in Nat
    BY StorageFields DEF Supply, TypeInv, TypeOK, UnitsNatural
  <1>3. /\ CanCalculateAndEditDefaultPosition(storage, a, Supply, balance[a], post[a])
        /\ CanCalculateAndEditDefaultPosition(edited, b, Supply, balance[b], post[b])
        /\ storage' = last /\ balance' = post
    BY <1>1 DEF EditUnits
  <1>4. edited \in Storage /\ \A d \in Components : edited.virtualUnit[d] \in Nat
    BY <1>2, <1>3, RecomputedType, RecomputedUnits
  <1> HIDE DEF edited
  <1>5. last \in Storage /\ \A d \in Components : last.virtualUnit[d] \in Nat
    BY <1>2, <1>3, <1>4, RecomputedType, RecomputedUnits
  <1> HIDE DEF last
  <1>6. UNCHANGED <<feeVars, issued>>
    BY ExchangeEditsUnits DEF TypeInv
  <1> QED BY <1>3, <1>5, <1>6 DEF TypeInv, TypeOK, UnitsNatural, feeVars

LEMMA EnvironmentType ==
    ASSUME TypeInv, Tick \/ \E c \in Components : Airdrop(c)
    PROVE  TypeInv'
  <1> USE DEF TypeInv, TypeOK, UnitsNatural
  <1>1. CASE Tick
    <2>1. elapsed' \in Nat /\ metered' \in Nat
      BY <1>1, SMT DEF Tick
    <2> QED BY <1>1, <2>1 DEF Tick
  <1>2. ASSUME NEW c \in Components, Airdrop(c)
        PROVE  TypeInv'
    <2>1. balance[c] + 1 \in Nat
      BY SMT
    <2> QED BY <1>2, <2>1 DEF Airdrop, feeVars
  <1> QED BY <1>1, <1>2

LEMMA NextTypeInv == TypeInv /\ [Next]_vars => TypeInv'
  <1> SUFFICES ASSUME TypeInv, [Next]_vars PROVE TypeInv'
    OBVIOUS
  <1>1. CASE Issuance
    BY <1>1, IssueType, RedeemType DEF Issuance
  <1>2. CASE Fees
    BY <1>2, FeesType
  <1>3. CASE Exchange
    BY <1>3, ExchangeType
  <1>4. CASE Tick \/ \E c \in Components : Airdrop(c)
    BY <1>4, EnvironmentType
  <1>5. CASE UNCHANGED vars
    BY <1>5 DEF TypeInv, TypeOK, UnitsNatural, vars
  <1> QED BY <1>1, <1>2, <1>3, <1>4, <1>5 DEF Next

LEMMA TypeInvariance == Spec => []TypeInv
  BY InitTypeInv, NextTypeInv, PTL DEF Spec

\* Types: no sequence of transactions takes a balance, the supply or the
\* multiplier below what it may be.
THEOREM TypeCorrect == Spec => []TypeOK
  <1>1. TypeInv => TypeOK
    BY DEF TypeInv
  <1> QED BY <1>1, TypeInvariance, PTL

-----------------------------------------------------------------------------
(* The streaming fee's clock *)

LEMMA NextCharged == TypeInv /\ ChargedAtRateInForce /\ [Next]_vars => ChargedAtRateInForce'
  <1> SUFFICES ASSUME TypeInv, ChargedAtRateInForce, [Next]_vars
               PROVE  ChargedAtRateInForce'
    OBVIOUS
  <1> USE InputAssumption DEF ChargedAtRateInForce
  <1>1. CASE Issuance
    BY <1>1 DEF Issuance, Issue, Redeem, feeVars
  <1>2. CASE Fees
    <2>1. CASE AddFeeModule
      BY <2>1 DEF AddFeeModule
    <2>2. CASE RemoveFeeModule
      BY <2>2, SMT DEF RemoveFeeModule, NoFeeState
    <2>3. CASE AccrueFee
      BY <2>3, SMT DEF AccrueFee, DoAccrueFee, TypeInv, TypeOK
    <2>4. ASSUME NEW p \in Percentages, UpdateStreamingFee(p)
          PROVE  ChargedAtRateInForce'
      BY <2>4, SMT DEF UpdateStreamingFee, DoAccrueFee, TypeInv, TypeOK
    <2>5. ASSUME NEW p \in Percentages, NEW max \in Percentages, InitializeFeeModule(max, p)
          PROVE  ChargedAtRateInForce'
      BY <2>5, SMT DEF InitializeFeeModule
    <2> QED BY <1>2, <2>1, <2>2, <2>3, <2>4, <2>5 DEF Fees
  <1>3. CASE Exchange
    BY <1>3, ExchangeEditsUnits DEF TypeInv, feeVars
  <1>4. CASE Tick
    BY <1>4, SMT DEF Tick, TypeInv, TypeOK
  <1>5. ASSUME NEW c \in Components, Airdrop(c)
        PROVE  ChargedAtRateInForce'
    BY <1>5 DEF Airdrop, feeVars
  <1>6. CASE UNCHANGED vars
    BY <1>6 DEF vars
  <1> QED BY <1>1, <1>2, <1>3, <1>4, <1>5, <1>6 DEF Next

\* Every second is charged at the rate that was in force then, for any schedule
\* of accruals, rate changes, removals and initializations.
THEOREM AlwaysChargedAtRateInForce == Spec => []ChargedAtRateInForce
  <1>1. Init => ChargedAtRateInForce
    BY InputAssumption, SMT DEF Init, NoFeeState, ChargedAtRateInForce
  <1> QED BY <1>1, NextCharged, TypeInvariance, PTL DEF Spec

-----------------------------------------------------------------------------
(* The specs reduce each unit by the fee, the code reduces the multiplier *)

\* Both orders of rounding the product of a virtual unit, the multiplier and what
\* the fee leaves.
LEMMA AccrueArithmetic ==
    ASSUME NEW U \in Nat \ {0}, NEW v \in Nat, NEW m \in Nat, NEW x \in Nat, x <= U
    PROVE  LET code == (v * ((m * x) \div U)) \div U
               spec == (x * ((v * m) \div U)) \div U
           IN  /\ code \in Nat /\ spec \in Nat
               /\ code <= spec + 1 /\ spec <= code + v \div U + 1
  <1> DEFINE code == (v * ((m * x) \div U)) \div U
             spec == (x * ((v * m) \div U)) \div U
             k == v \div U
             exact == v * (m * x)
             UU == U * U
  <1>1. m * x \in Nat /\ v * m \in Nat /\ UU \in Nat \ {0} /\ exact \in Nat /\ x * (v * m) = exact
    BY SMT
  <1>2. code \in Nat /\ UU * code <= exact /\ exact < UU * (code + 1) + v * U
    BY <1>1, FloorOfFloor
  <1>3. spec \in Nat /\ UU * spec <= exact /\ exact < UU * (spec + 1) + x * U
    BY <1>1, FloorOfFloor
  <1>4. k \in Nat /\ v <= U * (k + 1)
    <2>1. k \in Nat /\ v < U * k + U
      BY DivBounds, DivNat
    <2> HIDE DEF k
    <2> QED BY <2>1, SMT
  <1> HIDE DEF code, spec, k, exact
  <1>5. x * U <= UU
    BY SMT
  <1>6. v * U <= UU * (k + 1)
    <2>1. U * v <= U * (U * (k + 1))
      BY <1>4, ProductMonotone, SMT
    <2>2. U * v = v * U /\ U * (U * (k + 1)) = UU * (k + 1)
      BY <1>4, SMT
    <2> QED BY <2>1, <2>2
  <1>7. UU * code < UU * (spec + 2)
    <2>1. UU * (spec + 2) = UU * (spec + 1) + UU
      BY <1>1, <1>3, SMT
    <2>2. UU * code \in Int /\ UU * (spec + 1) \in Int /\ x * U \in Int
      BY <1>1, <1>2, <1>3, SMT
    <2> HIDE DEF UU
    <2> QED BY <1>1, <1>2, <1>3, <1>5, <2>1, <2>2, SMT
  <1>8. UU * spec < UU * (code + k + 2)
    <2>1. UU * (code + k + 2) = UU * (code + 1) + UU * (k + 1)
      BY <1>1, <1>2, <1>4, SMT
    <2>2. UU * spec \in Int /\ UU * (code + 1) \in Int /\ v * U \in Int /\ UU * (k + 1) \in Int
      BY <1>1, <1>2, <1>3, <1>4, SMT
    <2> HIDE DEF UU
    <2> QED BY <1>1, <1>2, <1>3, <1>6, <2>1, <2>2, SMT
  <1> HIDE DEF UU
  <1>9. code < spec + 2 /\ spec < code + k + 2
    <2>1. spec + 2 \in Int /\ code + k + 2 \in Int /\ code \in Int /\ spec \in Int
      BY <1>2, <1>3, <1>4, SMT
    <2> QED BY <1>1, <1>7, <1>8, <2>1, CancelStrict
  <1> QED BY <1>2, <1>3, <1>4, <1>9, SMT DEF code, spec, k

LEMMA TypeInvAccrues == TypeInv => AccruesAsTested
  <1> DEFINE fee == CalculateStreamingFee
             x == PRECISE_UNIT - fee
             scaled == NewMultiplier(fee)
             st == ChargeFee(fee)
             m == storage.positionMultiplier
  <1> SUFFICES ASSUME TypeInv, CanChargeFee(CalculateStreamingFee, 0)
               PROVE  /\ st.totalSupply = Supply + getStreamingFeeInflationAmount(fee, Supply)
                      /\ \A c \in Components :
                            LET unit     == DefaultPositionRealUnit(st, c)
                                expected == getPostFeePositionUnits(DefaultPositionRealUnit(storage, c), fee)
                            IN  /\ unit <= expected + 1
                                /\ expected <= unit + storage.virtualUnit[c] \div PRECISE_UNIT + 1
    BY DEF AccruesAsTested, getStreamingFee, CalculateStreamingFee
  <1>1. fee \in Nat
    <2>1. elapsed * feeState.percentage \in Nat
      BY SMT DEF TypeInv, TypeOK
    <2> QED BY <2>1, DivNat, InputAssumption DEF CalculateStreamingFee
  <1>2. fee < PRECISE_UNIT /\ CanEditPositionMultiplier(scaled)
    BY DEF CanChargeFee
  <1> HIDE DEF fee
  <1>3. x \in Nat \ {0} /\ x <= PRECISE_UNIT
    BY <1>1, <1>2, PreciseUnitAssumption, SMT
  <1>4. storage \in Storage /\ m \in Nat /\ storage.totalSupply \in Nat
    BY StorageFields DEF TypeInv, TypeOK
  <1>5. scaled = (m * x) \div PRECISE_UNIT /\ scaled \in Nat
    <2>1. m * x \in Nat
      BY <1>3, <1>4, SMT
    <2>2. m * x >= 0
      BY <2>1, SMT
    <2>3. scaled = (m * x) \div PRECISE_UNIT
      BY <2>2 DEF NewMultiplier, PreciseMulInt, TruncatedDiv
    <2> QED BY <2>1, <2>3, DivNat, PreciseUnitAssumption
  <1>6. /\ st.totalSupply = storage.totalSupply + StreamingFeeInflation(fee)
        /\ st.positionMultiplier = scaled /\ st.virtualUnit = storage.virtualUnit
    BY <1>4 DEF ChargeFee, EditPositionMultiplier, Mint, Storage
  <1>7. st.totalSupply = Supply + getStreamingFeeInflationAmount(fee, Supply)
    BY <1>6 DEF StreamingFeeInflation, getStreamingFeeInflationAmount, Supply
  <1> HIDE DEF st, scaled, x
  <1>8. ASSUME NEW c \in Components
        PROVE  LET unit     == DefaultPositionRealUnit(st, c)
                   expected == getPostFeePositionUnits(DefaultPositionRealUnit(storage, c), fee)
               IN  /\ unit <= expected + 1
                   /\ expected <= unit + storage.virtualUnit[c] \div PRECISE_UNIT + 1
    <2> DEFINE v == storage.virtualUnit[c]
               u == DefaultPositionRealUnit(storage, c)
    <2>1. v \in Nat
      BY DEF TypeInv, UnitsNatural
    <2>2. DefaultPositionRealUnit(st, c) = (v * ((m * x) \div PRECISE_UNIT)) \div PRECISE_UNIT
      <3>1. v * scaled \in Int
        BY <1>5, <2>1, SMT
      <3>2. DefaultPositionRealUnit(st, c) = DivDown(v * scaled, PRECISE_UNIT)
        BY <1>6 DEF DefaultPositionRealUnit, ConvertVirtualToRealUnit, ConservativePreciseMul
      <3> QED BY <1>5, <3>1, <3>2, DivDownIsFloor, PreciseUnitAssumption
    <2>3. u = (v * m) \div PRECISE_UNIT /\ u \in Nat
      <3>1. v * m \in Nat
        BY <1>4, <2>1, SMT
      <3>2. u = DivDown(v * m, PRECISE_UNIT)
        BY DEF DefaultPositionRealUnit, ConvertVirtualToRealUnit, ConservativePreciseMul
      <3> QED BY <3>1, <3>2, DivDownIsFloor, DivNat, PreciseUnitAssumption
    <2> HIDE DEF u, v
    <2>4. getPostFeePositionUnits(u, fee) = (x * u) \div PRECISE_UNIT
      <3>1. u >= 0 /\ u * x >= 0 /\ u * x = x * u
        BY <1>3, <2>3, SMT
      <3>2. getPostFeePositionUnits(u, fee) = TruncatedDiv(u * x, PRECISE_UNIT)
        BY <3>1 DEF getPostFeePositionUnits, preciseMul, x
      <3> QED BY <3>1, <3>2 DEF TruncatedDiv
    <2>5. LET code == (v * ((m * x) \div PRECISE_UNIT)) \div PRECISE_UNIT
              spec == (x * ((v * m) \div PRECISE_UNIT)) \div PRECISE_UNIT
          IN  code <= spec + 1 /\ spec <= code + v \div PRECISE_UNIT + 1
      BY <1>3, <1>4, <2>1, AccrueArithmetic, PreciseUnitAssumption
    <2> QED BY <2>2, <2>3, <2>4, <2>5 DEF u, v
  <1> QED BY <1>7, <1>8

\* What feeModuleUtils.ts expects of an accrual holds of every accrual, for every
\* rate, time, supply and multiplier.
THEOREM AccruesAsTheSpecsExpect == Spec => []AccruesAsTested
  BY TypeInvAccrues, TypeInvariance, PTL

-----------------------------------------------------------------------------
(* Issuance and redemption *)

\* A component with a unit is listed, and listed once.
ListedOnce ==
    /\ ~HasDuplicate(storage.components)
    /\ \A c \in Components : storage.virtualUnit[c] > 0 => IsComponent(storage, c)

LEMMA ZeroFactor ==
    ASSUME NEW U \in Nat \ {0}, NEW k \in Nat, U * k <= 0
    PROVE  k = 0
  BY SMT

\* What is paid for a component, and paid out, is then its unit's share.
LEMMA PaidOnce ==
    ASSUME TypeInv, ListedOnce, NEW c \in Components, NEW q \in Nat
    PROVE  /\ Times(c) * RequiredForIssue(c, q) = RequiredForIssue(c, q)
           /\ Times(c) * PaidOnRedeem(c, q) = PaidOnRedeem(c, q)
           /\ RequiredForIssue(c, q) \in Nat
           /\ DefaultPositionRealUnit(storage, c) * q <= PRECISE_UNIT * RequiredForIssue(c, q)
           /\ PaidOnRedeem(c, q) \in Nat
           /\ PRECISE_UNIT * PaidOnRedeem(c, q) <= q * DefaultPositionRealUnit(storage, c)
  <1> DEFINE r == DefaultPositionRealUnit(storage, c)
  <1>1. r \in Nat /\ PRECISE_UNIT * r <= storage.virtualUnit[c] * storage.positionMultiplier
    BY RealUnitType
  <1> HIDE DEF r
  <1>2. /\ RequiredForIssue(c, q) \in Nat /\ r * q <= PRECISE_UNIT * RequiredForIssue(c, q)
        /\ PaidOnRedeem(c, q) \in Nat /\ PRECISE_UNIT * PaidOnRedeem(c, q) <= q * r
    BY <1>1, PreciseMulBounds, PreciseMulCeilBounds DEF RequiredForIssue, PaidOnRedeem, r
  <1>3. Times(c) = IF IsComponent(storage, c) THEN 1 ELSE 0
    BY StorageFields, OccurrencesUnique DEF TypeInv, TypeOK, ListedOnce, Times, IsComponent
  <1>4. CASE IsComponent(storage, c)
    BY <1>2, <1>3, <1>4, SMT DEF r
  <1>5. CASE ~IsComponent(storage, c)
    <2>1. storage.virtualUnit[c] = 0 /\ storage.positionMultiplier \in Nat
      BY <1>5, StorageFields, SMT DEF ListedOnce, TypeInv, TypeOK, UnitsNatural
    <2>2. PRECISE_UNIT * r <= 0
      BY <1>1, <2>1, SMT
    <2>3. r = 0
      BY <1>1, <2>2, PreciseUnitAssumption, ZeroFactor
    <2>4. RequiredForIssue(c, q) = 0
      BY <2>3 DEF RequiredForIssue, PreciseMulCeil, r
    <2>5. PRECISE_UNIT * PaidOnRedeem(c, q) <= 0
      BY <1>2, <2>3, SMT
    <2>6. PaidOnRedeem(c, q) = 0
      BY <1>2, <2>5, PreciseUnitAssumption, ZeroFactor
    <2> QED BY <1>2, <1>3, <1>5, <2>4, <2>6, SMT DEF r
  <1> QED BY <1>4, <1>5

\* The exact claim w of one SetToken in units of 1 / U^2 and the payment k for q.
LEMMA IssueArithmetic ==
    ASSUME NEW U \in Nat \ {0}, NEW w \in Nat, NEW r \in Nat, w < U * r + U,
           NEW supply \in Nat, NEW held \in Nat, NEW total \in Nat,
           NEW q \in Nat, NEW k \in Nat, r * q <= U * k,
           supply * w <= U * (held * U) + U * total
    PROVE  (supply + q) * w <= U * ((held + k) * U) + U * (total + q)
  <1>1. q * w <= q * (U * r + U)
    BY ProductBound, SMT
  <1>2. q * (U * r + U) = U * (r * q) + U * q
    BY SMT
  <1>3. U * (r * q) <= U * (U * k)
    <2>1. r * q \in Nat /\ U * k \in Nat
      BY SMT
    <2> QED BY <2>1, ProductBound, SMT
  <1>4. (supply + q) * w = supply * w + q * w
    BY SMT
  <1>5. U * ((held + k) * U) + U * (total + q) =
            U * (held * U) + U * (U * k) + U * total + U * q
    BY SMT
  <1>6. /\ supply * w \in Int /\ q * w \in Int /\ U * (held * U) \in Int
        /\ U * (U * k) \in Int /\ U * total \in Int /\ U * q \in Int /\ U * (r * q) \in Int
    BY SMT
  <1> QED BY <1>1, <1>2, <1>3, <1>4, <1>5, <1>6

LEMMA RedeemArithmetic ==
    ASSUME NEW U \in Nat \ {0}, NEW w \in Nat, NEW r \in Nat, U * r <= w,
           NEW supply \in Nat, NEW held \in Nat, NEW total \in Nat,
           NEW q \in Nat, NEW k \in Nat, U * k <= q * r,
           supply * w <= U * (held * U) + U * total
    PROVE  (supply - q) * w <= U * ((held - k) * U) + U * total
  <1>1. q * (U * r) <= q * w
    <2>1. U * r \in Nat
      BY SMT
    <2> QED BY <2>1, ProductBound, SMT
  <1>2. U * (U * k) <= U * (q * r)
    <2>1. U * k \in Nat /\ q * r \in Nat
      BY SMT
    <2> QED BY <2>1, ProductBound, SMT
  <1>3. /\ q * (U * r) = U * (q * r)
        /\ (supply - q) * w = supply * w - q * w
        /\ U * ((held - k) * U) + U * total = U * (held * U) - U * (U * k) + U * total
    BY SMT
  <1>4. /\ supply * w \in Int /\ q * w \in Int /\ U * (held * U) \in Int
        /\ U * (U * k) \in Int /\ U * total \in Int /\ U * (q * r) \in Int
    BY SMT
  <1> QED BY <1>1, <1>2, <1>3, <1>4

\* The real unit is the floor of the exact one.
LEMMA RealUnitFloor ==
    ASSUME TypeInv, NEW c \in Components
    PROVE  LET w == storage.virtualUnit[c] * storage.positionMultiplier
               r == DefaultPositionRealUnit(storage, c)
           IN  w \in Nat /\ r \in Nat /\ PRECISE_UNIT * r <= w /\ w < PRECISE_UNIT * r + PRECISE_UNIT
  <1>1. storage.virtualUnit[c] \in Nat /\ storage.positionMultiplier \in Nat
    BY StorageFields DEF TypeInv, TypeOK, UnitsNatural
  <1> DEFINE w == storage.virtualUnit[c] * storage.positionMultiplier
  <1>2. w \in Nat
    BY <1>1, SMT
  <1>3. DefaultPositionRealUnit(storage, c) = w \div PRECISE_UNIT
    BY <1>2, DivDownIsFloor, PreciseUnitAssumption
       DEF DefaultPositionRealUnit, ConvertVirtualToRealUnit, ConservativePreciseMul
  <1> HIDE DEF w
  <1>4. /\ w \div PRECISE_UNIT \in Nat /\ PRECISE_UNIT * (w \div PRECISE_UNIT) <= w
        /\ w < PRECISE_UNIT * (w \div PRECISE_UNIT) + PRECISE_UNIT
    BY <1>2, DivBounds, DivNat, PreciseUnitAssumption
  <1> QED BY <1>2, <1>3, <1>4 DEF w

-----------------------------------------------------------------------------
(* The shortfall with streaming fees, without exchanges *)

\* The claim of the supply at the exact units, before any rounding.
ExactClaim(c) == storage.totalSupply * (storage.virtualUnit[c] * storage.positionMultiplier)

ExactBound(c) ==
    ExactClaim(c) <= PRECISE_UNIT * (balance[c] * PRECISE_UNIT) + PRECISE_UNIT * issued

ShortfallInv == TypeInv /\ ListedOnce /\ \A c \in Components : ExactBound(c)

LEMMA InitListedOnce == Init => ListedOnce
  BY CreationAssumption DEF Init, ListedOnce, InitialStorage, IsComponent

LEMMA InitShortfall == Init => ShortfallInv
  <1> SUFFICES ASSUME Init, NEW c \in Components PROVE ExactBound(c)
    BY InitTypeInv, InitListedOnce DEF ShortfallInv
  <1>1. storage.totalSupply = 0 /\ balance[c] = 0 /\ issued = 0
    BY DEF Init, InitialStorage
  <1>2. storage.virtualUnit[c] \in Nat /\ storage.positionMultiplier \in Nat
    BY InitTypeInv, StorageFields DEF TypeInv, TypeOK, UnitsNatural
  <1>3. storage.virtualUnit[c] * storage.positionMultiplier \in Nat
    BY <1>2, SMT
  <1>4. ExactClaim(c) = 0
    BY <1>1, <1>3, SMT DEF ExactClaim
  <1> QED BY <1>1, <1>4, PreciseUnitAssumption, SMT DEF ExactBound

LEMMA IssueShortfall ==
    ASSUME ShortfallInv, NEW q \in Quantities, Issue(q)
    PROVE  ListedOnce' /\ \A c \in Components : ExactBound(c)'
  <1>1. q \in Nat
    BY InputAssumption
  <1>2. storage \in Storage /\ storage' = Mint(storage, q) /\ issued' = issued + q
    BY DEF ShortfallInv, TypeInv, TypeOK, Issue
  <1>3. ListedOnce'
    BY <1>2, MintBurnKeep DEF ShortfallInv, ListedOnce, IsComponent
  <1>4. ASSUME NEW c \in Components
        PROVE  ExactBound(c)'
    <2> DEFINE w == storage.virtualUnit[c] * storage.positionMultiplier
               r == DefaultPositionRealUnit(storage, c)
               k == RequiredForIssue(c, q)
    <2>1. w \in Nat /\ r \in Nat /\ w < PRECISE_UNIT * r + PRECISE_UNIT
      BY RealUnitFloor DEF ShortfallInv
    <2>2. k \in Nat /\ r * q <= PRECISE_UNIT * k /\ Times(c) * k = k
      BY <1>1, PaidOnce DEF ShortfallInv
    <2>3. balance'[c] = balance[c] + Times(c) * k
      BY DEF Issue
    <2>4. /\ storage.totalSupply \in Nat /\ balance[c] \in Nat /\ issued \in Nat
          /\ storage.totalSupply * w <= PRECISE_UNIT * (balance[c] * PRECISE_UNIT) + PRECISE_UNIT * issued
      BY StorageFields DEF ShortfallInv, TypeInv, TypeOK, ExactBound, ExactClaim
    <2>5. /\ storage'.totalSupply = storage.totalSupply + q
          /\ storage'.virtualUnit[c] * storage'.positionMultiplier = w
      BY <1>2, MintBurnKeep
    <2> HIDE DEF w, r, k
    <2>6. (storage.totalSupply + q) * w
            <= PRECISE_UNIT * ((balance[c] + k) * PRECISE_UNIT) + PRECISE_UNIT * (issued + q)
      BY <1>1, <2>1, <2>2, <2>4, PreciseUnitAssumption, IssueArithmetic
    <2> QED BY <1>2, <2>2, <2>3, <2>5, <2>6 DEF ExactBound, ExactClaim
  <1> QED BY <1>3, <1>4

LEMMA RedeemShortfall ==
    ASSUME ShortfallInv, NEW q \in Quantities, Redeem(q)
    PROVE  ListedOnce' /\ \A c \in Components : ExactBound(c)'
  <1>1. q \in Nat
    BY InputAssumption
  <1>2. storage \in Storage /\ storage' = Burn(storage, q) /\ issued' = issued
    BY DEF ShortfallInv, TypeInv, TypeOK, Redeem
  <1>3. ListedOnce'
    BY <1>2, MintBurnKeep DEF ShortfallInv, ListedOnce, IsComponent
  <1>4. ASSUME NEW c \in Components
        PROVE  ExactBound(c)'
    <2> DEFINE w == storage.virtualUnit[c] * storage.positionMultiplier
               r == DefaultPositionRealUnit(storage, c)
               k == PaidOnRedeem(c, q)
    <2>1. w \in Nat /\ r \in Nat /\ PRECISE_UNIT * r <= w
      BY RealUnitFloor DEF ShortfallInv
    <2>2. k \in Nat /\ PRECISE_UNIT * k <= q * r /\ Times(c) * k = k
      BY <1>1, PaidOnce DEF ShortfallInv
    <2>3. balance'[c] = balance[c] - Times(c) * k
      BY DEF Redeem
    <2>4. /\ storage.totalSupply \in Nat /\ balance[c] \in Nat /\ issued \in Nat
          /\ storage.totalSupply * w <= PRECISE_UNIT * (balance[c] * PRECISE_UNIT) + PRECISE_UNIT * issued
      BY StorageFields DEF ShortfallInv, TypeInv, TypeOK, ExactBound, ExactClaim
    <2>5. /\ storage'.totalSupply = storage.totalSupply - q
          /\ storage'.virtualUnit[c] * storage'.positionMultiplier = w
      BY <1>2, MintBurnKeep
    <2> HIDE DEF w, r, k
    <2>6. (storage.totalSupply - q) * w
            <= PRECISE_UNIT * ((balance[c] - k) * PRECISE_UNIT) + PRECISE_UNIT * issued
      BY <1>1, <2>1, <2>2, <2>4, PreciseUnitAssumption, RedeemArithmetic
    <2> QED BY <1>2, <2>2, <2>3, <2>5, <2>6 DEF ExactBound, ExactClaim
  <1> QED BY <1>3, <1>4

LEMMA AccrueShortfall ==
    ASSUME ShortfallInv, DoAccrueFee, UNCHANGED <<balance, issued>>
    PROVE  ListedOnce' /\ \A c \in Components : ExactBound(c)'
  <1>1. /\ storage'.virtualUnit = storage.virtualUnit
        /\ storage'.components = storage.components
        /\ storage' \in Storage /\ storage \in Storage
        /\ storage'.totalSupply * storage'.positionMultiplier
                <= storage.totalSupply * storage.positionMultiplier
    BY AccrueFacts DEF ShortfallInv, TypeInv, TypeOK
  <1>2. ListedOnce'
    BY <1>1 DEF ShortfallInv, ListedOnce, IsComponent
  <1>3. ASSUME NEW c \in Components
        PROVE  ExactBound(c)'
    <2>1. /\ storage.totalSupply \in Nat /\ storage.positionMultiplier \in Nat
          /\ storage'.totalSupply \in Nat /\ storage'.positionMultiplier \in Nat
          /\ storage.virtualUnit[c] \in Nat /\ balance[c] \in Nat /\ issued \in Nat
      BY <1>1, StorageFields DEF ShortfallInv, TypeInv, TypeOK, UnitsNatural
    <2>2. ASSUME NEW s \in Nat, NEW m \in Nat, NEW t \in Nat, NEW n \in Nat, NEW v \in Nat,
                 s * m <= t * n
          PROVE  s * (v * m) <= t * (v * n)
      <3>1. v * (s * m) <= v * (t * n)
        <4>1. s * m \in Nat /\ t * n \in Nat
          BY SMT
        <4> QED BY <2>2, <4>1, ProductBound, SMT
      <3>2. s * (v * m) = v * (s * m) /\ t * (v * n) = v * (t * n)
        BY SMT
      <3> QED BY <3>1, <3>2
    <2>3. ExactClaim(c)' <= ExactClaim(c)
      BY <1>1, <2>1, <2>2 DEF ExactClaim
    <2>4. ExactClaim(c)' \in Int /\ ExactClaim(c) \in Int
      BY <1>1, <2>1, SMT DEF ExactClaim
    <2> DEFINE bound == PRECISE_UNIT * (balance[c] * PRECISE_UNIT) + PRECISE_UNIT * issued
    <2>5. bound \in Int /\ ExactClaim(c) <= bound
      BY <2>1, PreciseUnitAssumption, SMT DEF ShortfallInv, ExactBound
    <2> HIDE DEF bound
    <2>6. ExactClaim(c)' <= bound
      BY <2>3, <2>4, <2>5, SMT
    <2> QED BY <2>6 DEF ExactBound, bound
  <1> QED BY <1>2, <1>3

\* A step that leaves storage and issued alone and takes nothing from a balance.
LEMMA QuietShortfall ==
    ASSUME ShortfallInv, TypeInv', UNCHANGED <<storage, issued>>,
           \A c \in Components : balance'[c] >= balance[c]
    PROVE  ListedOnce' /\ \A c \in Components : ExactBound(c)'
  <1>1. ListedOnce'
    BY DEF ShortfallInv, ListedOnce
  <1>2. ASSUME NEW c \in Components
        PROVE  ExactBound(c)'
    <2>1. balance[c] \in Nat /\ balance'[c] \in Nat /\ balance[c] <= balance'[c] /\ issued \in Nat
      BY DEF ShortfallInv, TypeInv, TypeOK
    <2>2. balance[c] * PRECISE_UNIT <= balance'[c] * PRECISE_UNIT
      BY <2>1, ProductBound, PreciseUnitAssumption, SMT
    <2>3. balance[c] * PRECISE_UNIT \in Nat /\ balance'[c] * PRECISE_UNIT \in Nat
      BY <2>1, PreciseUnitAssumption, SMT
    <2>4. PRECISE_UNIT * (balance[c] * PRECISE_UNIT) <= PRECISE_UNIT * (balance'[c] * PRECISE_UNIT)
      BY <2>2, <2>3, ProductBound, PreciseUnitAssumption, SMT
    <2>5. /\ PRECISE_UNIT * (balance[c] * PRECISE_UNIT) \in Int
          /\ PRECISE_UNIT * (balance'[c] * PRECISE_UNIT) \in Int
          /\ PRECISE_UNIT * issued \in Int
      BY <2>1, PreciseUnitAssumption, SMT
    <2>6. ExactClaim(c) \in Int
      <3>1. /\ storage.totalSupply \in Nat /\ storage.positionMultiplier \in Nat
            /\ storage.virtualUnit[c] \in Nat
        BY StorageFields DEF ShortfallInv, TypeInv, TypeOK, UnitsNatural
      <3> QED BY <3>1, SMT DEF ExactClaim
    <2>7. ExactClaim(c)' = ExactClaim(c)
      BY DEF ExactClaim
    <2>8. ExactClaim(c) <= PRECISE_UNIT * (balance[c] * PRECISE_UNIT) + PRECISE_UNIT * issued
      BY DEF ShortfallInv, ExactBound
    <2>9. ExactClaim(c) <= PRECISE_UNIT * (balance'[c] * PRECISE_UNIT) + PRECISE_UNIT * issued
      BY <2>4, <2>5, <2>6, <2>8
    <2> QED BY <2>7, <2>9 DEF ExactBound
  <1> QED BY <1>1, <1>2

LEMMA NextShortfall ==
    ASSUME Installed \cap {"Trade", "Wrap"} = {}
    PROVE  ShortfallInv /\ [Next]_vars => ShortfallInv'
  <1> SUFFICES ASSUME ShortfallInv, [Next]_vars PROVE ShortfallInv'
    OBVIOUS
  <1>1. TypeInv /\ TypeInv'
    BY NextTypeInv DEF ShortfallInv
  <1> SUFFICES ListedOnce' /\ \A c \in Components : ExactBound(c)'
    BY <1>1 DEF ShortfallInv
  <1>2. CASE Issuance
    BY <1>2, IssueShortfall, RedeemShortfall DEF Issuance
  <1>3. CASE AccrueFee \/ \E p \in Percentages : UpdateStreamingFee(p)
    BY <1>3, AccrueShortfall DEF AccrueFee, UpdateStreamingFee
  <1>4. ASSUME UNCHANGED <<storage, balance, issued>>
        PROVE  ListedOnce' /\ \A c \in Components : ExactBound(c)'
    <2>1. \A c \in Components : balance'[c] >= balance[c]
      BY <1>1, <1>4, SMT DEF TypeInv, TypeOK
    <2> QED BY <1>1, <1>4, <2>1, QuietShortfall
  <1>5. CASE \/ AddFeeModule \/ RemoveFeeModule \/ Tick
             \/ \E p, max \in Percentages : InitializeFeeModule(max, p)
    BY <1>4, <1>5 DEF AddFeeModule, RemoveFeeModule, InitializeFeeModule, Tick
  <1>6. CASE Exchange
    BY <1>1, <1>6, ExchangeEditsUnits DEF TypeInv
  <1>7. ASSUME NEW d \in Components, Airdrop(d)
        PROVE  ListedOnce' /\ \A c \in Components : ExactBound(c)'
    <2>1. ASSUME NEW c \in Components
          PROVE  balance'[c] >= balance[c]
      BY <1>1, <1>7, SMT DEF Airdrop, TypeInv, TypeOK
    <2> QED BY <1>1, <1>7, <2>1, QuietShortfall DEF Airdrop
  <1>8. CASE UNCHANGED vars
    BY <1>4, <1>8 DEF vars
  <1> QED BY <1>2, <1>3, <1>5, <1>6, <1>7, <1>8 DEF Next, Fees

\* With issuance, redemption and streaming fees, in any order and at any rate,
\* the SetToken is never short of a component by more than one wei for each
\* whole SetToken ever issued.
THEOREM AlwaysBoundedShortfall ==
    ASSUME Installed \cap {"Trade", "Wrap"} = {}
    PROVE  Spec => []BoundedShortfall
  <1>1. ShortfallInv => BoundedShortfall
    <2> SUFFICES ASSUME ShortfallInv, NEW c \in Components
                 PROVE  Claim(c) <= balance[c] * PRECISE_UNIT + issued
      BY DEF BoundedShortfall
    <2> DEFINE w == storage.virtualUnit[c] * storage.positionMultiplier
               r == DefaultPositionRealUnit(storage, c)
               s == storage.totalSupply
               b == balance[c] * PRECISE_UNIT + issued
    <2>1. w \in Nat /\ r \in Nat /\ PRECISE_UNIT * r <= w
      BY RealUnitFloor DEF ShortfallInv
    <2>2. s \in Nat /\ balance[c] \in Nat /\ issued \in Nat
      BY StorageFields DEF ShortfallInv, TypeInv, TypeOK
    <2>3. b \in Nat /\ PRECISE_UNIT * b
                = PRECISE_UNIT * (balance[c] * PRECISE_UNIT) + PRECISE_UNIT * issued
      BY <2>2, PreciseUnitAssumption, SMT
    <2>4. s * w <= PRECISE_UNIT * b
      BY <2>3 DEF ShortfallInv, ExactBound, ExactClaim
    <2>5. Claim(c) = s * r
      BY DEF Claim, Supply
    <2> HIDE DEF w, r, s, b
    <2>6. s * (PRECISE_UNIT * r) <= s * w
      <3>1. PRECISE_UNIT * r \in Nat
        BY <2>1, PreciseUnitAssumption, SMT
      <3> QED BY <2>1, <2>2, <3>1, ProductBound, SMT
    <2>7. s * (PRECISE_UNIT * r) = PRECISE_UNIT * (s * r)
      BY <2>1, <2>2, PreciseUnitAssumption, SMT
    <2>8. /\ s * r \in Int /\ s * w \in Int
          /\ PRECISE_UNIT * (s * r) \in Int /\ PRECISE_UNIT * b \in Int
      BY <2>1, <2>2, <2>3, PreciseUnitAssumption, SMT
    <2>9. PRECISE_UNIT * (s * r) <= PRECISE_UNIT * b
      BY <2>4, <2>6, <2>7, <2>8, SMT
    <2>10. s * r <= b
      <3>1. b \in Int
        BY <2>3, SMT
      <3> QED BY <2>8, <2>9, <3>1, CancelFactor, PreciseUnitAssumption
    <2> QED BY <2>5, <2>10 DEF b
  <1> QED BY <1>1, InitShortfall, NextShortfall, PTL DEF Spec

-----------------------------------------------------------------------------
(* Full collateralization without streaming fees *)

Backed(st, held) == \A c \in Components : st.totalSupply * st.virtualUnit[c] <= held[c] * PRECISE_UNIT

BackedInv ==
    /\ TypeInv /\ feeModule = "NONE"
    /\ Unscaled(storage) /\ TracksComponents(storage)
    /\ Backed(storage, balance)

\* What the units promise of a component, as Surplus computes it.
Promised(st, c) == PreciseMul(st.virtualUnit[c], st.totalSupply)

LEMMA BackedListedOnce ==
    ASSUME TracksComponents(storage)
    PROVE  ListedOnce
  BY DEF TracksComponents, ListedOnce

\* One recomputed unit stays tracked, promises no more than the new balance, and
\* leaves out what was not promised before.
LEMMA RecomputedBacked ==
    ASSUME NEW st, Unscaled(st), TracksComponents(st), NEW c \in Components,
           NEW supply \in Nat, NEW pre \in Nat, NEW post \in Nat, st.totalSupply = supply,
           CanCalculateAndEditDefaultPosition(st, c, supply, pre, post)
    PROVE  LET new == CalculateAndEditDefaultPosition(st, c, supply, pre, post) IN
           /\ Unscaled(new) /\ TracksComponents(new) /\ new.totalSupply = supply
           /\ \A d \in Components : d # c => new.virtualUnit[d] = st.virtualUnit[d]
           /\ supply * new.virtualUnit[c] <= post * PRECISE_UNIT
           /\ post - Promised(new, c) >= pre - Promised(st, c)
  <1> DEFINE unit == st.virtualUnit[c]
             u    == CalculateDefaultEditPositionUnit(supply, pre, post, unit)
             air  == AirdroppedAmount(supply, pre, unit)
             new  == CalculateAndEditDefaultPosition(st, c, supply, pre, post)
  <1>1. unit \in Nat /\ DefaultPositionRealUnit(st, c) = unit
    BY UnscaledUnits
  <1>2. CanCalculateDefaultEditPositionUnit(supply, pre, post, unit)
    BY <1>1 DEF CanCalculateAndEditDefaultPosition
  <1>3. u \in Nat /\ air \in Nat /\ supply * u <= (post - air) * PRECISE_UNIT
    BY <1>1, <1>2, RecomputedUnit
  <1>4. new = EditDefaultPosition(st, c, u)
    BY <1>1 DEF CalculateAndEditDefaultPosition
  <1> HIDE DEF u
  <1>5. /\ Unscaled(new) /\ TracksComponents(new) /\ new.totalSupply = supply
        /\ new.virtualUnit = [st.virtualUnit EXCEPT ![c] = u]
    BY <1>3, <1>4, EditDefaultPositionTracks
  <1>6. st.virtualUnit \in [Components -> Int]
    BY StorageFields DEF Unscaled
  <1> HIDE DEF new
  <1>7. new.virtualUnit[c] = u /\ \A d \in Components : d # c => new.virtualUnit[d] = st.virtualUnit[d]
    BY <1>5, <1>6
  <1>8. air = pre - Promised(st, c)
    BY <1>5 DEF AirdroppedAmount, Promised
  <1> HIDE DEF unit, air
  <1>9. supply * u <= post * PRECISE_UNIT
    <2>1. (post - air) * PRECISE_UNIT = post * PRECISE_UNIT - air * PRECISE_UNIT
      BY <1>3, PreciseUnitAssumption, SMT
    <2>2. /\ air * PRECISE_UNIT \in Nat /\ post * PRECISE_UNIT \in Nat /\ supply * u \in Nat
      BY <1>3, PreciseUnitAssumption, SMT
    <2> QED BY <1>3, <2>1, <2>2, SMT
  <1>10. Promised(new, c) = PreciseMul(u, supply)
    BY <1>5, <1>7 DEF Promised
  <1>11. PreciseMul(u, supply) <= post - air
    <2>1. /\ PreciseMul(u, supply) \in Nat
          /\ PRECISE_UNIT * PreciseMul(u, supply) <= u * supply
      BY <1>3, PreciseMulBounds
    <2>2. u * supply <= PRECISE_UNIT * (post - air)
      BY <1>3, PreciseUnitAssumption, SMT
    <2>3. PRECISE_UNIT * PreciseMul(u, supply) <= PRECISE_UNIT * (post - air)
      <3>1. /\ PRECISE_UNIT * PreciseMul(u, supply) \in Int /\ u * supply \in Int
            /\ PRECISE_UNIT * (post - air) \in Int
        BY <1>3, <2>1, PreciseUnitAssumption, SMT
      <3> QED BY <2>1, <2>2, <3>1, SMT
    <2>4. post - air \in Int /\ PreciseMul(u, supply) \in Int
      BY <1>3, <2>1, SMT
    <2> QED BY <2>3, <2>4, CancelFactor, PreciseUnitAssumption
  <1>12. Promised(st, c) \in Nat /\ PreciseMul(u, supply) \in Nat
    BY <1>1, <1>3, PreciseMulBounds DEF Promised, unit
  <1>13. post - Promised(new, c) >= pre - Promised(st, c)
    <2> DEFINE old == Promised(st, c)
               now == PreciseMul(u, supply)
    <2>1. old \in Nat /\ now \in Nat /\ air = pre - old /\ now <= post - air
      BY <1>8, <1>11, <1>12
    <2> HIDE DEF old, now
    <2>2. post - now >= pre - old
      BY <2>1, SMT
    <2> QED BY <1>10, <2>2 DEF old, now
  <1> QED BY <1>5, <1>7, <1>9, <1>13 DEF new

\* Rounding up one part of a sum, or down, covers rounding the sum down.
LEMMA FloorOfSum ==
    ASSUME NEW U \in Nat \ {0}, NEW a \in Nat, NEW b \in Nat, NEW k \in Nat, b <= U * k
    PROVE  (a + b) \div U <= a \div U + k
  <1> DEFINE x == a \div U
             y == (a + b) \div U
  <1>1. x \in Int /\ a < U * x + U
    BY DivBounds
  <1>2. y \in Int /\ U * y <= a + b
    BY DivBounds, SMT
  <1> HIDE DEF x, y
  <1>3. U * y < U * (x + k + 1)
    <2>1. U * (x + k + 1) = U * x + U * k + U
      BY <1>1, SMT
    <2>2. U * x \in Int /\ U * k \in Int /\ U * y \in Int
      BY <1>1, <1>2, SMT
    <2> QED BY <1>1, <1>2, <2>1, <2>2, SMT
  <1>4. y < x + k + 1
    BY <1>1, <1>2, <1>3, SMT
  <1> QED BY <1>1, <1>2, <1>4, SMT DEF x, y

LEMMA FloorOfDifference ==
    ASSUME NEW U \in Nat \ {0}, NEW a \in Nat, NEW b \in Nat, NEW k \in Nat, U * k <= b
    PROVE  (a - b) \div U <= a \div U - k
  <1> DEFINE x == a \div U
             y == (a - b) \div U
  <1>1. x \in Int /\ a < U * x + U
    BY DivBounds
  <1>2. y \in Int /\ U * y <= a - b
    BY DivBounds, SMT
  <1> HIDE DEF x, y
  <1>3. U * y < U * (x - k + 1)
    <2>1. U * (x - k + 1) = U * x - U * k + U
      BY <1>1, SMT
    <2>2. U * x \in Int /\ U * k \in Int /\ U * y \in Int
      BY <1>1, <1>2, SMT
    <2> QED BY <1>1, <1>2, <2>1, <2>2, SMT
  <1>4. y < x - k + 1
    BY <1>1, <1>2, <1>3, SMT
  <1> QED BY <1>1, <1>2, <1>4, SMT DEF x, y

\* A transaction that keeps a component backed and its surplus.
Kept(c) ==
    /\ storage'.totalSupply * storage'.virtualUnit[c] <= balance'[c] * PRECISE_UNIT
    /\ balance'[c] - Promised(storage', c) >= balance[c] - Promised(storage, c)

LEMMA IssueBacked ==
    ASSUME BackedInv, NEW q \in Quantities, Issue(q), NEW c \in Components
    PROVE  Kept(c)
  <1> DEFINE v == storage.virtualUnit[c]
             s == storage.totalSupply
             b == balance[c]
             k == RequiredForIssue(c, q)
  <1>1. q \in Nat /\ v \in Nat /\ s \in Nat /\ b \in Nat
    BY InputAssumption, StorageFields DEF BackedInv, TypeInv, TypeOK, UnitsNatural
  <1>2. DefaultPositionRealUnit(storage, c) = v
    BY UnscaledUnits DEF BackedInv
  <1>3. k \in Nat /\ v * q <= PRECISE_UNIT * k /\ Times(c) * k = k
    BY <1>1, <1>2, PaidOnce, BackedListedOnce DEF BackedInv
  <1>4. balance'[c] = b + k
    BY <1>3 DEF Issue
  <1>5. storage'.totalSupply = s + q /\ storage'.virtualUnit[c] = v
    BY MintBurnKeep DEF BackedInv, TypeInv, TypeOK, Issue
  <1>6. s * v <= b * PRECISE_UNIT
    BY DEF BackedInv, Backed
  <1> HIDE DEF v, s, b, k
  <1>7. (s + q) * v <= (b + k) * PRECISE_UNIT
    <2>1. (s + q) * v = s * v + v * q /\ (b + k) * PRECISE_UNIT = b * PRECISE_UNIT + PRECISE_UNIT * k
      BY <1>1, <1>3, PreciseUnitAssumption, SMT
    <2>2. /\ s * v \in Int /\ v * q \in Int /\ b * PRECISE_UNIT \in Int /\ PRECISE_UNIT * k \in Int
      BY <1>1, <1>3, PreciseUnitAssumption, SMT
    <2> QED BY <1>3, <1>6, <2>1, <2>2, SMT
  <1>8. PreciseMul(v, s + q) <= PreciseMul(v, s) + k
    <2>1. v * s \in Nat /\ v * q \in Nat /\ v * (s + q) = v * s + v * q
      BY <1>1, SMT
    <2> QED BY <1>3, <2>1, FloorOfSum, PreciseUnitAssumption DEF PreciseMul
  <1>9. PreciseMul(v, s + q) \in Nat /\ PreciseMul(v, s) \in Nat
    <2>1. s + q \in Nat
      BY <1>1, SMT
    <2> QED BY <1>1, <2>1, PreciseMulBounds
  <1>10. (b + k) - PreciseMul(v, s + q) >= b - PreciseMul(v, s)
    BY <1>1, <1>3, <1>8, <1>9, SMT
  <1>11. Promised(storage', c) = PreciseMul(v, s + q) /\ Promised(storage, c) = PreciseMul(v, s)
    BY <1>5 DEF Promised, v, s
  <1> QED BY <1>4, <1>5, <1>7, <1>10, <1>11 DEF Kept, b

LEMMA RedeemBacked ==
    ASSUME BackedInv, NEW q \in Quantities, Redeem(q), NEW c \in Components
    PROVE  Kept(c)
  <1> DEFINE v == storage.virtualUnit[c]
             s == storage.totalSupply
             b == balance[c]
             k == PaidOnRedeem(c, q)
  <1>1. q \in Nat /\ v \in Nat /\ s \in Nat /\ b \in Nat /\ q <= s
    BY InputAssumption, StorageFields
       DEF BackedInv, TypeInv, TypeOK, UnitsNatural, Redeem, CanBurn
  <1>2. DefaultPositionRealUnit(storage, c) = v
    BY UnscaledUnits DEF BackedInv
  <1>3. k \in Nat /\ PRECISE_UNIT * k <= q * v /\ Times(c) * k = k
    BY <1>1, <1>2, PaidOnce, BackedListedOnce DEF BackedInv
  <1>4. balance'[c] = b - k
    BY <1>3 DEF Redeem
  <1>5. storage'.totalSupply = s - q /\ storage'.virtualUnit[c] = v
    BY MintBurnKeep DEF BackedInv, TypeInv, TypeOK, Redeem
  <1>6. s * v <= b * PRECISE_UNIT
    BY DEF BackedInv, Backed
  <1> HIDE DEF v, s, b, k
  <1>7. (s - q) * v <= (b - k) * PRECISE_UNIT
    <2>1. (s - q) * v = s * v - q * v /\ (b - k) * PRECISE_UNIT = b * PRECISE_UNIT - PRECISE_UNIT * k
      BY <1>1, <1>3, PreciseUnitAssumption, SMT
    <2>2. /\ s * v \in Int /\ q * v \in Int /\ b * PRECISE_UNIT \in Int /\ PRECISE_UNIT * k \in Int
      BY <1>1, <1>3, PreciseUnitAssumption, SMT
    <2> QED BY <1>3, <1>6, <2>1, <2>2, SMT
  <1>8. PreciseMul(v, s - q) <= PreciseMul(v, s) - k
    <2>1. v * s \in Nat /\ q * v \in Nat /\ v * (s - q) = v * s - q * v
      BY <1>1, SMT
    <2> QED BY <1>3, <2>1, FloorOfDifference, PreciseUnitAssumption DEF PreciseMul
  <1>9. PreciseMul(v, s - q) \in Nat /\ PreciseMul(v, s) \in Nat
    <2>1. s - q \in Nat
      BY <1>1, SMT
    <2> QED BY <1>1, <2>1, PreciseMulBounds
  <1>10. (b - k) - PreciseMul(v, s - q) >= b - PreciseMul(v, s)
    BY <1>1, <1>3, <1>8, <1>9, SMT
  <1>11. Promised(storage', c) = PreciseMul(v, s - q) /\ Promised(storage, c) = PreciseMul(v, s)
    BY <1>5 DEF Promised, v, s
  <1> QED BY <1>4, <1>5, <1>7, <1>10, <1>11 DEF Kept, b

LEMMA ExchangeBacked ==
    ASSUME BackedInv, Exchange
    PROVE  /\ Unscaled(storage') /\ TracksComponents(storage')
           /\ \A c \in Components : Kept(c)
  <1>1. TypeInv
    BY DEF BackedInv
  <1>2. PICK a, b \in Components, post \in [Components -> Nat] :
            /\ a # b /\ EditUnits(a, b, post)
            /\ \A e \in Components : e # a /\ e # b => post[e] = balance[e]
    BY <1>1, ExchangeEditsUnits DEF TypeInv
  <1> DEFINE S      == storage.totalSupply
             edited == CalculateAndEditDefaultPosition(storage, a, S, balance[a], post[a])
             last   == CalculateAndEditDefaultPosition(edited, b, S, balance[b], post[b])
  <1>3. /\ CanCalculateAndEditDefaultPosition(storage, a, S, balance[a], post[a])
        /\ CanCalculateAndEditDefaultPosition(edited, b, S, balance[b], post[b])
        /\ storage' = last /\ balance' = post
    BY <1>2 DEF EditUnits, Supply
  <1>4. S \in Nat /\ \A c \in Components : balance[c] \in Nat /\ post[c] \in Nat
    BY <1>1, StorageFields DEF TypeInv, TypeOK
  <1>5. /\ Unscaled(edited) /\ TracksComponents(edited) /\ edited.totalSupply = S
        /\ \A d \in Components : d # a => edited.virtualUnit[d] = storage.virtualUnit[d]
        /\ S * edited.virtualUnit[a] <= post[a] * PRECISE_UNIT
        /\ post[a] - Promised(edited, a) >= balance[a] - Promised(storage, a)
    BY <1>3, <1>4, RecomputedBacked DEF BackedInv
  <1> HIDE DEF edited
  <1>6. /\ Unscaled(last) /\ TracksComponents(last) /\ last.totalSupply = S
        /\ \A d \in Components : d # b => last.virtualUnit[d] = edited.virtualUnit[d]
        /\ S * last.virtualUnit[b] <= post[b] * PRECISE_UNIT
        /\ post[b] - Promised(last, b) >= balance[b] - Promised(edited, b)
    BY <1>3, <1>4, <1>5, RecomputedBacked
  <1> HIDE DEF last
  <1>7. Kept(a)
    <2>1. last.virtualUnit[a] = edited.virtualUnit[a]
      BY <1>2, <1>6
    <2> QED BY <1>3, <1>5, <1>6, <2>1 DEF Kept, Promised
  <1>8. Kept(b)
    <2>1. edited.virtualUnit[b] = storage.virtualUnit[b]
      BY <1>2, <1>5
    <2> QED BY <1>3, <1>5, <1>6, <2>1 DEF Kept, Promised
  <1>9. ASSUME NEW c \in Components, c # a, c # b
        PROVE  Kept(c)
    <2>1. last.virtualUnit[c] = storage.virtualUnit[c] /\ post[c] = balance[c]
      BY <1>2, <1>5, <1>6, <1>9
    <2>2. S * storage.virtualUnit[c] <= balance[c] * PRECISE_UNIT
      BY DEF BackedInv, Backed
    <2>3. Promised(storage, c) \in Nat /\ balance[c] \in Nat
      BY <1>1, <1>4, PreciseMulBounds DEF Promised, TypeInv, UnitsNatural
    <2>4. balance[c] - Promised(storage, c) \in Int
      BY <2>3, SMT
    <2>5. Promised(last, c) = Promised(storage, c)
      BY <1>6, <2>1 DEF Promised
    <2> QED BY <1>3, <1>6, <2>1, <2>2, <2>4, <2>5, SMT DEF Kept
  <1> QED BY <1>3, <1>6, <1>7, <1>8, <1>9

LEMMA AirdropBacked ==
    ASSUME BackedInv, NEW d \in Components, Airdrop(d), NEW c \in Components
    PROVE  Kept(c)
  <1>1. balance[c] \in Nat /\ storage' = storage
        /\ balance'[c] = IF c = d THEN balance[c] + 1 ELSE balance[c]
    BY DEF BackedInv, TypeInv, TypeOK, Airdrop
  <1>2. Promised(storage, c) \in Nat
    BY StorageFields, PreciseMulBounds DEF Promised, BackedInv, TypeInv, TypeOK, UnitsNatural
  <1>3. storage.totalSupply * storage.virtualUnit[c] \in Nat
    BY StorageFields, SMT DEF BackedInv, TypeInv, TypeOK, UnitsNatural
  <1>4. storage.totalSupply * storage.virtualUnit[c] <= balance[c] * PRECISE_UNIT
    BY DEF BackedInv, Backed
  <1>5. /\ balance[c] * PRECISE_UNIT <= balance'[c] * PRECISE_UNIT
        /\ balance[c] * PRECISE_UNIT \in Int /\ balance'[c] * PRECISE_UNIT \in Int
        /\ balance'[c] \in Nat /\ balance'[c] >= balance[c]
    <2>1. balance'[c] \in Nat /\ balance'[c] >= balance[c]
      BY <1>1, SMT
    <2> QED BY <1>1, <2>1, PreciseUnitAssumption, SMT
  <1>6. storage.totalSupply * storage.virtualUnit[c] <= balance'[c] * PRECISE_UNIT
    BY <1>3, <1>4, <1>5, SMT
  <1>7. balance'[c] - Promised(storage, c) >= balance[c] - Promised(storage, c)
    BY <1>1, <1>2, <1>5, SMT
  <1> QED BY <1>1, <1>6, <1>7 DEF Kept

LEMMA InitBacked == Init => BackedInv
  <1> SUFFICES ASSUME Init PROVE BackedInv
    OBVIOUS
  <1>1. /\ storage = InitialStorage(InitialComponents, InitialUnits)
        /\ balance = [c \in Components |-> 0] /\ feeModule = "NONE"
    BY DEF Init
  <1>2. TypeInv /\ storage \in Storage
    BY InitTypeInv DEF TypeInv, TypeOK
  <1>3. /\ storage.virtualUnit = InitialUnits /\ storage.totalSupply = 0
        /\ storage.components = InitialComponents
        /\ storage.externalPositionModules = [c \in Components |-> << >>]
        /\ storage.positionMultiplier = PRECISE_UNIT
    BY <1>1 DEF InitialStorage
  <1>4. Unscaled(storage)
    BY <1>2, <1>3, CreationAssumption, SMT DEF Unscaled
  <1>5. Len(<< >>) = 0
    OBVIOUS
  <1>6. TracksComponents(storage)
    BY <1>3, <1>5, CreationAssumption DEF TracksComponents, IsComponent, HasExternalPosition
  <1>7. Backed(storage, balance)
    <2>1. ASSUME NEW c \in Components
          PROVE  storage.totalSupply * storage.virtualUnit[c] <= balance[c] * PRECISE_UNIT
      <3>1. storage.virtualUnit[c] \in Nat /\ storage.totalSupply = 0 /\ balance[c] = 0
        BY <1>1, <1>2, <1>3 DEF TypeInv, UnitsNatural
      <3> QED BY <3>1, PreciseUnitAssumption, SMT
    <2> QED BY <2>1 DEF Backed
  <1> QED BY <1>1, <1>2, <1>4, <1>6, <1>7 DEF BackedInv

\* Without the streaming fee module, a step keeps the units tracked and backed.
LEMMA NextKept ==
    ASSUME "StreamingFee" \notin Installed, BackedInv, [Next]_vars
    PROVE  /\ Unscaled(storage') /\ TracksComponents(storage') /\ feeModule' = "NONE"
           /\ \A c \in Components : Kept(c)
  <1> USE DEF BackedInv
  <1>1. ASSUME UNCHANGED <<storage, balance, feeModule>>
        PROVE  /\ Unscaled(storage') /\ TracksComponents(storage') /\ feeModule' = "NONE"
               /\ \A c \in Components : Kept(c)
    <2>1. ASSUME NEW c \in Components
          PROVE  Kept(c)
      <3>1. Promised(storage, c) \in Nat /\ balance[c] \in Nat
        BY StorageFields, PreciseMulBounds DEF Promised, TypeInv, TypeOK, UnitsNatural
      <3>2. balance[c] - Promised(storage, c) \in Int
        BY <3>1, SMT
      <3>3. storage.totalSupply * storage.virtualUnit[c] <= balance[c] * PRECISE_UNIT
        BY DEF Backed
      <3> QED BY <1>1, <3>2, <3>3, SMT DEF Kept
    <2> QED BY <1>1, <2>1
  <1>2. ASSUME NEW q \in Quantities, storage' = Mint(storage, q) \/ storage' = Burn(storage, q),
               storage' \in Storage
        PROVE  Unscaled(storage') /\ TracksComponents(storage')
    <2>1. /\ storage'.virtualUnit = storage.virtualUnit
          /\ storage'.components = storage.components
          /\ storage'.positionMultiplier = storage.positionMultiplier
          /\ storage'.externalPositionModules = storage.externalPositionModules
      BY <1>2, MintBurnKeep DEF TypeInv, TypeOK
    <2> QED BY <1>2, <2>1 DEF Unscaled, TracksComponents, IsComponent, HasExternalPosition
  <1>3. TypeInv'
    BY NextTypeInv
  <1>4. CASE Issuance
    <2>1. PICK q \in Quantities : Issue(q) \/ Redeem(q)
      BY <1>4 DEF Issuance
    <2>2. /\ storage' = Mint(storage, q) \/ storage' = Burn(storage, q)
          /\ storage' \in Storage /\ feeModule' = "NONE"
      BY <1>3, <2>1 DEF Issue, Redeem, feeVars, TypeInv, TypeOK
    <2> QED BY <1>2, <2>1, <2>2, IssueBacked, RedeemBacked
  <1>5. CASE Fees
    BY <1>5 DEF Fees, AddFeeModule, RemoveFeeModule, AccrueFee, UpdateStreamingFee,
                InitializeFeeModule
  <1>6. CASE Exchange
    BY <1>6, ExchangeBacked, ExchangeEditsUnits DEF feeVars, TypeInv
  <1>7. ASSUME NEW d \in Components, Airdrop(d)
        PROVE  /\ Unscaled(storage') /\ TracksComponents(storage') /\ feeModule' = "NONE"
               /\ \A c \in Components : Kept(c)
    BY <1>7, AirdropBacked DEF Airdrop, feeVars
  <1>8. CASE Tick
    BY <1>1, <1>8 DEF Tick
  <1>9. CASE UNCHANGED vars
    BY <1>1, <1>9 DEF vars
  <1> QED BY <1>4, <1>5, <1>6, <1>7, <1>8, <1>9 DEF Next

LEMMA NextBacked ==
    ASSUME "StreamingFee" \notin Installed
    PROVE  BackedInv /\ [Next]_vars => BackedInv'
  <1> SUFFICES ASSUME BackedInv, [Next]_vars PROVE BackedInv'
    OBVIOUS
  <1>1. TypeInv'
    BY NextTypeInv DEF BackedInv
  <1>2. Backed(storage', balance')
    BY NextKept DEF Kept, Backed
  <1> QED BY <1>1, <1>2, NextKept DEF BackedInv

\* Whatever is issued, redeemed, traded, wrapped and airdropped, in any order,
\* the SetToken holds what its units promise to the whole supply.
THEOREM AlwaysCollateralized ==
    ASSUME "StreamingFee" \notin Installed
    PROVE  Spec => []Collateralized
  <1>1. BackedInv => Collateralized
    BY UnscaledUnits DEF BackedInv, Backed, Collateralized, Claim, Supply
  <1> QED BY <1>1, InitBacked, NextBacked, PTL DEF Spec

\* Every redemption of up to the supply finds the tokens it pays out.
THEOREM HoldersCanAlwaysRedeem ==
    ASSUME "StreamingFee" \notin Installed
    PROVE  Spec => []AlwaysRedeemable
  <1>1. BackedInv => AlwaysRedeemable
    <2> SUFFICES ASSUME BackedInv, NEW q \in 1 .. Supply, NEW c \in Components
                 PROVE  Times(c) * PaidOnRedeem(c, q) <= balance[c]
      BY DEF AlwaysRedeemable
    <2> DEFINE v == storage.virtualUnit[c]
               s == storage.totalSupply
               k == PaidOnRedeem(c, q)
    <2>1. /\ v \in Nat /\ s \in Nat /\ balance[c] \in Nat
          /\ s * v <= balance[c] * PRECISE_UNIT /\ DefaultPositionRealUnit(storage, c) = v
      BY StorageFields, UnscaledUnits
         DEF BackedInv, TypeInv, TypeOK, UnitsNatural, Backed
    <2>2. q \in Nat /\ q <= s
      BY <2>1, SMT DEF Supply
    <2>3. k \in Nat /\ PRECISE_UNIT * k <= q * v /\ Times(c) * k = k
      BY <2>1, <2>2, PaidOnce, BackedListedOnce DEF BackedInv
    <2> HIDE DEF v, s, k
    <2>4. q * v <= s * v
      BY <2>1, <2>2, ProductBound, SMT
    <2>5. /\ PRECISE_UNIT * k \in Int /\ q * v \in Int /\ s * v \in Int
          /\ PRECISE_UNIT * balance[c] \in Int
          /\ balance[c] * PRECISE_UNIT = PRECISE_UNIT * balance[c]
      BY <2>1, <2>2, <2>3, PreciseUnitAssumption, SMT
    <2>6. PRECISE_UNIT * k <= PRECISE_UNIT * balance[c]
      BY <2>1, <2>3, <2>4, <2>5, SMT
    <2>7. k \in Int /\ balance[c] \in Int
      BY <2>1, <2>3, SMT
    <2>8. k <= balance[c]
      BY <2>6, <2>7, CancelFactor, PreciseUnitAssumption
    <2> QED BY <2>3, <2>8 DEF k
  <1> QED BY <1>1, InitBacked, NextBacked, PTL DEF Spec

\* No module turns into units what reached the SetToken past the modules.
THEOREM SurplusAlwaysKept ==
    ASSUME "StreamingFee" \notin Installed
    PROVE  Spec => SurplusNeverConsumed
  <1>1. BackedInv /\ BackedInv' /\ [Next]_vars => [SurplusKept]_vars
    <2> SUFFICES ASSUME BackedInv, BackedInv', [Next]_vars, NEW c \in Components
                 PROVE  Surplus(c)' >= Surplus(c)
      BY DEF SurplusKept
    <2>1. Surplus(c) = balance[c] - Promised(storage, c)
      BY UnscaledUnits DEF BackedInv, Surplus, Promised, Supply
    <2>2. Surplus(c)' = balance'[c] - Promised(storage', c)
      <3>1. DefaultPositionRealUnit(storage', c) = storage'.virtualUnit[c]
        BY UnscaledUnits DEF BackedInv
      <3> QED BY <3>1 DEF Surplus, Promised, Supply
    <2>3. Kept(c)
      BY NextKept
    <2> QED BY <2>1, <2>2, <2>3 DEF Kept
  <1> QED BY <1>1, InitBacked, NextBacked, PTL DEF Spec, SurplusNeverConsumed

-----------------------------------------------------------------------------
(* With ComponentManageModule: a lock holds off issuance and every change of *)
(* manager, for every set of accounts, components, units and quantities.     *)

\* What the manager's edits do to the storage.
LEMMA ComponentEditStorage ==
    ASSUME TypeInv, NEW sender \in Accounts, NEW c \in Components, NEW q \in EditQuantities,
           RemoveFromSetToken(sender, c, q) \/ AddToSetToken(sender, c, q)
    PROVE  /\ storage' \in Storage
           /\ \A d \in Components : storage'.virtualUnit[d] \in Nat
           /\ storage'.totalSupply = storage.totalSupply
  <1>1. /\ storage \in Storage /\ q \in Nat /\ q \in Int
        /\ \A d \in Components : storage.virtualUnit[d] \in Nat
    BY EditAssumption, SMT DEF TypeInv, TypeOK, UnitsNatural
  \* The unit is rewritten, on a record whose other fields do not matter.
  <1>2. ASSUME NEW st \in Storage, st.virtualUnit = storage.virtualUnit,
               st.totalSupply = storage.totalSupply,
               storage' = EditDefaultPositionUnit(st, c, q)
        PROVE  /\ storage' \in Storage
               /\ \A d \in Components : storage'.virtualUnit[d] \in Nat
               /\ storage'.totalSupply = storage.totalSupply
    <2> DEFINE v == ConvertRealToVirtualUnit(st, q)
    <2>1. storage' \in Storage
      BY <1>1, <1>2, EditDefaultPositionUnitType
    <2>2. v \in Nat
      BY <1>1, StorageFields, ConservativeDivBounds DEF ConvertRealToVirtualUnit
    <2>3. /\ storage'.virtualUnit = [storage.virtualUnit EXCEPT ![c] = v]
          /\ storage'.totalSupply = storage.totalSupply
      BY <1>2 DEF EditDefaultPositionUnit, Storage
    <2> HIDE DEF v
    <2>4. storage.virtualUnit \in [Components -> Int]
      BY <1>1, StorageFields
    <2> QED BY <1>1, <2>1, <2>2, <2>3, <2>4
  <1>3. CASE RemoveFromSetToken(sender, c, q)
    <2>1. CASE storage' = RemoveComponent(storage, c)
      <3>1. CanRemoveComponent(storage, c)
        BY <1>3 DEF RemoveFromSetToken, CanRemoveComponent
      <3>2. storage' \in Storage
        BY <1>1, <2>1, <3>1, RemoveComponentType
      <3>3. /\ storage'.virtualUnit = storage.virtualUnit
            /\ storage'.totalSupply = storage.totalSupply
        BY <1>1, <2>1 DEF RemoveComponent, Storage
      <3> QED BY <1>1, <3>2, <3>3
    <2>2. CASE storage' = EditDefaultPositionUnit(storage, c, q)
      BY <1>1, <1>2, <2>2
    <2> QED BY <1>3, <2>1, <2>2 DEF RemoveFromSetToken
  <1>4. CASE AddToSetToken(sender, c, q)
    <2> DEFINE st == AddComponent(storage, c)
    <2>1. st \in Storage
      BY <1>1, AddComponentType
    <2>2. st.virtualUnit = storage.virtualUnit /\ st.totalSupply = storage.totalSupply
      BY <1>1 DEF AddComponent, Storage
    <2>3. storage' = EditDefaultPositionUnit(st, c, q)
      BY <1>4 DEF AddToSetToken
    <2> HIDE DEF st
    <2> QED BY <1>2, <2>1, <2>2, <2>3
  <1> QED BY <1>3, <1>4

LEMMA ComponentEditType ==
    ASSUME TypeInv, ComponentEdit
    PROVE  TypeInv' /\ UNCHANGED <<issued, manageVars>> /\ Supply' = Supply
  <1>1. PICK sender \in Accounts, c \in Components, q \in EditQuantities :
            RemoveFromSetToken(sender, c, q) \/ AddToSetToken(sender, c, q)
    BY DEF ComponentEdit
  <1>2. /\ storage' \in Storage /\ \A d \in Components : storage'.virtualUnit[d] \in Nat
        /\ storage'.totalSupply = storage.totalSupply
    BY <1>1, ComponentEditStorage
  <1>3. q \in Nat /\ balance \in [Components -> Nat]
    BY EditAssumption DEF TypeInv, TypeOK
  <1>4. balance' \in [Components -> Nat]
    <2>1. CASE RemoveFromSetToken(sender, c, q)
      <3>1. balance[c] - q \in Nat
        BY <1>3, <2>1, SMT DEF RemoveFromSetToken
      <3> QED BY <1>3, <2>1, <3>1 DEF RemoveFromSetToken
    <2>2. CASE AddToSetToken(sender, c, q)
      <3>1. balance[c] + q \in Nat
        BY <1>3, SMT
      <3> QED BY <1>3, <2>2, <3>1 DEF AddToSetToken
    <2> QED BY <1>1, <2>1, <2>2
  <1>5. UNCHANGED <<feeVars, issued, manageVars>>
    BY <1>1 DEF RemoveFromSetToken, AddToSetToken
  <1> QED BY <1>2, <1>4, <1>5 DEF TypeInv, TypeOK, UnitsNatural, Supply, feeVars

\* The lock needs a manager to be set, and setting none needs an open lock.
ManageInv == TypeInv /\ LockedHasManager

LEMMA InitManageInv == InitManage => ManageInv
  BY InitTypeInv DEF InitManage, ManageInv, LockedHasManager

LEMMA NextManageInv ==
    ManageInv /\ [NextManage]_allVars => ManageInv' /\ Standstill
  <1> SUFFICES ASSUME ManageInv, [NextManage]_allVars PROVE ManageInv' /\ Standstill
    OBVIOUS
  <1> USE DEF ManageInv, LockedHasManager, Standstill
  <1>1. ASSUME NEW sender \in Accounts, LockSetToken(sender) \/ UnlockSetToken(sender)
        PROVE  ManageInv' /\ Standstill
    <2>1. /\ UNCHANGED vars /\ manager' = manager /\ manager \in Accounts
      BY <1>1 DEF LockSetToken, UnlockSetToken
    <2> QED BY <2>1, AccountAssumption DEF TypeInv, TypeOK, UnitsNatural, Supply, vars
  <1>2. ASSUME NEW a, SetManager(a) PROVE ManageInv' /\ Standstill
    BY <1>2 DEF SetManager, TypeInv, TypeOK, UnitsNatural, vars
  <1>3. CASE ComponentEdit
    BY <1>3, ComponentEditType DEF manageVars
  <1>4. CASE IssuanceWhenOpen
    <2>1. TypeInv'
      BY <1>4, IssueType, RedeemType DEF IssuanceWhenOpen, Issuance
    <2> QED BY <1>4, <2>1 DEF IssuanceWhenOpen, OpenToModules, manageVars
  <1>5. CASE (Tick \/ \E c \in Components : Airdrop(c)) /\ UNCHANGED manageVars
    <2>1. TypeInv'
      BY <1>5, EnvironmentType
    <2>2. storage' = storage /\ issued' = issued
      BY <1>5 DEF Tick, Airdrop
    <2> QED BY <1>5, <2>1, <2>2 DEF manageVars, Supply
  <1>6. CASE UNCHANGED allVars
    BY <1>6 DEF allVars, manageVars, vars, TypeInv, TypeOK, UnitsNatural, Supply
  <1> QED BY <1>1, <1>2, <1>3, <1>4, <1>5, <1>6 DEF NextManage

\* Nobody hands a locked SetToken to address(0), and address(0) never locks one:
\* a lock can always be lifted by a manager.
THEOREM LocksHaveManagers == SpecManage => []LockedHasManager
  <1>1. ManageInv => LockedHasManager
    BY DEF ManageInv
  <1> QED BY <1>1, InitManageInv, NextManageInv, PTL DEF SpecManage

\* Between lock and unlock neither the supply nor the manager changes, whatever
\* modules and accounts send.
THEOREM LocksStandStill == SpecManage => LockIsStandstill
  <1>1. ManageInv /\ [NextManage]_allVars => [Standstill]_allVars
    BY NextManageInv
  <1> QED BY <1>1, InitManageInv, NextManageInv, PTL DEF SpecManage, LockIsStandstill
==============================================================================
