--------------------------- MODULE DeploymentProofs ---------------------------
(***************************************************************************)
(* The migration scripts against the chain, for every number of            *)
(* components, reruns and crashes, every scale and every initial balance   *)
(* that is enough for a run of each.                                       *)
(***************************************************************************)
EXTENDS Deployment, PositionProofs

-----------------------------------------------------------------------------
(* The chain *)

Ops == {"", "call", "deploy", "deployed", "wait", "getCreated", "attach", "balanceOf", "getBalances"}

Fns == {"", "deploy", "initialize", "addModule", "create", "deploySetToken", "initializeModule",
        "approve", "issue", "redeem", "removeFromSetToken", "addToSetToken",
        "lockSetToken", "unlockSetToken", "approveController"}

Kinds == {"", "controller", "setTokenCreator", "basicIssuanceModule", "componentManageModule",
          "streamingFeeModule", "navIssuanceModule", "token", "oracleMock",
          "integrationRegistry", "priceOracle", "setValuer"}

Creations == {"create", "deploySetToken"}

\* The transactions that scripts send.
Tx ==
    {t \in [fn : Fns, run : Runs, kind : Kinds, stack : Runs, set : Int, tokens : Int, token : Int,
            quantity : Nat, modules : SUBSET (Kinds \cup (Kinds \X Int))] :
        /\ t.fn = "initialize" => t.modules \subseteq Kinds
        /\ t.fn \in Creations => t.modules \subseteq Kinds \X Int
        /\ t.fn = "deploySetToken" => \A m \in t.modules : m[2] = t.stack
        /\ t.fn = "addToSetToken" => t.token \in Components}

\* A SetToken whose modules are of one stack; no script rescales its units.
Sound ==
    {S \in [stack : Int, tokens : Int, pending : SUBSET (Kinds \X Int),
            initialized : SUBSET (Kinds \X Int), isLocked : BOOLEAN, storage : Storage,
            balance : [Components -> Nat]] :
        /\ Unscaled(S.storage)
        /\ \A m \in S.pending \cup S.initialized : m[2] = S.stack}

ControllerType ==
    [initialized : BOOLEAN, hasFactory : BOOLEAN, modules : SUBSET (Kinds \X Int), sets : SUBSET Int]

ChainType ==
    [code        : SUBSET (Kinds \X Int \X Int),
     controllers : [Runs -> ControllerType],
     sets        : Seq(Sound),
     created     : [Runs -> Int],
     log         : Int,
     wallet      : [Runs -> [Components -> Nat]],
     allowance   : [{IssuanceModule, ManageModule} \X Runs -> [Runs -> [Components -> Int]]],
     reverted    : SUBSET Tx]

\* A Controller lists modules of its own stack, and Sets that exist and are of
\* its stack, and none before it is initialized.
ChainInv(ch) ==
    /\ ch \in ChainType
    /\ \A r \in Runs :
        /\ \A m \in ch.controllers[r].modules : m[2] = r
        /\ \A s \in ch.controllers[r].sets : s \in DOMAIN ch.sets /\ ch.sets[s].stack = r
        /\ ~ch.controllers[r].initialized => ch.controllers[r].sets = {}

\* What all transactions but the creations leave.
Preserves(ch, n) ==
    ChainInv(n) /\ n.created = ch.created /\ n.log = ch.log /\ Len(n.sets) = Len(ch.sets)

LEMMA ChainFields ==
    ASSUME NEW ch, ChainInv(ch)
    PROVE  /\ ch.code \in SUBSET (Kinds \X Int \X Int)
           /\ ch.controllers \in [Runs -> ControllerType]
           /\ ch.sets \in Seq(Sound)
           /\ ch.created \in [Runs -> Int]
           /\ ch.log \in Int
           /\ ch.wallet \in [Runs -> [Components -> Nat]]
           /\ ch.allowance \in [{IssuanceModule, ManageModule} \X Runs ->
                                    [Runs -> [Components -> Int]]]
           /\ ch.reverted \in SUBSET Tx
  BY DEF ChainInv, ChainType

LEMMA TxFields ==
    ASSUME NEW t \in Tx
    PROVE  /\ t.fn \in Fns /\ t.run \in Runs /\ t.kind \in Kinds /\ t.stack \in Runs /\ t.set \in Int
           /\ t.tokens \in Int /\ t.token \in Int /\ t.quantity \in Nat
           /\ t.run \in Int /\ t.stack \in Int
           /\ t.fn = "initialize" => t.modules \subseteq Kinds
           /\ t.fn \in Creations => t.modules \subseteq Kinds \X Int
           /\ t.fn = "deploySetToken" => \A m \in t.modules : m[2] = t.stack
           /\ t.fn = "addToSetToken" => t.token \in Components
  BY RunsAssumption DEF Tx

LEMMA SoundFields ==
    ASSUME NEW S \in Sound
    PROVE  /\ S.stack \in Int /\ S.tokens \in Int /\ S.isLocked \in BOOLEAN
           /\ S.pending \in SUBSET (Kinds \X Int) /\ S.initialized \in SUBSET (Kinds \X Int)
           /\ S.storage \in Storage /\ Unscaled(S.storage)
           /\ S.balance \in [Components -> Nat]
           /\ \A m \in S.pending \cup S.initialized : m[2] = S.stack
  BY DEF Sound

\* A transaction that edits one Set and moves tokens.
LEMMA OneSetEdited ==
    ASSUME NEW ch, ChainInv(ch), NEW n, NEW s \in DOMAIN ch.sets, NEW S \in Sound,
           S.stack = ch.sets[s].stack,
           NEW w \in [Runs -> [Components -> Nat]],
           NEW a \in [{IssuanceModule, ManageModule} \X Runs -> [Runs -> [Components -> Int]]],
           n = [ch EXCEPT !.sets = [ch.sets EXCEPT ![s] = S], !.wallet = w, !.allowance = a]
    PROVE  Preserves(ch, n)
  <1> DEFINE q == [ch.sets EXCEPT ![s] = S]
  <1>1. q \in Seq(Sound) /\ Len(q) = Len(ch.sets) /\ DOMAIN q = DOMAIN ch.sets
    BY ChainFields, ExceptSeq
  <1>2. \A x \in DOMAIN ch.sets : q[x].stack = ch.sets[x].stack
    BY ChainFields
  <1> HIDE DEF q
  <1>3. n = [ch EXCEPT !.sets = q, !.wallet = w, !.allowance = a]
    BY DEF q
  <1>4. n \in ChainType
    <2>1. ch \in ChainType
      BY DEF ChainInv
    <2> QED BY <1>1, <1>3, <2>1 DEF ChainType
  <1>5. n.controllers = ch.controllers /\ n.sets = q /\ n.created = ch.created /\ n.log = ch.log
    BY <1>3 DEF ChainInv, ChainType
  <1> QED BY <1>1, <1>2, <1>4, <1>5 DEF ChainInv, Preserves

\* As the transactions of a module write it.
LEMMA SetEdited ==
    ASSUME NEW ch, ChainInv(ch), NEW s \in DOMAIN ch.sets, NEW S \in Sound,
           S.stack = ch.sets[s].stack
    PROVE  Preserves(ch, [ch EXCEPT !.sets[s] = S])
  <1> DEFINE q == [ch.sets EXCEPT ![s] = S]
  <1>1. [ch EXCEPT !.sets = q] = [ch EXCEPT !.sets = q, !.wallet = ch.wallet, !.allowance = ch.allowance]
    <2> HIDE DEF q
    <2> QED BY DEF ChainInv, ChainType
  <1> QED BY <1>1, OneSetEdited, ChainFields

LEMMA SetPaid ==
    ASSUME NEW ch, ChainInv(ch), NEW s \in DOMAIN ch.sets, NEW S \in Sound,
           S.stack = ch.sets[s].stack, NEW w \in [Runs -> [Components -> Nat]]
    PROVE  Preserves(ch, [ch EXCEPT !.sets[s] = S, !.wallet = w])
  <1> DEFINE q == [ch.sets EXCEPT ![s] = S]
  <1>1. [ch EXCEPT !.sets = q, !.wallet = w]
                = [ch EXCEPT !.sets = q, !.wallet = w, !.allowance = ch.allowance]
    <2> HIDE DEF q
    <2> QED BY DEF ChainInv, ChainType
  <1> QED BY <1>1, OneSetEdited, ChainFields

LEMMA InitializeModuleInv ==
    ASSUME NEW ch, ChainInv(ch), NEW t \in Tx, CanInitializeModule(ch, t)
    PROVE  Preserves(ch, InitializeModule(ch, t))
  <1> DEFINE s == t.set
             m == Module(t)
             S == [ch.sets[s] EXCEPT !.pending = @ \ {m}, !.initialized = @ \cup {m}]
  <1>1. s \in DOMAIN ch.sets
    BY TxFields DEF CanInitializeModule, ValidSet, ChainInv
  <1>2. ch.sets[s] \in Sound /\ m \in ch.sets[s].pending
    BY <1>1, ChainFields, LenProperties DEF CanInitializeModule
  <1>3. S \in Sound /\ S.stack = ch.sets[s].stack
    BY <1>2 DEF Sound
  <1>4. InitializeModule(ch, t) = [ch EXCEPT !.sets[s] = S]
    BY DEF InitializeModule
  <1> HIDE DEF S
  <1> QED BY <1>1, <1>3, <1>4, SetEdited, ChainFields

LEMMA LockInv ==
    ASSUME NEW ch, ChainInv(ch), NEW t \in Tx, ValidAndInitialized(ch, t)
    PROVE  Preserves(ch, Lock(ch, t)) /\ Preserves(ch, Unlock(ch, t))
  <1> DEFINE s == t.set
             L == [ch.sets[s] EXCEPT !.isLocked = TRUE]
             U == [ch.sets[s] EXCEPT !.isLocked = FALSE]
  <1>1. s \in DOMAIN ch.sets
    BY TxFields DEF ValidAndInitialized, ValidSet, ChainInv
  <1>2. ch.sets[s] \in Sound
    BY <1>1, ChainFields, LenProperties
  <1>3. L \in Sound /\ L.stack = ch.sets[s].stack /\ U \in Sound /\ U.stack = ch.sets[s].stack
    BY <1>2 DEF Sound
  <1>4. Lock(ch, t) = [ch EXCEPT !.sets[s] = L] /\ Unlock(ch, t) = [ch EXCEPT !.sets[s] = U]
    BY DEF Lock, Unlock
  <1> HIDE DEF L, U
  <1> QED BY <1>1, <1>3, <1>4, SetEdited

\* What a listing of a component takes or pays is a natural number.
LEMMA AmountsNat ==
    ASSUME NEW ch, ChainInv(ch), NEW t \in Tx, t.set \in DOMAIN ch.sets, NEW c \in Components
    PROVE  /\ DefaultPositionRealUnit(Storage_(ch, t), c) \in Nat
           /\ DefaultPositionRealUnit(Storage_(ch, t), c) = Storage_(ch, t).virtualUnit[c]
           /\ Listings(ch, t, c) \in Nat
           /\ Taken(ch, t, c) \in Nat /\ Paid(ch, t, c) \in Nat
  <1> DEFINE st == Storage_(ch, t)
             u == DefaultPositionRealUnit(st, c)
  <1>1. st \in Storage /\ Unscaled(st)
    BY ChainFields, LenProperties, SoundFields DEF Storage_
  <1>2. u \in Nat /\ u = st.virtualUnit[c]
    BY <1>1, UnscaledUnits
  <1>3. Listings(ch, t, c) \in Nat
    BY <1>1, StorageFields, OccurrencesFinite DEF Listings
  <1>4. PreciseMulCeil(u, t.quantity) \in Nat /\ PreciseMul(t.quantity, u) \in Nat
    BY <1>2, TxFields, PreciseMulCeilBounds, PreciseMulBounds
  <1>5. \A a, b \in Nat : a * b \in Nat
    BY SMT
  <1>6. Taken(ch, t, c) = Listings(ch, t, c) * PreciseMulCeil(u, t.quantity)
    BY DEF Taken
  <1>7. Paid(ch, t, c) = Listings(ch, t, c) * PreciseMul(t.quantity, u)
    BY DEF Paid
  <1> QED BY <1>2, <1>3, <1>4, <1>5, <1>6, <1>7

LEMMA EntryEdited ==
    ASSUME NEW A, NEW B, NEW f \in [A -> B], NEW g, NEW v, g \in A => v \in B
    PROVE  [f EXCEPT ![g] = v] \in [A -> B]
  OBVIOUS

Debited(f, g, amount) == [f EXCEPT ![g] = [c \in Components |-> f[g][c] - amount[c]]]

Credited(f, g, amount) == [f EXCEPT ![g] = [c \in Components |-> f[g][c] + amount[c]]]

TokensIn(T, amount, st) ==
    [T EXCEPT !.balance = [c \in Components |-> T.balance[c] + amount[c]], !.storage = st]

TokensOut(T, amount, st) ==
    [T EXCEPT !.balance = [c \in Components |-> T.balance[c] - amount[c]], !.storage = st]

Allowed(ch, t, amount) ==
    [ch.allowance EXCEPT ![Module(t)] = Debited(@, ch.sets[t.set].tokens, amount)]

Written(ch, s, S, w, a) == [ch EXCEPT !.sets = [ch.sets EXCEPT ![s] = S], !.wallet = w, !.allowance = a]

\* A transfer followed by an edit of the storage.
MovedAndStored(ch, t, amount, st) == [MoveIn(ch, t, amount) EXCEPT !.sets[t.set].storage = st]

\* Field by field.
LEMMA MoveInFields ==
    ASSUME NEW ch, ChainInv(ch), NEW t \in Tx, t.set \in DOMAIN ch.sets, NEW amount, NEW st
    PROVE  MovedAndStored(ch, t, amount, st)
                = Written(ch, t.set, TokensIn(ch.sets[t.set], amount, st),
                          Debited(ch.wallet, ch.sets[t.set].tokens, amount), Allowed(ch, t, amount))
  <1> DEFINE s == t.set
             T == ch.sets[s]
             g == T.tokens
             m == Module(t)
             B == [c \in Components |-> T.balance[c] + amount[c]]
             S == [T EXCEPT !.balance = B, !.storage = st]
             v == [c \in Components |-> ch.wallet[g][c] - amount[c]]
             u == [c \in Components |-> ch.allowance[m][g][c] - amount[c]]
             w == [ch.wallet EXCEPT ![g] = v]
             b == [ch.allowance[m] EXCEPT ![g] = u]
             a == [ch.allowance EXCEPT ![m] = b]
  <1>1. T \in Sound
    BY ChainFields, LenProperties
  <1>2. [MoveIn(ch, t, amount) EXCEPT !.sets[t.set].storage = st]
            = [ch EXCEPT !.sets[s] = S, !.wallet = w, !.allowance = a]
    <2>1. MoveIn(ch, t, amount)
            = [ch EXCEPT !.sets[s].balance = B, !.wallet = w, !.allowance = a]
      BY DEF MoveIn
    <2> DEFINE T1 == [T EXCEPT !.balance = B]
               q == [ch.sets EXCEPT ![s] = T1]
               n == [ch EXCEPT !.sets = q, !.wallet = w, !.allowance = a]
    <2> HIDE DEF w, a, B
    <2>2. q[s] = T1 /\ \A X : [q EXCEPT ![s] = X] = [ch.sets EXCEPT ![s] = X]
      <3> HIDE DEF T1
      <3> QED OBVIOUS
    <2>3. /\ n.sets = q
          /\ \A x : [n EXCEPT !.sets = x] = [ch EXCEPT !.sets = x, !.wallet = w, !.allowance = a]
      <3> HIDE DEF q
      <3> QED BY DEF ChainInv, ChainType
    <2> HIDE DEF n, q
    <2>4. n.sets[s] = T1
      BY <2>2, <2>3
    <2>5. [n.sets EXCEPT ![s] = [n.sets[s] EXCEPT !.storage = st]] = [ch.sets EXCEPT ![s] = S]
      BY <2>2, <2>3, <2>4
    <2>6. [n EXCEPT !.sets[s].storage = st] = [ch EXCEPT !.sets[s] = S, !.wallet = w, !.allowance = a]
      BY <2>3, <2>5
    <2>7. MoveIn(ch, t, amount) = n
      BY <2>1 DEF n, q
    <2> QED BY <2>6, <2>7
  <1>3. S = TokensIn(T, amount, st)
    BY DEF TokensIn
  <1>4. w = Debited(ch.wallet, g, amount)
    BY DEF Debited
  <1>5. a = Allowed(ch, t, amount)
    BY DEF Debited, Allowed
  <1> HIDE DEF S, w, a
  <1>6. MovedAndStored(ch, t, amount, st) = [ch EXCEPT !.sets[s] = S, !.wallet = w, !.allowance = a]
    BY <1>2 DEF MovedAndStored
  <1>7. MovedAndStored(ch, t, amount, st) = Written(ch, s, S, w, a)
    BY <1>6 DEF Written
  <1> QED BY <1>3, <1>4, <1>5, <1>7

\* transferFrom of what is spendable, with a new storage.
LEMMA MovedIn ==
    ASSUME NEW ch, ChainInv(ch), NEW t \in Tx, t.set \in DOMAIN ch.sets,
           NEW amount \in [Components -> Nat],
           \A c \in Components : amount[c] = 0 \/ Spendable(ch, t, c, amount[c]),
           NEW st, Unscaled(st)
    PROVE  Preserves(ch, MovedAndStored(ch, t, amount, st))
  <1> DEFINE s == t.set
             T == ch.sets[s]
             g == T.tokens
             m == Module(t)
             B == [c \in Components |-> T.balance[c] + amount[c]]
             S == [T EXCEPT !.balance = B, !.storage = st]
             v == [c \in Components |-> ch.wallet[g][c] - amount[c]]
             u == [c \in Components |-> ch.allowance[m][g][c] - amount[c]]
             w == [ch.wallet EXCEPT ![g] = v]
             b == [ch.allowance[m] EXCEPT ![g] = u]
             a == [ch.allowance EXCEPT ![m] = b]
  <1>1. T \in Sound
    BY ChainFields, LenProperties
  <1>2. S \in Sound /\ S.stack = T.stack
    <2>1. \A c \in Components : T.balance[c] + amount[c] \in Nat
      BY <1>1, SoundFields, SMT
    <2>2. st \in Storage
      BY DEF Unscaled
    <2> QED BY <1>1, <2>1, <2>2 DEF Sound
  <1>3. w \in [Runs -> [Components -> Nat]]
    <2>1. ASSUME g \in Runs PROVE v \in [Components -> Nat]
      <3>1. ch.wallet[g] \in [Components -> Nat]
        BY <2>1, ChainFields
      <3>2. \A c \in Components : amount[c] = 0 \/ amount[c] <= ch.wallet[g][c]
        BY DEF Spendable
      <3> QED BY <3>1, <3>2, SMT
    <2> HIDE DEF v, g
    <2> QED BY <2>1, ChainFields, EntryEdited
  <1>4. a \in [{IssuanceModule, ManageModule} \X Runs -> [Runs -> [Components -> Int]]]
    <2> DEFINE P == {IssuanceModule, ManageModule} \X Runs
    <2>1. ASSUME m \in P PROVE b \in [Runs -> [Components -> Int]]
      <3>1. ch.allowance[m] \in [Runs -> [Components -> Int]]
        BY <2>1, ChainFields
      <3>2. ASSUME g \in Runs PROVE u \in [Components -> Int]
        BY <3>1, <3>2, SMT
      <3> HIDE DEF u, g, m
      <3> QED BY <3>1, <3>2, EntryEdited
    <2> HIDE DEF b, m
    <2> QED BY <2>1, ChainFields, EntryEdited
  <1>5. S = TokensIn(T, amount, st)
    BY DEF TokensIn
  <1>6. w = Debited(ch.wallet, g, amount)
    BY DEF Debited
  <1>7. a = Allowed(ch, t, amount)
    BY DEF Debited, Allowed
  <1> DEFINE n == MovedAndStored(ch, t, amount, st)
  <1> HIDE DEF S, w, a, n
  <1>8. n = Written(ch, s, S, w, a)
    BY <1>5, <1>6, <1>7, MoveInFields DEF n
  <1>9. Preserves(ch, n)
    BY <1>2, <1>3, <1>4, <1>8, OneSetEdited DEF Written
  <1> QED BY <1>9 DEF n

LEMMA ValidInDomain ==
    ASSUME NEW ch, ChainInv(ch), NEW t \in Tx, ValidAndInitialized(ch, t)
    PROVE  /\ t.set \in DOMAIN ch.sets /\ ch.sets[t.set] \in Sound
           /\ Storage_(ch, t) \in Storage /\ Unscaled(Storage_(ch, t))
           /\ Storage_(ch, t) = ch.sets[t.set].storage
  <1>1. t.set \in DOMAIN ch.sets
    BY TxFields DEF ValidAndInitialized, ValidSet, ChainInv
  <1>2. ch.sets[t.set] \in Sound
    BY <1>1, ChainFields, LenProperties
  <1> QED BY <1>1, <1>2, SoundFields DEF Storage_

\* Minting and burning leave the units alone.
LEMMA SupplyUnscaled ==
    ASSUME NEW st, Unscaled(st), NEW q \in Nat
    PROVE  /\ Unscaled(Mint(st, q))
           /\ CanBurn(st, q) => Unscaled(Burn(st, q))
  <1>1. st \in Storage
    BY DEF Unscaled
  <1>2. /\ Mint(st, q).virtualUnit = st.virtualUnit
        /\ Mint(st, q).positionMultiplier = st.positionMultiplier
        /\ Burn(st, q).virtualUnit = st.virtualUnit
        /\ Burn(st, q).positionMultiplier = st.positionMultiplier
    BY <1>1 DEF Mint, Burn, Storage
  <1> QED BY <1>1, <1>2, SupplyType DEF Unscaled

\* So does listing; a unit that is stored is positive or zero.
LEMMA EditsUnscaled ==
    ASSUME NEW st, Unscaled(st), NEW c \in Components, NEW u \in Nat
    PROVE  /\ Unscaled(AddComponent(st, c))
           /\ IsComponent(st, c) => Unscaled(RemoveComponent(st, c))
           /\ Unscaled(EditDefaultPositionUnit(st, c, u))
           /\ EditDefaultPositionUnit(st, c, u).virtualUnit = [st.virtualUnit EXCEPT ![c] = u]
  <1>1. st \in Storage
    BY DEF Unscaled
  <1>2. /\ AddComponent(st, c).virtualUnit = st.virtualUnit
        /\ AddComponent(st, c).positionMultiplier = st.positionMultiplier
        /\ RemoveComponent(st, c).virtualUnit = st.virtualUnit
        /\ RemoveComponent(st, c).positionMultiplier = st.positionMultiplier
    BY <1>1 DEF AddComponent, RemoveComponent, Storage
  <1>3. ConvertRealToVirtualUnit(st, u) = u
    BY UnscaledConversions
  <1>4. /\ EditDefaultPositionUnit(st, c, u).virtualUnit = [st.virtualUnit EXCEPT ![c] = u]
        /\ EditDefaultPositionUnit(st, c, u).positionMultiplier = st.positionMultiplier
    BY <1>1, <1>3 DEF EditDefaultPositionUnit, Storage
  <1>5. \A x \in Components : [st.virtualUnit EXCEPT ![c] = u][x] >= 0
    BY <1>1, StorageFields, SMT DEF Unscaled
  <1>6. Unscaled(AddComponent(st, c))
    BY <1>1, <1>2, AddComponentType DEF Unscaled
  <1>7. IsComponent(st, c) => Unscaled(RemoveComponent(st, c))
    BY <1>1, <1>2, RemoveComponentType DEF Unscaled, CanRemoveComponent
  <1>8. Unscaled(EditDefaultPositionUnit(st, c, u))
    <2>1. EditDefaultPositionUnit(st, c, u) \in Storage
      BY <1>1, EditDefaultPositionUnitType
    <2> QED BY <2>1, <1>4, <1>5 DEF Unscaled
  <1> QED BY <1>4, <1>6, <1>7, <1>8

LEMMA IssueInv ==
    ASSUME NEW ch, ChainInv(ch), NEW t \in Tx, CanIssue(ch, t)
    PROVE  Preserves(ch, Issue(ch, t))
  <1> DEFINE amount == [c \in Components |-> Taken(ch, t, c)]
             st == Mint(Storage_(ch, t), t.quantity)
  <1>1. ValidAndInitialized(ch, t)
    BY DEF CanIssue
  <1>2. t.set \in DOMAIN ch.sets /\ Unscaled(st)
    BY <1>1, ValidInDomain, SupplyUnscaled, TxFields
  <1>3. amount \in [Components -> Nat]
    BY <1>2, AmountsNat
  <1>4. \A c \in Components : amount[c] = 0 \/ Spendable(ch, t, c, amount[c])
    BY DEF CanIssue
  <1>5. MoveIn(ch, t, amount).sets[t.set].storage = Storage_(ch, t)
    <2>1. ch.sets[t.set] \in Sound
      BY <1>1, ValidInDomain
    <2> QED BY <2>1, <1>2 DEF MoveIn, Storage_, ChainInv, ChainType, Sound
  <1>6. Issue(ch, t) = MovedAndStored(ch, t, amount, st)
    BY <1>5 DEF Issue, MovedAndStored
  <1> HIDE DEF amount, st
  <1> QED BY <1>2, <1>3, <1>4, <1>6, MovedIn

LEMMA AddToSetTokenInv ==
    ASSUME NEW ch, ChainInv(ch), NEW t \in Tx, t.fn = "addToSetToken", CanAddToSetToken(ch, t)
    PROVE  Preserves(ch, AddToSetToken(ch, t))
  <1> DEFINE amount == [c \in Components |-> IF c = t.token THEN t.quantity ELSE 0]
             st == EditDefaultPositionUnit(AddComponent(Storage_(ch, t), t.token), t.token, t.quantity)
  <1>1. ValidAndInitialized(ch, t) /\ t.token \in Components /\ t.quantity \in Nat
    BY TxFields DEF CanAddToSetToken
  <1>2. t.set \in DOMAIN ch.sets /\ Unscaled(st)
    BY <1>1, ValidInDomain, EditsUnscaled
  <1>3. amount \in [Components -> Nat]
    BY <1>1
  <1>4. \A c \in Components : amount[c] = 0 \/ Spendable(ch, t, c, amount[c])
    BY DEF CanAddToSetToken
  <1>5. MoveIn(ch, t, amount).sets[t.set].storage = Storage_(ch, t)
    <2>1. ch.sets[t.set] \in Sound
      BY <1>1, ValidInDomain
    <2> QED BY <2>1, <1>2 DEF MoveIn, Storage_, ChainInv, ChainType, Sound
  <1>6. AddToSetToken(ch, t) = MovedAndStored(ch, t, amount, st)
    BY <1>5 DEF AddToSetToken, MovedAndStored
  <1> HIDE DEF amount, st
  <1> QED BY <1>2, <1>3, <1>4, <1>6, MovedIn

LEMMA RedeemFields ==
    ASSUME NEW ch, ChainInv(ch), NEW t \in Tx, t.set \in DOMAIN ch.sets
    PROVE  LET amount == [c \in Components |-> Paid(ch, t, c)]
           IN  Redeem(ch, t)
                = [ch EXCEPT !.sets[t.set] = TokensOut(ch.sets[t.set], amount,
                                                       Burn(ch.sets[t.set].storage, t.quantity)),
                             !.wallet = Credited(ch.wallet, ch.sets[t.set].tokens, amount)]
  <1> DEFINE s == t.set
             T == ch.sets[s]
             g == T.tokens
             amount == [c \in Components |-> Paid(ch, t, c)]
             B == [c \in Components |-> T.balance[c] - Paid(ch, t, c)]
             v == [c \in Components |-> ch.wallet[g][c] + Paid(ch, t, c)]
             st == Burn(T.storage, t.quantity)
             S == [T EXCEPT !.balance = B, !.storage = st]
             w == [ch.wallet EXCEPT ![g] = v]
  <1>1. T \in Sound
    BY ChainFields, LenProperties
  <1>2. Redeem(ch, t) = [ch EXCEPT !.sets[s] = S, !.wallet = w]
    <2> DEFINE T1 == [T EXCEPT !.balance = B]
               q == [ch.sets EXCEPT ![s] = T1]
               n == [ch EXCEPT !.sets = q, !.wallet = w]
    <2>1. Redeem(ch, t) = [n EXCEPT !.sets[s].storage = Burn(@, t.quantity)]
      BY Zenon DEF Redeem
    <2> HIDE DEF w, B
    <2>2. q[s] = T1 /\ \A X : [q EXCEPT ![s] = X] = [ch.sets EXCEPT ![s] = X]
      <3> HIDE DEF T1
      <3> QED OBVIOUS
    <2>3. n.sets = q /\ \A x : [n EXCEPT !.sets = x] = [ch EXCEPT !.sets = x, !.wallet = w]
      <3> HIDE DEF q
      <3> QED BY DEF ChainInv, ChainType
    <2> HIDE DEF n, q
    <2>4. n.sets[s] = T1 /\ T1.storage = T.storage
      BY <2>2, <2>3, <1>1 DEF Sound
    <2>5. [n.sets EXCEPT ![s] = [n.sets[s] EXCEPT !.storage = Burn(n.sets[s].storage, t.quantity)]]
            = [ch.sets EXCEPT ![s] = S]
      BY <2>2, <2>3, <2>4
    <2>6. [n EXCEPT !.sets[s].storage = Burn(@, t.quantity)] = [ch EXCEPT !.sets[s] = S, !.wallet = w]
      BY <2>3, <2>5
    <2> QED BY <2>1, <2>6
  <1>3. \A c \in Components : amount[c] = Paid(ch, t, c)
    OBVIOUS
  <1> HIDE DEF amount
  <1>4. S = TokensOut(T, amount, st) /\ w = Credited(ch.wallet, g, amount)
    <2>1. B = [c \in Components |-> T.balance[c] - amount[c]]
      BY <1>3
    <2>2. v = [c \in Components |-> ch.wallet[g][c] + amount[c]]
      BY <1>3
    <2> HIDE DEF B, v
    <2> QED BY <2>1, <2>2, Zenon DEF TokensOut, Credited
  <1> HIDE DEF S, w, st
  <1>5. Redeem(ch, t)
            = [ch EXCEPT !.sets[s] = TokensOut(T, amount, st), !.wallet = Credited(ch.wallet, g, amount)]
    BY <1>2, <1>4
  <1> QED BY <1>5 DEF amount, st

LEMMA RedeemInv ==
    ASSUME NEW ch, ChainInv(ch), NEW t \in Tx, CanRedeem(ch, t)
    PROVE  Preserves(ch, Redeem(ch, t))
  <1> DEFINE s == t.set
             T == ch.sets[s]
             g == T.tokens
             amount == [c \in Components |-> Paid(ch, t, c)]
             B == [c \in Components |-> T.balance[c] - amount[c]]
             v == [c \in Components |-> ch.wallet[g][c] + amount[c]]
             st == Burn(T.storage, t.quantity)
             S == TokensOut(T, amount, st)
             w == Credited(ch.wallet, g, amount)
  <1>1. /\ s \in DOMAIN ch.sets /\ T \in Sound /\ Unscaled(T.storage)
        /\ Storage_(ch, t) = T.storage
    BY ValidInDomain DEF CanRedeem
  <1>2. \A c \in Components : amount[c] \in Nat /\ amount[c] <= T.balance[c]
    BY <1>1, AmountsNat DEF CanRedeem
  <1>3. Unscaled(st)
    BY <1>1, SupplyUnscaled, TxFields DEF CanRedeem
  <1>4. S \in Sound /\ S.stack = T.stack
    <2>1. B \in [Components -> Nat]
      <3> HIDE DEF amount
      <3> QED BY <1>1, <1>2, SoundFields, SMT
    <2>2. st \in Storage
      BY <1>3 DEF Unscaled
    <2>3. S = [T EXCEPT !.balance = B, !.storage = st]
      BY DEF TokensOut
    <2> HIDE DEF B, st, S
    <2> QED BY <1>1, <1>3, <2>1, <2>2, <2>3 DEF Sound
  <1>5. w \in [Runs -> [Components -> Nat]]
    <2>1. ASSUME g \in Runs PROVE v \in [Components -> Nat]
      <3>1. ch.wallet[g] \in [Components -> Nat]
        BY <2>1, ChainFields
      <3> HIDE DEF amount
      <3> QED BY <1>2, <3>1, SMT
    <2>2. w = [ch.wallet EXCEPT ![g] = v]
      BY DEF Credited
    <2> HIDE DEF v, g, w
    <2> QED BY <2>1, <2>2, ChainFields, EntryEdited
  <1>6. Redeem(ch, t) = [ch EXCEPT !.sets[s] = S, !.wallet = w]
    BY <1>1, RedeemFields
  <1> HIDE DEF S, w
  <1>7. Preserves(ch, [ch EXCEPT !.sets[s] = S, !.wallet = w])
    BY <1>1, <1>4, <1>5, SetPaid
  <1> QED BY <1>6, <1>7

\* The storage once a quantity of a component is removed.
Removed(st, c, quantity) ==
    IF quantity = DefaultPositionRealUnit(st, c)
      THEN RemoveComponent(st, c) ELSE EditDefaultPositionUnit(st, c, quantity)

LEMMA RemoveFields ==
    ASSUME NEW ch, ChainInv(ch), NEW t \in Tx, t.set \in DOMAIN ch.sets
    PROVE  RemoveFromSetToken(ch, t)
            = [ch EXCEPT !.sets[t.set] =
                [ch.sets[t.set] EXCEPT !.balance = [ch.sets[t.set].balance EXCEPT ![t.token] = @ - t.quantity],
                                       !.storage = Removed(ch.sets[t.set].storage, t.token, t.quantity)]]
  <1> DEFINE s == t.set
             c == t.token
             T == ch.sets[s]
             B == [T.balance EXCEPT ![c] = @ - t.quantity]
             st == Removed(T.storage, c, t.quantity)
             S == [T EXCEPT !.balance = B, !.storage = st]
             T1 == [T EXCEPT !.balance = B]
             q == [ch.sets EXCEPT ![s] = T1]
             n == [ch EXCEPT !.sets = q]
  <1>1. T \in Sound
    BY ChainFields, LenProperties
  <1>2. RemoveFromSetToken(ch, t) = [n EXCEPT !.sets[s].storage = Removed(@, c, t.quantity)]
    BY DEF RemoveFromSetToken, Removed
  <1> HIDE DEF B
  <1>3. q[s] = T1 /\ \A X : [q EXCEPT ![s] = X] = [ch.sets EXCEPT ![s] = X]
    <2> HIDE DEF T1
    <2> QED OBVIOUS
  <1>4. n.sets = q /\ \A x : [n EXCEPT !.sets = x] = [ch EXCEPT !.sets = x]
    <2> HIDE DEF q
    <2> QED BY DEF ChainInv, ChainType
  <1> HIDE DEF n, q
  <1>5. n.sets[s] = T1 /\ T1.storage = T.storage
    BY <1>3, <1>4, <1>1 DEF Sound
  <1> DEFINE new == Removed(n.sets[s].storage, c, t.quantity)
  <1>6. new = st
    BY <1>5
  <1>7. RemoveFromSetToken(ch, t)
          = [n EXCEPT !.sets = [n.sets EXCEPT ![s] = [n.sets[s] EXCEPT !.storage = new]]]
    BY <1>2
  <1> HIDE DEF new, st
  <1>8. [n.sets EXCEPT ![s] = [n.sets[s] EXCEPT !.storage = new]] = [ch.sets EXCEPT ![s] = S]
    BY <1>3, <1>4, <1>5, <1>6
  <1>9. RemoveFromSetToken(ch, t) = [ch EXCEPT !.sets[s] = S]
    BY <1>4, <1>7, <1>8
  <1> QED BY <1>9 DEF st, B

\* What is removed is listed, and no more than the Set holds.
LEMMA RemoveFromSetTokenInv ==
    ASSUME NEW ch, ChainInv(ch), NEW t \in Tx, CanRemoveFromSetToken(ch, t)
    PROVE  Preserves(ch, RemoveFromSetToken(ch, t))
  <1> DEFINE s == t.set
             c == t.token
             T == ch.sets[s]
             B == [T.balance EXCEPT ![c] = @ - t.quantity]
             st == Removed(T.storage, c, t.quantity)
             S == [T EXCEPT !.balance = B, !.storage = st]
  <1>1. /\ s \in DOMAIN ch.sets /\ T \in Sound /\ Unscaled(T.storage) /\ T.storage \in Storage
        /\ Storage_(ch, t) = T.storage
    BY ValidInDomain DEF CanRemoveFromSetToken
  <1>2. IsComponent(T.storage, c) /\ t.quantity <= T.balance[c] /\ t.quantity \in Nat
    BY <1>1, TxFields DEF CanRemoveFromSetToken
  <1>3. c \in Components
    BY <1>1, <1>2, StorageFields, LenProperties DEF IsComponent, Contains
  <1>4. Unscaled(st)
    BY <1>1, <1>2, <1>3, EditsUnscaled DEF Removed
  <1>5. S \in Sound /\ S.stack = T.stack
    <2>1. T.balance[c] - t.quantity \in Nat
      BY <1>1, <1>2, <1>3, SoundFields, SMT
    <2>2. B \in [Components -> Nat]
      BY <1>1, <2>1, SoundFields
    <2>3. st \in Storage
      BY <1>4 DEF Unscaled
    <2> HIDE DEF B, st
    <2> QED BY <1>1, <1>4, <2>2, <2>3 DEF Sound
  <1>6. RemoveFromSetToken(ch, t) = [ch EXCEPT !.sets[s] = S]
    BY <1>1, RemoveFields
  <1> HIDE DEF S
  <1>7. Preserves(ch, [ch EXCEPT !.sets[s] = S])
    BY <1>1, <1>5, SetEdited
  <1> QED BY <1>6, <1>7

LEMMA DeployContractInv ==
    ASSUME NEW ch, ChainInv(ch), NEW t \in Tx
    PROVE  Preserves(ch, DeployContract(ch, t))
  <1> DEFINE code == ch.code \cup {<<t.kind, t.token, t.run>>}
             w == [ch.wallet EXCEPT ![t.run][t.token] = INITIAL_BALANCE]
             plain == [ch EXCEPT !.code = code]
             mock == [plain EXCEPT !.wallet[t.run][t.token] = INITIAL_BALANCE]
  <1>1. code \in SUBSET (Kinds \X Int \X Int)
    <2>1. t.kind \in Kinds /\ t.token \in Int /\ t.run \in Int
      BY TxFields
    <2>2. ch.code \in SUBSET (Kinds \X Int \X Int)
      BY ChainFields
    <2> QED BY <2>1, <2>2
  <1>2. w \in [Runs -> [Components -> Nat]]
    <2>1. t.run \in Runs /\ ch.wallet \in [Runs -> [Components -> Nat]]
      BY TxFields, ChainFields
    <2> QED BY <2>1, RunsAssumption
  <1>3. DeployContract(ch, t) = plain \/ DeployContract(ch, t) = mock
    BY DEF DeployContract
  <1>4. mock = [ch EXCEPT !.code = code, !.wallet = w]
    <2> HIDE DEF code
    <2> QED BY DEF ChainInv, ChainType
  <1> HIDE DEF code, w, mock
  <1>5. /\ plain \in ChainType /\ plain.controllers = ch.controllers /\ plain.sets = ch.sets
        /\ plain.created = ch.created /\ plain.log = ch.log
    BY <1>1 DEF ChainInv, ChainType
  <1>6. /\ mock \in ChainType /\ mock.controllers = ch.controllers /\ mock.sets = ch.sets
        /\ mock.created = ch.created /\ mock.log = ch.log
    BY <1>1, <1>2, <1>4 DEF ChainInv, ChainType
  <1> HIDE DEF plain
  <1> QED BY <1>3, <1>5, <1>6 DEF ChainInv, Preserves

\* A Controller's record is replaced by one of the same stack.
LEMMA ControllerEdited ==
    ASSUME NEW ch, ChainInv(ch), NEW r \in Runs, NEW C \in ControllerType,
           \A m \in C.modules : m[2] = r,
           \A s \in C.sets : s \in DOMAIN ch.sets /\ ch.sets[s].stack = r,
           ~C.initialized => C.sets = {}
    PROVE  Preserves(ch, [ch EXCEPT !.controllers[r] = C])
  <1> DEFINE k == [ch.controllers EXCEPT ![r] = C]
             n == [ch EXCEPT !.controllers = k]
  <1>1. k \in [Runs -> ControllerType]
    BY ChainFields
  <1>2. \A x \in Runs : k[x] = IF x = r THEN C ELSE ch.controllers[x]
    BY ChainFields
  <1> HIDE DEF k
  <1>3. /\ n \in ChainType /\ n.controllers = k /\ n.sets = ch.sets
        /\ n.created = ch.created /\ n.log = ch.log
    BY <1>1 DEF ChainInv, ChainType
  <1> HIDE DEF n
  <1>4. Preserves(ch, n)
    BY <1>2, <1>3 DEF ChainInv, Preserves
  <1> QED BY <1>4 DEF n, k

LEMMA InitializeControllerInv ==
    ASSUME NEW ch, ChainInv(ch), NEW t \in Tx, t.fn = "initialize"
    PROVE  Preserves(ch, InitializeController(ch, t))
  <1> DEFINE M == {<<m, t.run>> : m \in t.modules}
             C == [initialized |-> TRUE, hasFactory |-> TRUE, modules |-> M, sets |-> {}]
  <1>1. M \in SUBSET (Kinds \X Int) /\ \A m \in M : m[2] = t.run
    BY TxFields, RunsAssumption
  <1>2. InitializeController(ch, t) = [ch EXCEPT !.controllers[t.run] = C]
    BY DEF InitializeController
  <1> HIDE DEF M
  <1>3. C \in ControllerType /\ C.modules = M /\ C.sets = {} /\ C.initialized
    BY <1>1 DEF ControllerType
  <1> HIDE DEF C
  <1> QED BY <1>1, <1>2, <1>3, ControllerEdited, TxFields

LEMMA AddModuleInv ==
    ASSUME NEW ch, ChainInv(ch), NEW t \in Tx
    PROVE  Preserves(ch, AddModule(ch, t))
  <1> DEFINE r == t.run
             C == [ch.controllers[r] EXCEPT !.modules = @ \cup {<<t.kind, r>>}]
  <1>1. r \in Runs /\ r \in Int /\ ch.controllers[r] \in ControllerType
    <2>1. r \in Runs /\ r \in Int
      BY TxFields
    <2>2. ch.controllers \in [Runs -> ControllerType]
      BY ChainFields
    <2> QED BY <2>1, <2>2
  <1>2. /\ C \in ControllerType
        /\ C.modules = ch.controllers[r].modules \cup {<<t.kind, r>>}
        /\ C.sets = ch.controllers[r].sets /\ C.initialized = ch.controllers[r].initialized
    BY <1>1, TxFields DEF ControllerType
  <1>3. AddModule(ch, t) = [ch EXCEPT !.controllers[r] = C]
    BY DEF AddModule
  <1>4. /\ \A m \in C.modules : m[2] = r
        /\ \A s \in C.sets : s \in DOMAIN ch.sets /\ ch.sets[s].stack = r
        /\ ~C.initialized => C.sets = {}
    BY <1>1, <1>2 DEF ChainInv
  <1> HIDE DEF C
  <1>5. Preserves(ch, [ch EXCEPT !.controllers[r] = C])
    BY <1>1, <1>2, <1>4, ControllerEdited
  <1> QED BY <1>3, <1>5

LEMMA NewSetTokenSound ==
    ASSUME NEW t \in Tx, t.fn \in Creations, \A m \in t.modules : m[2] = t.stack
    PROVE  NewSetToken(t) \in Sound /\ NewSetToken(t).stack = t.stack
  <1> DEFINE st == InitialStorage([i \in Components |-> i], _units)
  <1>1. N \in Nat /\ Components = 1 .. N
    BY ComponentsAssumption DEF N
  <1>2. [i \in Components |-> i] \in Seq(Components)
    BY <1>1, IsASeq
  <1>3. _units \in [Components -> Int] /\ \A c \in Components : _units[c] >= 0
    BY <1>1, PreciseUnitAssumption, SMT DEF _units, ether
  <1>4. st \in Storage
    BY <1>2, <1>3, InitialStorageType
  <1>5. Unscaled(st)
    BY <1>3, <1>4 DEF Unscaled, InitialStorage
  <1>6. NewSetToken(t) = [stack |-> t.stack, tokens |-> t.tokens, pending |-> t.modules,
                          initialized |-> {}, isLocked |-> FALSE, storage |-> st,
                          balance |-> [c \in Components |-> 0]]
    BY DEF NewSetToken
  <1> HIDE DEF st
  <1> QED BY <1>4, <1>5, <1>6, TxFields, RunsAssumption DEF Sound

Register(controllers, r, s) == [controllers EXCEPT ![r].sets = @ \cup {s}]

LEMMA Registered ==
    ASSUME NEW f, f \in [Runs -> ControllerType], NEW r, r \in Runs, NEW s, s \in Int, NEW k,
           k = Register(f, r, s)
    PROVE  /\ k \in [Runs -> ControllerType]
           /\ \A x \in Runs :
                /\ k[x].modules = f[x].modules
                /\ k[x].initialized = f[x].initialized /\ k[x].hasFactory = f[x].hasFactory
                /\ x = r => k[x].sets = f[x].sets \cup {s}
                /\ x # r => k[x].sets = f[x].sets
  <1> DEFINE C == [f[r] EXCEPT !.sets = @ \cup {s}]
  <1>1. /\ C \in ControllerType /\ C.modules = f[r].modules /\ C.initialized = f[r].initialized
        /\ C.hasFactory = f[r].hasFactory /\ C.sets = f[r].sets \cup {s}
    BY DEF ControllerType
  <1>2. k = [f EXCEPT ![r] = C]
    BY DEF Register
  <1> HIDE DEF C
  <1>3. /\ k \in [Runs -> ControllerType]
        /\ \A x \in Runs : k[x] = IF x = r THEN C ELSE f[x]
    BY <1>1, <1>2
  <1> QED BY <1>1, <1>3

\* Either creation appends a Set; only the creator's registers it.
LEMMA SetCreated ==
    ASSUME NEW ch, ChainInv(ch), NEW S \in Sound,
           NEW n, n \in ChainType, n.sets = Append(ch.sets, S),
           \/ n.controllers = ch.controllers
           \/ /\ S.stack \in Runs /\ ch.controllers[S.stack].initialized
              /\ n.controllers = Register(ch.controllers, S.stack, Len(ch.sets) + 1)
    PROVE  ChainInv(n)
  <1>1. /\ DOMAIN ch.sets = 1 .. Len(ch.sets) /\ Len(ch.sets) \in Nat
        /\ DOMAIN n.sets = 1 .. Len(ch.sets) + 1
        /\ \A s \in DOMAIN ch.sets : s \in DOMAIN n.sets /\ n.sets[s] = ch.sets[s]
        /\ n.sets[Len(ch.sets) + 1] = S /\ Len(ch.sets) + 1 \in DOMAIN n.sets
    BY ChainFields, AppendProperties, LenProperties
  <1>2. CASE n.controllers = ch.controllers
    BY <1>1, <1>2 DEF ChainInv
  <1>3. CASE /\ S.stack \in Runs /\ ch.controllers[S.stack].initialized
             /\ n.controllers = Register(ch.controllers, S.stack, Len(ch.sets) + 1)
    <2> DEFINE id == Len(ch.sets) + 1
               f == ch.controllers
               k == n.controllers
               r0 == S.stack
    <2>1. /\ f \in [Runs -> ControllerType] /\ id \in Int /\ r0 \in Runs /\ f[r0].initialized
          /\ k = Register(f, r0, id)
      BY <1>1, <1>3, ChainFields
    <2>2. /\ id \in DOMAIN n.sets /\ n.sets[id].stack = r0
          /\ \A s \in DOMAIN ch.sets : s \in DOMAIN n.sets /\ n.sets[s] = ch.sets[s]
      BY <1>1
    <2>3. \A r \in Runs :
            /\ \A m \in f[r].modules : m[2] = r
            /\ \A s \in f[r].sets : s \in DOMAIN ch.sets /\ ch.sets[s].stack = r
            /\ ~f[r].initialized => f[r].sets = {}
      BY DEF ChainInv
    <2>4. ASSUME \A r \in Runs :
                    /\ \A m \in k[r].modules : m[2] = r
                    /\ \A s \in k[r].sets : s \in DOMAIN n.sets /\ n.sets[s].stack = r
                    /\ ~k[r].initialized => k[r].sets = {}
          PROVE  ChainInv(n)
      BY <2>4 DEF ChainInv
    <2> HIDE DEF id, f, k, r0
    <2>5. \A r \in Runs : k[r].modules = f[r].modules /\ k[r].initialized = f[r].initialized
      BY <2>1, Registered
    <2>6. \A r \in Runs : (r = r0 => k[r].sets = f[r].sets \cup {id}) /\ (r # r0 => k[r].sets = f[r].sets)
      BY <2>1, Registered
    <2>7. ASSUME NEW r \in Runs
          PROVE  /\ \A m \in k[r].modules : m[2] = r
                 /\ \A s \in k[r].sets : s \in DOMAIN n.sets /\ n.sets[s].stack = r
                 /\ ~k[r].initialized => k[r].sets = {}
      <3>1. CASE r = r0
        BY <3>1, <2>1, <2>2, <2>3, <2>5, <2>6
      <3>2. CASE r # r0
        BY <3>2, <2>1, <2>2, <2>3, <2>5, <2>6
      <3> QED BY <3>1, <3>2
    <2> QED BY <2>4, <2>7
  <1> QED BY <1>2, <1>3

\* A creation adds one Set, and is recorded for its run.
Grows(ch, t, n) ==
    /\ ChainInv(n)
    /\ Len(n.sets) = Len(ch.sets) + 1
    /\ n.created = [ch.created EXCEPT ![t.run] = Len(ch.sets) + 1]
    /\ n.log = IF t.fn = "create" THEN Len(ch.sets) + 1 ELSE ch.log

LEMMA CreateInv ==
    ASSUME NEW ch, ChainInv(ch), NEW t \in Tx, t.fn = "create", CanCreate(ch, t)
    PROVE  Grows(ch, t, Create(ch, t)) /\ Create(ch, t).sets = Append(ch.sets, NewSetToken(t))
  <1> DEFINE id == Len(ch.sets) + 1
             S == NewSetToken(t)
             n == Create(ch, t)
  <1>1. S \in Sound /\ S.stack = t.stack
    BY TxFields, NewSetTokenSound DEF CanCreate, ChainInv, Creations
  <1>2. id \in Int /\ Append(ch.sets, S) \in Seq(Sound)
    BY <1>1, ChainFields, LenProperties, AppendProperties
  <1>3. n = [ch EXCEPT !.sets = Append(ch.sets, S), !.controllers[t.stack].sets = @ \cup {id},
                       !.created[t.run] = id, !.log = id]
    BY DEF Create
  <1> HIDE DEF S, id, n
  <1>4. /\ n.sets = Append(ch.sets, S)
        /\ n.controllers = Register(ch.controllers, t.stack, id)
        /\ n.created = [ch.created EXCEPT ![t.run] = id]
        /\ n.log = id
    BY <1>3 DEF ChainInv, ChainType, Register
  <1>5. n.controllers \in [Runs -> ControllerType] /\ n.created \in [Runs -> Int]
    <2>1. t.stack \in Runs /\ t.run \in Runs /\ ch.controllers \in [Runs -> ControllerType]
          /\ ch.created \in [Runs -> Int]
      BY TxFields, ChainFields
    <2>2. n.controllers \in [Runs -> ControllerType]
      BY <1>2, <1>4, <2>1, Registered
    <2>3. n.created \in [Runs -> Int]
      BY <1>2, <1>4, <2>1
    <2> QED BY <2>2, <2>3
  <1>6. n \in ChainType
    <2>1. /\ DOMAIN n = DOMAIN ch
          /\ n.code = ch.code /\ n.wallet = ch.wallet /\ n.allowance = ch.allowance
          /\ n.reverted = ch.reverted
      BY <1>3 DEF ChainInv, ChainType
    <2> QED BY <1>2, <1>3, <1>4, <1>5 DEF ChainInv, ChainType
  <1>7. S.stack \in Runs /\ ch.controllers[S.stack].initialized
    BY <1>1, TxFields DEF CanCreate
  <1>8. n.controllers = Register(ch.controllers, S.stack, Len(ch.sets) + 1)
    BY <1>1, <1>4 DEF id
  <1>9. ChainInv(n)
    BY <1>1, <1>4, <1>6, <1>7, <1>8, SetCreated
  <1>10. Len(n.sets) = Len(ch.sets) + 1 /\ id = Len(ch.sets) + 1
    BY <1>1, <1>4, ChainFields, AppendProperties DEF id
  <1>11. Grows(ch, t, n)
    BY <1>4, <1>9, <1>10 DEF Grows
  <1> QED BY <1>4, <1>11 DEF S, n

LEMMA DeploySetTokenInv ==
    ASSUME NEW ch, ChainInv(ch), NEW t \in Tx, t.fn = "deploySetToken"
    PROVE  /\ Grows(ch, t, DeploySetToken(ch, t))
           /\ DeploySetToken(ch, t).sets = Append(ch.sets, NewSetToken(t))
  <1> DEFINE id == Len(ch.sets) + 1
             S == NewSetToken(t)
             n == DeploySetToken(ch, t)
  <1>1. S \in Sound
    BY TxFields, NewSetTokenSound DEF Creations
  <1>2. id \in Int /\ Append(ch.sets, S) \in Seq(Sound)
    BY <1>1, ChainFields, LenProperties, AppendProperties
  <1>3. n = [ch EXCEPT !.sets = Append(ch.sets, S), !.created[t.run] = id]
    BY DEF DeploySetToken
  <1> HIDE DEF S, id, n
  <1>4. /\ n.sets = Append(ch.sets, S)
        /\ n.controllers = ch.controllers
        /\ n.created = [ch.created EXCEPT ![t.run] = id]
        /\ n.log = ch.log
    BY <1>3 DEF ChainInv, ChainType
  <1>5. n.created \in [Runs -> Int]
    <2>1. ch.created \in [Runs -> Int]
      BY ChainFields
    <2> QED BY <1>2, <1>4, <2>1
  <1>6. n \in ChainType
    BY <1>2, <1>3, <1>4, <1>5 DEF ChainInv, ChainType
  <1>7. ChainInv(n)
    BY <1>1, <1>4, <1>6, SetCreated
  <1>8. Len(n.sets) = Len(ch.sets) + 1 /\ id = Len(ch.sets) + 1
    BY <1>1, <1>4, ChainFields, AppendProperties DEF id
  <1>9. Grows(ch, t, n)
    BY <1>4, <1>7, <1>8 DEF Grows
  <1> QED BY <1>4, <1>9 DEF S, n

LEMMA ApproveInv ==
    ASSUME NEW ch, ChainInv(ch), NEW t \in Tx
    PROVE  Preserves(ch, Approve(ch, t))
  <1> DEFINE m == Module(t)
             P == {IssuanceModule, ManageModule} \X Runs
             c == [ch.allowance[m][t.tokens] EXCEPT ![t.token] = t.quantity]
             b == [ch.allowance[m] EXCEPT ![t.tokens] = c]
             a == [ch.allowance EXCEPT ![m] = b]
             n == [ch EXCEPT !.allowance = a]
  <1>1. ch.allowance \in [P -> [Runs -> [Components -> Int]]]
    BY ChainFields
  <1>2. m \in P => b \in [Runs -> [Components -> Int]]
    <2>1. ASSUME m \in P, t.tokens \in Runs PROVE c \in [Components -> Int]
      <3>1. ch.allowance[m][t.tokens] \in [Components -> Int]
        BY <1>1, <2>1
      <3>2. t.quantity \in Int
        BY TxFields
      <3> QED BY <3>1, <3>2, EntryEdited
    <2> HIDE DEF c, m
    <2>2. ASSUME m \in P PROVE b \in [Runs -> [Components -> Int]]
      BY <1>1, <2>1, <2>2, EntryEdited
    <2> QED BY <2>2
  <1>3. a \in [P -> [Runs -> [Components -> Int]]]
    <2> HIDE DEF b, m, P
    <2> QED BY <1>1, <1>2, EntryEdited
  <1>4. Approve(ch, t) = n
    BY DEF Approve
  <1> HIDE DEF a
  <1>5. /\ n \in ChainType /\ n.controllers = ch.controllers /\ n.sets = ch.sets
        /\ n.created = ch.created /\ n.log = ch.log
    BY <1>3 DEF ChainInv, ChainType
  <1> QED BY <1>4, <1>5 DEF ChainInv, Preserves

LEMMA LogReset ==
    ASSUME NEW ch, ChainInv(ch), NEW log \in Int, NEW n, n = [ch EXCEPT !.log = log]
    PROVE  /\ ChainInv(n) /\ n.sets = ch.sets /\ n.created = ch.created /\ n.log = log
           /\ n.controllers = ch.controllers /\ n.reverted = ch.reverted
  BY DEF ChainInv, ChainType

LEMMA RevertRecorded ==
    ASSUME NEW ch, ChainInv(ch), NEW t \in Tx, NEW n, n = [ch EXCEPT !.reverted = @ \cup {t}]
    PROVE  /\ ChainInv(n) /\ n.sets = ch.sets /\ n.created = ch.created /\ n.log = ch.log
           /\ n.controllers = ch.controllers
  BY DEF ChainInv, ChainType

LEMMA EffectInv ==
    ASSUME NEW ch, ChainInv(ch), NEW t \in Tx, Succeeds(ch, t)
    PROVE  IF t.fn \in Creations THEN Grows(ch, t, Effect(ch, t)) ELSE Preserves(ch, Effect(ch, t))
  <1>1. t.fn \in Fns
    BY TxFields
  <1>2. CASE t.fn = "deploy"
    BY <1>2, DeployContractInv DEF Effect, Creations
  <1>3. CASE t.fn = "initialize"
    BY <1>3, InitializeControllerInv DEF Effect, Creations
  <1>4. CASE t.fn = "addModule"
    BY <1>4, AddModuleInv DEF Effect, Creations
  <1>5. CASE t.fn = "create"
    BY <1>5, CreateInv DEF Effect, Succeeds, Creations
  <1>6. CASE t.fn = "deploySetToken"
    BY <1>6, DeploySetTokenInv DEF Effect, Creations
  <1>7. CASE t.fn = "initializeModule"
    BY <1>7, InitializeModuleInv DEF Effect, Succeeds, Creations
  <1>8. CASE t.fn = "lockSetToken"
    BY <1>8, LockInv DEF Effect, Succeeds, CanLock, Creations
  <1>9. CASE t.fn = "unlockSetToken"
    BY <1>9, LockInv DEF Effect, Succeeds, CanUnlock, Creations
  <1>10. CASE t.fn = "approve"
    BY <1>10, ApproveInv DEF Effect, Creations
  <1>11. CASE t.fn = "issue"
    BY <1>11, IssueInv DEF Effect, Succeeds, Creations
  <1>12. CASE t.fn = "redeem"
    BY <1>12, RedeemInv DEF Effect, Succeeds, Creations
  <1>13. CASE t.fn = "removeFromSetToken"
    BY <1>13, RemoveFromSetTokenInv DEF Effect, Succeeds, Creations
  <1>14. CASE t.fn = "addToSetToken"
    BY <1>14, AddToSetTokenInv DEF Effect, Succeeds, Creations
  <1>15. CASE t.fn \in {"", "approveController"}
    BY <1>15 DEF Effect, Creations, Preserves
  <1> QED BY <1>1, <1>2, <1>3, <1>4, <1>5, <1>6, <1>7, <1>8, <1>9, <1>10, <1>11, <1>12, <1>13,
             <1>14, <1>15 DEF Fns

\* A block takes one transaction: the log is that of a creation or none.
Mined(ch, t, n) ==
    /\ ChainInv(n)
    /\ \/ n.created = ch.created /\ n.log = NoSet /\ Len(n.sets) = Len(ch.sets)
       \/ /\ t.fn \in Creations
          /\ Len(n.sets) = Len(ch.sets) + 1
          /\ n.created = [ch.created EXCEPT ![t.run] = Len(ch.sets) + 1]
          /\ n.log = IF t.fn = "create" THEN Len(ch.sets) + 1 ELSE NoSet

LEMMA BlockInv ==
    ASSUME NEW ch, ChainInv(ch), NEW t \in Tx, NEW n, n = Block(ch, t)
    PROVE  Mined(ch, t, n)
  <1> DEFINE c == [ch EXCEPT !.log = NoSet]
  <1>0. c = [ch EXCEPT !.log = NoSet] /\ NoSet \in Int
    BY DEF NoSet
  <1> HIDE DEF c
  <1>1. ChainInv(c) /\ c.sets = ch.sets /\ c.log = NoSet /\ c.created = ch.created
    BY <1>0, LogReset
  <1>2. CASE Succeeds(c, t)
    <2>1. n = Effect(c, t)
      BY <1>2 DEF Block, Execute, c
    <2>2. IF t.fn \in Creations THEN Grows(c, t, n) ELSE Preserves(c, n)
      BY <1>1, <1>2, <2>1, EffectInv
    <2> QED BY <1>1, <2>2 DEF Grows, Preserves, Mined
  <1>3. CASE ~Succeeds(c, t)
    <2>1. n = [c EXCEPT !.reverted = @ \cup {t}]
      BY <1>3 DEF Block, Execute, c
    <2>2. ChainInv(n) /\ n.sets = c.sets /\ n.created = c.created /\ n.log = c.log
      BY <1>1, <2>1, RevertRecorded
    <2> QED BY <1>1, <2>2 DEF Mined
  <1> QED BY <1>2, <1>3

LEMMA InitialChainInv ==
    ChainInv(InitialChain) /\ Len(InitialChain.sets) = 0
  <1> DEFINE n == InitialChain
  <1>1. /\ n.code = {} /\ n.controllers = [r \in Runs |-> FreshController] /\ n.sets = << >>
        /\ n.created = [r \in Runs |-> NoSet] /\ n.log = NoSet
        /\ n.wallet = [r \in Runs |-> [c \in Components |-> 0]] /\ n.reverted = {}
        /\ n.allowance = [s \in {IssuanceModule, ManageModule} \X Runs |->
                            [r \in Runs |-> [c \in Components |-> 0]]]
    BY DEF InitialChain
  <1>2. FreshController \in ControllerType /\ FreshController.modules = {} /\ FreshController.sets = {}
    BY DEF FreshController, ControllerType
  <1>3. << >> \in Seq(Sound) /\ Len(<< >>) = 0
    BY EmptySeq
  <1>4. n \in ChainType
    <2>1. NoSet \in Int
      BY DEF NoSet
    <2> QED BY <1>2, <1>3, <2>1 DEF ChainType, InitialChain
  <1> HIDE DEF n
  <1> QED BY <1>1, <1>2, <1>3, <1>4 DEF ChainInv, n

-----------------------------------------------------------------------------
(* The scripts *)

InstructionType ==
    [op : Ops, fn : Fns, kind : Kinds, token : Int, quantity : Nat \cup {Owned},
     modules : SUBSET Kinds, checked : BOOLEAN]

\* What the transactions need of the instructions they are made from.
Any ==
    {i \in InstructionType :
        /\ i.op \notin {"call", "deploy"} => i.fn \notin Creations
        /\ i.fn # "initialize" => i.modules \subseteq {IssuanceModule, ManageModule}
        /\ i.fn = "deploySetToken" => i.kind = "controller" /\ i.modules = {IssuanceModule}
        /\ i.fn = "addToSetToken" => i.token \in Components
        /\ i.fn = "redeem" => i.op = "call" /\ i.checked}

Plain == {i \in Any : i.fn \notin Creations /\ i.op \notin {"wait", "getCreated", "attach"}}

\* Scripts 04 and 05 are given no contract but the issuance module.
Narrow == {i \in Plain : i.kind \in Printable => i.kind = IssuanceModule}

LEMMA EtherNat ==
    /\ \A n \in Nat : ether(n) \in Nat
    /\ halfEther \in Nat /\ N \in Nat /\ N > 1 /\ Components = 1 .. N
    /\ \A i \in Components : i \in Nat /\ _units[i] \in Nat /\ _units[i] = ether(i)
  <1>1. \A n \in Nat : ether(n) \in Nat
    BY PreciseUnitAssumption, SMT DEF ether
  <1>2. halfEther \in Nat
    BY PreciseUnitAssumption, DivNat, SMT DEF halfEther
  <1>3. N \in Nat \ {0, 1} /\ Components = 1 .. N
    BY ComponentsAssumption DEF N
  <1>4. \A i \in Components : i \in Nat
    BY <1>3, SMT
  <1>5. N \in Nat /\ N > 1
    BY <1>3, SMT
  <1> QED BY <1>1, <1>2, <1>3, <1>4, <1>5 DEF _units

LEMMA InstructionFields ==
    /\ Instruction \in InstructionType
    /\ Instruction.op = "" /\ Instruction.fn = "" /\ Instruction.kind = ""
    /\ Instruction.token = 0 /\ Instruction.quantity = 0 /\ Instruction.modules = {}
    /\ Instruction.checked = TRUE
  <1>1. "" \in Ops /\ "" \in Fns /\ "" \in Kinds
    BY DEF Ops, Fns, Kinds
  <1>2. /\ Instruction.op = "" /\ Instruction.fn = "" /\ Instruction.kind = ""
        /\ Instruction.token = 0 /\ Instruction.quantity = 0 /\ Instruction.modules = {}
        /\ Instruction.checked = TRUE
    BY DEF Instruction
  <1>3. 0 \in Int /\ 0 \in Nat \cup {Owned} /\ {} \in SUBSET Kinds /\ TRUE \in BOOLEAN
    OBVIOUS
  <1>4. Instruction \in InstructionType
    BY <1>1, <1>3 DEF Instruction, InstructionType
  <1> QED BY <1>2, <1>4

IsCall(i, fn, kind) ==
    /\ i \in InstructionType /\ i.op = "call" /\ i.fn = fn /\ i.kind = kind /\ i.modules = {}
    /\ i.checked

LEMMA CallFields ==
    \A fn \in Fns, kind \in Kinds : IsCall(Call(fn, kind), fn, kind)
  <1> TAKE fn \in Fns, kind \in Kinds
  <1>1. "call" \in Ops
    BY DEF Ops
  <1> QED BY <1>1, InstructionFields DEF Call, InstructionType, IsCall

LEMMA DeployFields ==
    ASSUME NEW kind \in Kinds
    PROVE  /\ Deploy(kind) \in InstructionType
           /\ Deploy(kind).op = "deploy" /\ Deploy(kind).fn = "deploy" /\ Deploy(kind).kind = kind
           /\ Deploy(kind).token = 0 /\ Deploy(kind).quantity = 0
           /\ Deploy(kind).modules = {} /\ Deploy(kind).checked = FALSE
  <1>1. "deploy" \in Ops /\ "deploy" \in Fns
    BY DEF Ops, Fns
  <1> QED BY <1>1, InstructionFields DEF Deploy, InstructionType

\* Membership by the fields.
LEMMA PlainFields ==
    ASSUME NEW i \in InstructionType,
           i.fn \notin Creations, i.op \notin {"wait", "getCreated", "attach"},
           i.fn = "addToSetToken" => i.token \in Components, i.fn = "initialize" \/ i.modules = {},
           i.fn = "redeem" => i.op = "call" /\ i.checked
    PROVE  i \in Plain /\ i \in Any /\ ((i.kind \in Printable => i.kind = IssuanceModule) => i \in Narrow)
  BY DEF Plain, Any, Narrow, Creations

LEMMA DeployPlain ==
    ASSUME NEW kind \in Kinds
    PROVE  Deploy(kind) \in Plain /\ AwaitDeployed(kind) \in Plain
  <1> DEFINE d == Deploy(kind)
             a == AwaitDeployed(kind)
  <1>1. /\ d \in InstructionType /\ d.op = "deploy" /\ d.fn = "deploy" /\ d.kind = kind
        /\ d.modules = {}
    BY DeployFields
  <1>2. a = [d EXCEPT !.op = "deployed"] /\ "deployed" \in Ops
    BY DEF AwaitDeployed, Deployed, Ops
  <1> HIDE DEF d, a
  <1>3. a \in InstructionType /\ a.op = "deployed" /\ a.fn = "deploy" /\ a.modules = {}
    BY <1>1, <1>2 DEF InstructionType
  <1>4. d \in Plain
    BY <1>1, PlainFields DEF Creations
  <1>5. a \in Plain
    BY <1>3, PlainFields DEF Creations
  <1> QED BY <1>4, <1>5 DEF d, a

LEMMA AwaitIssuanceNarrow ==
    AwaitDeployed(IssuanceModule) \in Narrow
  <1> DEFINE d == Deploy(IssuanceModule)
             a == AwaitDeployed(IssuanceModule)
  <1>1. IssuanceModule \in Kinds
    BY DEF IssuanceModule, Kinds
  <1>2. d \in InstructionType /\ d.kind = IssuanceModule
    BY <1>1, DeployFields
  <1>3. a = [d EXCEPT !.op = "deployed"]
    BY DEF AwaitDeployed, Deployed
  <1> HIDE DEF d, a
  <1>4. a.kind = IssuanceModule
    BY <1>2, <1>3 DEF InstructionType
  <1> QED BY <1>1, <1>4, DeployPlain DEF Narrow, a

LEMMA TokenMockPlain ==
    ASSUME NEW i \in Components
    PROVE  deployTokenMock(i) \in Plain /\ Deployed(deployTokenMock(i)) \in Plain
  <1> DEFINE d == Deploy("token")
             m == deployTokenMock(i)
             a == Deployed(m)
  <1>1. "token" \in Kinds /\ "deployed" \in Ops /\ i \in Int
    BY EtherNat DEF Kinds, Ops
  <1>2. d \in InstructionType /\ d.op = "deploy" /\ d.fn = "deploy" /\ d.modules = {}
    BY <1>1, DeployFields
  <1>3. m = [d EXCEPT !.token = i]
    BY DEF deployTokenMock
  <1>4. a = [m EXCEPT !.op = "deployed"]
    BY DEF Deployed
  <1> HIDE DEF d, m, a
  <1>5. m \in InstructionType /\ m.op = "deploy" /\ m.fn = "deploy" /\ m.modules = {}
    BY <1>1, <1>2, <1>3 DEF InstructionType
  <1>6. a \in InstructionType /\ a.op = "deployed" /\ a.fn = "deploy" /\ a.modules = {}
    BY <1>1, <1>4, <1>5 DEF InstructionType
  <1>7. m \in Plain
    BY <1>5, PlainFields DEF Creations
  <1>8. a \in Plain
    BY <1>6, PlainFields DEF Creations
  <1> QED BY <1>7, <1>8 DEF m, a

\* Calls without arguments.
LEMMA CallPlain ==
    ASSUME NEW fn \in Fns, NEW kind \in Kinds, fn \notin Creations, fn # "addToSetToken"
    PROVE  /\ Call(fn, kind) \in Plain
           /\ (kind \in Printable => kind = IssuanceModule) => Call(fn, kind) \in Narrow
  <1> DEFINE i == Call(fn, kind)
  <1>1. IsCall(i, fn, kind)
    BY CallFields
  <1> HIDE DEF i
  <1>2. i \in Plain /\ ((kind \in Printable => kind = IssuanceModule) => i \in Narrow)
    BY <1>1, PlainFields DEF IsCall
  <1> QED BY <1>2 DEF i

\* Calls with a token and a quantity.
CallWith(fn, kind, x, q) == [Call(fn, kind) EXCEPT !.token = x, !.quantity = q]

LEMMA ArgumentsPlain ==
    ASSUME NEW fn \in Fns, NEW kind \in Kinds, fn \notin Creations,
           NEW x \in Components, NEW q \in Nat
    PROVE  /\ CallWith(fn, kind, x, q) \in Plain
           /\ (kind \in Printable => kind = IssuanceModule) => CallWith(fn, kind, x, q) \in Narrow
  <1> DEFINE c == Call(fn, kind)
             i == CallWith(fn, kind, x, q)
  <1>1. IsCall(c, fn, kind)
    BY CallFields
  <1>2. x \in Int
    BY EtherNat
  <1>3. i = [c EXCEPT !.token = x, !.quantity = q]
    BY DEF CallWith
  <1> HIDE DEF c, i
  <1>4. /\ i \in InstructionType /\ i.op = "call" /\ i.fn = fn /\ i.kind = kind /\ i.token = x
        /\ i.modules = {} /\ i.checked
    BY <1>1, <1>2, <1>3 DEF InstructionType, IsCall
  <1>5. i \in Plain /\ ((kind \in Printable => kind = IssuanceModule) => i \in Narrow)
    BY <1>4, PlainFields
  <1> QED BY <1>5 DEF i

LEMMA ApproveAddRemovePlain ==
    ASSUME NEW x \in Components, NEW q \in Nat
    PROVE  /\ approve(IssuanceModule, x, q) \in Narrow /\ approve(IssuanceModule, x, q) \in Plain
           /\ approve(ManageModule, x, q) \in Plain
           /\ removeFromSetToken(x, q) \in Plain /\ addToSetToken(x, q) \in Plain
  <1>1. /\ "approve" \in Fns /\ "removeFromSetToken" \in Fns /\ "addToSetToken" \in Fns
        /\ IssuanceModule \in Kinds /\ ManageModule \in Kinds
        /\ "approve" \notin Creations /\ "removeFromSetToken" \notin Creations
        /\ "addToSetToken" \notin Creations
    BY DEF Fns, Kinds, IssuanceModule, ManageModule, Creations
  <1>2. /\ approve(IssuanceModule, x, q) = CallWith("approve", IssuanceModule, x, q)
        /\ approve(ManageModule, x, q) = CallWith("approve", ManageModule, x, q)
        /\ removeFromSetToken(x, q) = CallWith("removeFromSetToken", ManageModule, x, q)
        /\ addToSetToken(x, q) = CallWith("addToSetToken", ManageModule, x, q)
    BY DEF approve, removeFromSetToken, addToSetToken, CallWith
  <1> QED BY <1>1, <1>2, ArgumentsPlain

LEMMA IssueRedeemPlain ==
    ASSUME NEW q \in Nat \cup {Owned}
    PROVE  /\ redeem(q) \in Narrow /\ redeem(q) \in Plain
           /\ q \in Nat => /\ issue(q) \in Narrow /\ issue(q) \in Plain
                           /\ [issue(q) EXCEPT !.checked = TRUE] \in Plain
  <1> DEFINE c == Call("issue", IssuanceModule)
             d == Call("redeem", IssuanceModule)
             i == issue(q)
             j == [i EXCEPT !.checked = TRUE]
             k == redeem(q)
  <1>1. /\ "issue" \in Fns /\ "redeem" \in Fns /\ IssuanceModule \in Kinds
        /\ TRUE \in BOOLEAN /\ FALSE \in BOOLEAN
    BY DEF Fns, Kinds, IssuanceModule
  <1>2. IsCall(c, "issue", IssuanceModule) /\ IsCall(d, "redeem", IssuanceModule)
    BY <1>1, CallFields
  <1>3. i = [c EXCEPT !.quantity = q, !.checked = FALSE] /\ k = [d EXCEPT !.quantity = q]
    BY DEF issue, redeem
  <1> HIDE DEF c, d, i, k
  <1>4. /\ i \in InstructionType /\ i.op = "call" /\ i.fn = "issue" /\ i.kind = IssuanceModule
        /\ i.modules = {} /\ k.modules = {}
        /\ k \in InstructionType /\ k.op = "call" /\ k.fn = "redeem" /\ k.kind = IssuanceModule
        /\ k.checked
    BY <1>1, <1>2, <1>3 DEF InstructionType, IsCall
  <1>5. /\ j \in InstructionType /\ j.op = "call" /\ j.fn = "issue" /\ j.kind = IssuanceModule
        /\ j.modules = {}
    BY <1>1, <1>4 DEF InstructionType
  <1> HIDE DEF j
  <1>6. i \in Plain /\ i \in Narrow /\ k \in Plain /\ k \in Narrow /\ j \in Plain
    BY <1>4, <1>5, PlainFields DEF Creations
  <1> QED BY <1>6 DEF i, j, k

LEMMA ReadsPlain ==
    ReadBalance \in Plain /\ getBalances \in Plain
  <1>1. "balanceOf" \in Ops /\ "getBalances" \in Ops
    BY DEF Ops
  <1>2. /\ ReadBalance \in InstructionType /\ ReadBalance.op = "balanceOf" /\ ReadBalance.fn = ""
        /\ ReadBalance.modules = {} /\ getBalances.modules = {}
        /\ getBalances \in InstructionType /\ getBalances.op = "getBalances" /\ getBalances.fn = ""
    BY <1>1, InstructionFields DEF ReadBalance, getBalances, InstructionType
  <1> QED BY <1>2, PlainFields DEF Creations

LEMMA InitializePlain ==
    ASSUME NEW m \in SUBSET Kinds
    PROVE  initialize(m) \in Plain
  <1> DEFINE c == Call("initialize", "controller")
             i == initialize(m)
  <1>1. "initialize" \in Fns /\ "controller" \in Kinds
    BY DEF Fns, Kinds
  <1>2. IsCall(c, "initialize", "controller")
    BY <1>1, CallFields
  <1>3. i = [c EXCEPT !.modules = m]
    BY DEF initialize
  <1> HIDE DEF c, i
  <1>4. i \in InstructionType /\ i.op = "call" /\ i.fn = "initialize"
    BY <1>2, <1>3 DEF InstructionType, IsCall
  <1>5. i \in Plain
    BY <1>4, PlainFields DEF Creations
  <1> QED BY <1>5 DEF i

\* The instructions that are not plain.
LEMMA CreationFields ==
    /\ \A m \in SUBSET {IssuanceModule, ManageModule} :
        /\ create(m) \in Any /\ create(m).op = "call" /\ create(m).fn = "create"
        /\ create(m).kind = "setTokenCreator" /\ create(m).modules = m
    /\ LET i == [Call("deploySetToken", "controller") EXCEPT !.modules = {IssuanceModule}] IN
        i \in Any /\ i.op = "call" /\ i.fn = "deploySetToken"
    /\ AwaitReceipt \in Any /\ AwaitReceipt.op = "wait" /\ AwaitReceipt.fn = ""
    /\ getCreatedSetTokenAddress \in Any
    /\ getCreatedSetTokenAddress.op = "getCreated" /\ getCreatedSetTokenAddress.fn = ""
    /\ LET i == [Instruction EXCEPT !.op = "attach"] IN i \in Any /\ i.op = "attach" /\ i.fn = ""
  <1>1. /\ "create" \in Fns /\ "deploySetToken" \in Fns
        /\ "setTokenCreator" \in Kinds /\ "controller" \in Kinds
        /\ IssuanceModule \in Kinds /\ ManageModule \in Kinds
        /\ "wait" \in Ops /\ "getCreated" \in Ops /\ "attach" \in Ops
    BY DEF Fns, Kinds, Ops, IssuanceModule, ManageModule
  <1>2. ASSUME NEW m \in SUBSET {IssuanceModule, ManageModule}
        PROVE  /\ create(m) \in Any /\ create(m).op = "call" /\ create(m).fn = "create"
               /\ create(m).kind = "setTokenCreator" /\ create(m).modules = m
    <2> DEFINE c == Call("create", "setTokenCreator")
               i == create(m)
    <2>1. IsCall(c, "create", "setTokenCreator")
      BY <1>1, CallFields
    <2>2. i = [c EXCEPT !.modules = m] /\ m \in SUBSET Kinds
      BY <1>1 DEF create
    <2> HIDE DEF c, i
    <2>3. /\ i \in InstructionType /\ i.op = "call" /\ i.fn = "create" /\ i.kind = "setTokenCreator"
          /\ i.modules = m
      BY <2>1, <2>2 DEF InstructionType, IsCall
    <2> QED BY <2>3 DEF Any, i
  <1>3. LET i == [Call("deploySetToken", "controller") EXCEPT !.modules = {IssuanceModule}] IN
            i \in Any /\ i.op = "call" /\ i.fn = "deploySetToken"
    <2> DEFINE c == Call("deploySetToken", "controller")
               m == {IssuanceModule}
               i == [c EXCEPT !.modules = m]
    <2>1. IsCall(c, "deploySetToken", "controller")
      BY <1>1, CallFields
    <2>2. m \in SUBSET Kinds
      BY <1>1
    <2> HIDE DEF c, m
    <2>3. /\ i \in InstructionType /\ i.op = "call" /\ i.fn = "deploySetToken" /\ i.kind = "controller"
          /\ i.modules = m
      BY <2>1, <2>2 DEF InstructionType, IsCall
    <2> HIDE DEF i
    <2>4. i \in Any
      BY <2>3 DEF Any, m
    <2> QED BY <2>3, <2>4 DEF i, c, m
  <1>4. /\ AwaitReceipt \in InstructionType /\ AwaitReceipt.op = "wait" /\ AwaitReceipt.fn = ""
        /\ AwaitReceipt.modules = {} /\ getCreatedSetTokenAddress.modules = {}
        /\ getCreatedSetTokenAddress \in InstructionType
        /\ getCreatedSetTokenAddress.op = "getCreated" /\ getCreatedSetTokenAddress.fn = ""
    BY <1>1, InstructionFields DEF AwaitReceipt, getCreatedSetTokenAddress, InstructionType
  <1>5. LET i == [Instruction EXCEPT !.op = "attach"] IN
            i \in InstructionType /\ i.op = "attach" /\ i.fn = "" /\ i.modules = {}
    BY <1>1, InstructionFields DEF InstructionType
  <1> DEFINE attach == [Instruction EXCEPT !.op = "attach"]
  <1> HIDE DEF attach
  <1>6. \A i \in InstructionType : i.fn = "" /\ i.modules = {} => i \in Any
    BY DEF Any, Creations
  <1> QED BY <1>2, <1>3, <1>4, <1>5, <1>6 DEF attach

-----------------------------------------------------------------------------
(* The programs *)

LEMMA HalfWay ==
    \A k \in 1 .. 2 * N : (k + 1) \div 2 \in Components
  <1>1. N \in Nat /\ Components = 1 .. N
    BY EtherNat
  <1> QED BY <1>1, SMT

LEMMA DeployTokensPlain ==
    DeployTokens \in Seq(Plain)
  <1> DEFINE D(k) == IF k % 2 = 1 THEN deployTokenMock((k + 1) \div 2)
                                  ELSE Deployed(deployTokenMock((k + 1) \div 2))
  <1>1. 2 * N \in Nat
    BY EtherNat, SMT
  <1>2. DeployTokens = [k \in 1 .. 2 * N |-> D(k)]
    BY DEF DeployTokens, ForEachComponent
  <1>3. \A k \in 1 .. 2 * N : D(k) \in Plain
    BY HalfWay, TokenMockPlain, Zenon
  <1> HIDE DEF D
  <1>4. [k \in 1 .. 2 * N |-> D(k)] \in Seq(Plain)
    BY <1>1, <1>3, SMT
  <1> QED BY <1>2, <1>4

LEMMA StandardComponentsPlain ==
    initializeStandardComponents \in Seq(Plain)
  <1> DEFINE D(k) == IF k % 2 = 1 THEN deployTokenMock((k + 1) \div 2) ELSE Deploy("oracleMock")
             A(i) == approve(IssuanceModule, i, INITIAL_BALANCE)
             S == [k \in 1 .. 2 * N |-> D(k)]
             T == [i \in 1 .. N |-> A(i)]
  <1>1. 2 * N \in Nat /\ N \in Nat /\ Components = 1 .. N
    BY EtherNat, SMT
  <1>2. initializeStandardComponents = S \o T
    BY DEF initializeStandardComponents, ForEachComponent
  <1>3. "oracleMock" \in Kinds /\ INITIAL_BALANCE \in Nat
    BY RunsAssumption DEF Kinds
  <1>4. \A k \in 1 .. 2 * N : D(k) \in Plain
    BY <1>3, HalfWay, TokenMockPlain, DeployPlain, Zenon
  <1>5. \A i \in 1 .. N : A(i) \in Plain
    BY <1>1, <1>3, ApproveAddRemovePlain, Zenon
  <1> HIDE DEF D, A
  <1>6. S \in Seq(Plain)
    BY <1>1, <1>4, SMT
  <1>7. T \in Seq(Plain)
    BY <1>1, <1>5, SMT
  <1> HIDE DEF S, T
  <1> QED BY <1>2, <1>6, <1>7, ConcatProperties

LEMMA ApproveUnitsNarrow ==
    ApproveUnits \in Seq(Narrow) /\ ApproveUnits \in Seq(Plain)
  <1> DEFINE A(i) == approve(IssuanceModule, i, _units[i])
  <1>1. N \in Nat /\ Components = 1 .. N /\ \A i \in Components : _units[i] \in Nat
    BY EtherNat
  <1>2. ApproveUnits = [i \in 1 .. N |-> A(i)]
    BY DEF ApproveUnits
  <1>3. \A i \in 1 .. N : A(i) \in Narrow /\ A(i) \in Plain
    BY <1>1, ApproveAddRemovePlain, Zenon
  <1> HIDE DEF A
  <1> QED BY <1>1, <1>2, <1>3, SMT

LEMMA ApproveAndIssuePlain ==
    approveAndIssueSetToken(ether(1)) \in Seq(Plain)
  <1> DEFINE A(i) == approve(IssuanceModule, i, MAX_UINT_256)
             j == [issue(ether(1)) EXCEPT !.checked = TRUE]
             S == [i \in 1 .. N |-> A(i)]
  <1>1. N \in Nat /\ Components = 1 .. N /\ MAX_UINT_256 \in Nat /\ 1 \in Nat
    BY EtherNat, AllowanceAssumption
  <1>2. ether(1) \in Nat
    BY <1>1, EtherNat
  <1>3. j \in Plain
    BY <1>2, IssueRedeemPlain
  <1>4. \A i \in 1 .. N : A(i) \in Plain
    BY <1>1, ApproveAddRemovePlain, Zenon
  <1>5. approveAndIssueSetToken(ether(1)) = S \o <<j>>
    BY DEF approveAndIssueSetToken
  <1> HIDE DEF A, j
  <1>6. S \in Seq(Plain)
    BY <1>1, <1>4, SMT
  <1>7. <<j>> \in Seq(Plain)
    BY <1>3, SMT
  <1> HIDE DEF S
  <1> QED BY <1>5, <1>6, <1>7, ConcatProperties

LEMMA CorePlain ==
    /\ deployController \in Plain /\ deploySetTokenCreator \in Plain
    /\ deployBasicIssuanceModule \in Plain /\ deployComponentManageModule \in Plain
    /\ AwaitDeployed("controller") \in Plain /\ AwaitDeployed("setTokenCreator") \in Plain
    /\ AwaitDeployed(IssuanceModule) \in Plain /\ AwaitDeployed(ManageModule) \in Plain
    /\ initialize({IssuanceModule}) \in Plain
    /\ initialize({IssuanceModule, ManageModule}) \in Plain
    /\ Call("addModule", ManageModule) \in Plain
    /\ initializeModule(IssuanceModule) \in Plain /\ initializeModule(ManageModule) \in Plain
    /\ lockSetToken \in Plain /\ unlockSetToken \in Plain
    /\ approveController \in Plain /\ approveController \in Narrow
  <1>1. /\ "controller" \in Kinds /\ "setTokenCreator" \in Kinds
        /\ IssuanceModule \in Kinds /\ ManageModule \in Kinds
    BY DEF Kinds, IssuanceModule, ManageModule
  <1>2. {IssuanceModule} \in SUBSET Kinds /\ {IssuanceModule, ManageModule} \in SUBSET Kinds
    BY <1>1
  <1>3. /\ "addModule" \in Fns /\ "initializeModule" \in Fns /\ "lockSetToken" \in Fns
        /\ "unlockSetToken" \in Fns /\ "approveController" \in Fns
        /\ "addModule" \notin Creations /\ "initializeModule" \notin Creations
        /\ "lockSetToken" \notin Creations /\ "unlockSetToken" \notin Creations
        /\ "approveController" \notin Creations
    BY DEF Fns, Creations
  <1>4. "controller" \notin Printable
    BY DEF Printable, IssuanceModule, ManageModule
  <1>5. /\ deployController \in Plain /\ deploySetTokenCreator \in Plain
        /\ deployBasicIssuanceModule \in Plain /\ deployComponentManageModule \in Plain
        /\ AwaitDeployed("controller") \in Plain /\ AwaitDeployed("setTokenCreator") \in Plain
        /\ AwaitDeployed(IssuanceModule) \in Plain /\ AwaitDeployed(ManageModule) \in Plain
    BY <1>1, DeployPlain
       DEF deployController, deploySetTokenCreator, deployBasicIssuanceModule,
           deployComponentManageModule
  <1>6. initialize({IssuanceModule}) \in Plain /\ initialize({IssuanceModule, ManageModule}) \in Plain
    BY <1>2, InitializePlain
  <1>7. /\ Call("addModule", ManageModule) \in Plain
        /\ initializeModule(IssuanceModule) \in Plain /\ initializeModule(ManageModule) \in Plain
        /\ lockSetToken \in Plain /\ unlockSetToken \in Plain
        /\ approveController \in Plain /\ approveController \in Narrow
    BY <1>1, <1>3, <1>4, CallPlain
       DEF initializeModule, lockSetToken, unlockSetToken, approveController
  <1> QED BY <1>5, <1>6, <1>7

LEMMA PlainPieces ==
    /\ <<getBalances>> \in Seq(Plain) /\ CoreSystem11 \in Seq(Plain)
    /\ <<initializeModule(ManageModule), lockSetToken, unlockSetToken>> \in Seq(Plain)
    /\ IssueSet11 \in Seq(Plain) /\ RemoveComponents11 \in Seq(Plain)
    /\ AddComponents11 \in Seq(Plain) /\ RedeemSet11 \in Seq(Plain)
  <1> USE CorePlain, ReadsPlain
  <1>1. <<getBalances>> \in Seq(Plain)
    OBVIOUS
  <1>2. CoreSystem11 \in Seq(Plain)
    BY DEF CoreSystem11
  <1>3. <<initializeModule(ManageModule), lockSetToken, unlockSetToken>> \in Seq(Plain)
    OBVIOUS
  <1>4. /\ ether(1) \in Nat /\ ether(2) \in Nat /\ ether(3) \in Nat /\ halfEther \in Nat
        /\ 1 \in Components /\ 2 \in Components
    BY EtherNat, SMT
  <1>5. issue(ether(1)) \in Plain /\ redeem(Owned) \in Plain
    BY <1>4, IssueRedeemPlain
  <1>6. /\ removeFromSetToken(1, halfEther) \in Plain /\ removeFromSetToken(2, ether(2)) \in Plain
        /\ approve(ManageModule, 2, ether(1)) \in Plain /\ addToSetToken(2, ether(1)) \in Plain
        /\ approve(ManageModule, 2, ether(3)) \in Plain /\ addToSetToken(2, ether(3)) \in Plain
    BY <1>4, ApproveAddRemovePlain
  <1>7. IssueSet11 \in Seq(Plain)
    BY <1>5 DEF IssueSet11
  <1>8. RemoveComponents11 \in Seq(Plain)
    BY <1>6 DEF RemoveComponents11
  <1>9. AddComponents11 \in Seq(Plain)
    BY <1>6 DEF AddComponents11
  <1>10. RedeemSet11 \in Seq(Plain)
    BY <1>5 DEF RedeemSet11
  <1> QED BY <1>1, <1>2, <1>3, <1>7, <1>8, <1>9, <1>10

LEMMA FixtureInitializePlain ==
    FixtureInitialize \in Seq(Plain)
  <1> DEFINE A == <<deployController, deployBasicIssuanceModule>>
             m == {IssuanceModule, "streamingFeeModule", "navIssuanceModule"}
             B == <<Deploy("integrationRegistry"), deploySetTokenCreator, Deploy("priceOracle"),
                    Deploy("integrationRegistry"), Deploy("setValuer"),
                    Deploy("streamingFeeModule"), Deploy("navIssuanceModule"), initialize(m)>>
  <1>1. /\ "integrationRegistry" \in Kinds /\ "priceOracle" \in Kinds /\ "setValuer" \in Kinds
        /\ "streamingFeeModule" \in Kinds /\ "navIssuanceModule" \in Kinds /\ IssuanceModule \in Kinds
    BY DEF Kinds, IssuanceModule
  <1>2. m \in SUBSET Kinds
    BY <1>1
  <1>3. initialize(m) \in Plain
    BY <1>2, InitializePlain
  <1>4. /\ Deploy("integrationRegistry") \in Plain /\ Deploy("priceOracle") \in Plain
        /\ Deploy("setValuer") \in Plain /\ Deploy("streamingFeeModule") \in Plain
        /\ Deploy("navIssuanceModule") \in Plain
    BY <1>1, DeployPlain
  <1>5. FixtureInitialize = (A \o initializeStandardComponents) \o B
    BY DEF FixtureInitialize
  <1> HIDE DEF m
  <1>6. A \in Seq(Plain) /\ B \in Seq(Plain)
    BY <1>3, <1>4, CorePlain
  <1> HIDE DEF A, B
  <1>7. A \o initializeStandardComponents \in Seq(Plain)
    BY <1>6, StandardComponentsPlain, ConcatProperties
  <1> QED BY <1>5, <1>6, <1>7, ConcatProperties

\* Scripts 01, 02, 04 and 05 create no Set.
LEMMA NoCreation ==
    /\ Script01 \in Seq(Plain) /\ Script02 \in Seq(Plain)
    /\ Script04 \in Seq(Plain) /\ Script04 \in Seq(Narrow)
    /\ Script05 \in Seq(Plain) /\ Script05 \in Seq(Narrow)
  <1> DEFINE a == AwaitDeployed(IssuanceModule)
             i == issue(ether(1))
             d == redeem(ether(1))
  <1>1. ether(1) \in Nat
    BY EtherNat, SMT
  <1>2. a \in Narrow /\ i \in Narrow /\ d \in Narrow
    BY <1>1, AwaitIssuanceNarrow, IssueRedeemPlain
  <1>3. Script04 = (<<a>> \o ApproveUnits) \o <<i>> /\ Script05 = <<a, approveController, d>>
    BY DEF Script04, Script05
  <1> HIDE DEF a, i, d
  <1>4. <<a>> \in Seq(Narrow) /\ <<i>> \in Seq(Narrow)
    BY <1>2
  <1>5. <<a>> \o ApproveUnits \in Seq(Narrow)
    BY <1>4, ApproveUnitsNarrow, ConcatProperties
  <1>6. Script04 \in Seq(Narrow)
    BY <1>3, <1>4, <1>5, ConcatProperties
  <1>7. Script05 \in Seq(Narrow)
    BY <1>2, <1>3, CorePlain
  <1>8. \A S : S \in Seq(Narrow) => S \in Seq(Plain)
    BY DEF Narrow
  <1>9. Script01 \in Seq(Plain)
    BY DeployTokensPlain DEF Script01
  <1>10. Script02 \in Seq(Plain)
    BY CorePlain DEF Script02
  <1> QED BY <1>6, <1>7, <1>8, <1>9, <1>10

\* A program that creates one Set, at c, and reads its address at r; a wait is all
\* that comes between.
Creating(P, c, r, fn) ==
    /\ P \in Seq(Any) /\ c \in Nat \ {0} /\ r \in Nat /\ c < r /\ r <= Len(P)
    /\ P[c].op = "call" /\ P[c].fn = fn
    /\ P[r].op = IF fn = "create" THEN "getCreated" ELSE "attach"
    /\ \A k \in 1 .. Len(P) : k < c \/ k > r => P[k] \in Plain
    /\ \A k \in c + 1 .. r - 1 : P[k].op = "wait"

LEMMA Concatenated ==
    ASSUME NEW P \in Seq(Any), NEW Q \in Seq(Any)
    PROVE  /\ P \o Q \in Seq(Any) /\ Len(P) \in Nat /\ Len(Q) \in Nat
           /\ Len(P \o Q) = Len(P) + Len(Q)
           /\ \A k \in 1 .. Len(P) : (P \o Q)[k] = P[k]
           /\ \A k \in 1 .. Len(Q) : (P \o Q)[Len(P) + k] = Q[k]
  <1>1. /\ P \o Q \in Seq(Any) /\ Len(P \o Q) = Len(P) + Len(Q)
        /\ \A i \in 1 .. Len(P) + Len(Q) : (P \o Q)[i] =
                     IF i <= Len(P) THEN P[i] ELSE Q[i - Len(P)]
    BY ConcatProperties
  <1>2. Len(P) \in Nat /\ Len(Q) \in Nat
    BY LenProperties
  <1> HIDE DEF Any
  <1>3. \A k \in 1 .. Len(P) : (P \o Q)[k] = P[k]
    BY <1>1, <1>2, SMT
  <1>4. ASSUME NEW k \in 1 .. Len(Q)
        PROVE  (P \o Q)[Len(P) + k] = Q[k]
    <2>1. Len(P) + k \in 1 .. Len(P) + Len(Q) /\ ~(Len(P) + k <= Len(P)) /\ Len(P) + k - Len(P) = k
      BY <1>2, SMT
    <2> QED BY <1>1, <2>1
  <1> QED BY <1>1, <1>2, <1>3, <1>4

LEMMA SeqsOfAny ==
    \A S : S \in Seq(Plain) => S \in Seq(Any)
  BY DEF Plain

LEMMA CreatingExtended ==
    ASSUME NEW P, NEW c, NEW r, NEW fn, Creating(P, c, r, fn), NEW Q \in Seq(Plain)
    PROVE  Creating(P \o Q, c, r, fn)
  <1> DEFINE R == P \o Q
  <1>1. P \in Seq(Any) /\ Q \in Seq(Any)
    BY SeqsOfAny DEF Creating
  <1>2. /\ R \in Seq(Any) /\ Len(P) \in Nat /\ Len(Q) \in Nat /\ Len(R) = Len(P) + Len(Q)
        /\ \A k \in 1 .. Len(P) : R[k] = P[k]
        /\ \A k \in 1 .. Len(Q) : R[Len(P) + k] = Q[k]
    BY <1>1, Concatenated
  <1>3. \A k \in 1 .. Len(Q) : Q[k] \in Plain
    BY ElementOfSeq
  <1> HIDE DEF R, Any, Plain
  <1>4. /\ c \in Nat \ {0} /\ r \in Nat /\ c < r /\ r <= Len(P)
        /\ P[c].op = "call" /\ P[c].fn = fn
        /\ P[r].op = IF fn = "create" THEN "getCreated" ELSE "attach"
        /\ \A k \in 1 .. Len(P) : k < c \/ k > r => P[k] \in Plain
        /\ \A k \in c + 1 .. r - 1 : P[k].op = "wait"
    BY DEF Creating
  <1>5. R[c] = P[c] /\ R[r] = P[r] /\ r <= Len(R)
    <2>1. c \in 1 .. Len(P) /\ r \in 1 .. Len(P) /\ r <= Len(R)
      BY <1>2, <1>4, SMT
    <2> QED BY <1>2, <2>1
  <1>6. ASSUME NEW k \in 1 .. Len(R), k < c \/ k > r
        PROVE  R[k] \in Plain
    <2>1. CASE k <= Len(P)
      BY <1>2, <1>4, <1>6, <2>1, SMT
    <2>2. CASE k > Len(P)
      <3>1. k - Len(P) \in 1 .. Len(Q) /\ Len(P) + (k - Len(P)) = k
        BY <1>2, <2>2, SMT
      <3> QED BY <1>2, <1>3, <3>1
    <2> QED BY <1>2, <2>1, <2>2, SMT
  <1>7. \A k \in c + 1 .. r - 1 : R[k] = P[k]
    <2>1. \A k \in c + 1 .. r - 1 : k \in 1 .. Len(P)
      BY <1>2, <1>4, SMT
    <2> QED BY <1>2, <2>1
  <1>8. \A k \in c + 1 .. r - 1 : R[k].op = "wait"
    BY <1>4, <1>7
  <1> QED BY <1>2, <1>4, <1>5, <1>6, <1>8 DEF Creating, R

\* It begins with the contracts that the Set needs.
LEMMA CreatingBegun ==
    ASSUME NEW B \in Seq(Plain), NEW x \in Any, NEW w \in Any, NEW g \in Any, NEW fn,
           x.op = "call", x.fn = fn, w.op = "wait",
           g.op = IF fn = "create" THEN "getCreated" ELSE "attach"
    PROVE  /\ Creating(B \o <<x, w, g>>, Len(B) + 1, Len(B) + 3, fn)
           /\ Creating(B \o <<x, g>>, Len(B) + 1, Len(B) + 2, fn)
  <1> DEFINE M == <<x, w, g>>
             L == <<x, g>>
             R == B \o M
             T == B \o L
  <1>1. /\ M \in Seq(Any) /\ Len(M) = 3 /\ M[1] = x /\ M[2] = w /\ M[3] = g
        /\ L \in Seq(Any) /\ Len(L) = 2 /\ L[1] = x /\ L[2] = g
    OBVIOUS
  <1>2. B \in Seq(Any) /\ \A k \in 1 .. Len(B) : B[k] \in Plain
    BY SeqsOfAny, ElementOfSeq
  <1> HIDE DEF M, L
  <1>3. /\ R \in Seq(Any) /\ Len(B) \in Nat /\ Len(R) = Len(B) + Len(M)
        /\ \A k \in 1 .. Len(B) : R[k] = B[k]
        /\ \A k \in 1 .. Len(M) : R[Len(B) + k] = M[k]
    BY <1>1, <1>2, Concatenated
  <1>4. /\ T \in Seq(Any) /\ Len(T) = Len(B) + Len(L)
        /\ \A k \in 1 .. Len(B) : T[k] = B[k]
        /\ \A k \in 1 .. Len(L) : T[Len(B) + k] = L[k]
    BY <1>1, <1>2, Concatenated
  <1> HIDE DEF R, T, Any, Plain
  <1>5. Creating(R, Len(B) + 1, Len(B) + 3, fn)
    <2>1. Len(R) = Len(B) + 3 /\ R[Len(B) + 1] = x /\ R[Len(B) + 2] = w /\ R[Len(B) + 3] = g
      BY <1>1, <1>3, SMT
    <2>2. \A k \in 1 .. Len(R) : k < Len(B) + 1 \/ k > Len(B) + 3 => k \in 1 .. Len(B)
      BY <1>3, <2>1, SMT
    <2>3. \A k \in Len(B) + 1 + 1 .. Len(B) + 3 - 1 : k = Len(B) + 2
      BY <1>3, SMT
    <2>4. /\ Len(B) + 1 \in Nat \ {0} /\ Len(B) + 3 \in Nat /\ Len(B) + 1 < Len(B) + 3
          /\ Len(B) + 3 <= Len(R)
      BY <1>3, <2>1, SMT
    <2>5. \A k \in 1 .. Len(R) : k < Len(B) + 1 \/ k > Len(B) + 3 => R[k] \in Plain
      BY <1>2, <1>3, <2>2
    <2>6. \A k \in Len(B) + 1 + 1 .. Len(B) + 3 - 1 : R[k].op = "wait"
      BY <2>1, <2>3
    <2> QED BY <1>3, <2>1, <2>4, <2>5, <2>6 DEF Creating
  <1>6. Creating(T, Len(B) + 1, Len(B) + 2, fn)
    <2>1. Len(T) = Len(B) + 2 /\ T[Len(B) + 1] = x /\ T[Len(B) + 2] = g
      BY <1>1, <1>3, <1>4, SMT
    <2>2. \A k \in 1 .. Len(T) : k < Len(B) + 1 \/ k > Len(B) + 2 => k \in 1 .. Len(B)
      BY <1>3, <2>1, SMT
    <2>3. \A k \in Len(B) + 1 + 1 .. Len(B) + 2 - 1 : FALSE
      BY <1>3, SMT
    <2>4. /\ Len(B) + 1 \in Nat \ {0} /\ Len(B) + 2 \in Nat /\ Len(B) + 1 < Len(B) + 2
          /\ Len(B) + 2 <= Len(T)
      BY <1>3, <2>1, SMT
    <2>5. \A k \in 1 .. Len(T) : k < Len(B) + 1 \/ k > Len(B) + 2 => T[k] \in Plain
      BY <1>2, <1>4, <2>2
    <2>6. \A k \in Len(B) + 1 + 1 .. Len(B) + 2 - 1 : T[k].op = "wait"
      BY <2>3
    <2> QED BY <1>4, <2>1, <2>4, <2>5, <2>6 DEF Creating
  <1> QED BY <1>5, <1>6 DEF R, T, M, L

\* Where the scripts create their Set, read its address, and initialize the
\* issuance module on it.
Before11 == DeployTokens \o <<getBalances>> \o CoreSystem11

Until11 == Before11 \o CreateSet11 \o ApproveUnits

CreateAt(script) ==
    IF script = "03" THEN 3 ELSE IF script = "11" THEN Len(Before11) + 1 ELSE Len(FixtureInitialize) + 1

ReadAt(script) == IF script \in {"03", "11"} THEN CreateAt(script) + 2 ELSE CreateAt(script) + 1

InitAt(script) ==
    IF script = "03" THEN 6 ELSE IF script = "11" THEN Len(Until11) + 1 ELSE CreateAt(script) + 2

CreationOf(script) == IF script = "unregistered" THEN "deploySetToken" ELSE "create"

Creators == {"03", "11", "fixture", "unregistered"}

\* An initialization at i that comes after r.
InitializesAt(P, r, i) ==
    i \in Nat /\ r < i /\ i <= Len(P) /\ P[i] = initializeModule(IssuanceModule)

LEMMA InitializedNext ==
    ASSUME NEW P, NEW c, NEW r, NEW fn, Creating(P, c, r, fn),
           NEW Q \in Seq(Plain), Q # << >>, Q[1] = initializeModule(IssuanceModule)
    PROVE  Creating(P \o Q, c, r, fn) /\ InitializesAt(P \o Q, r, Len(P) + 1)
  <1>1. P \in Seq(Any) /\ Q \in Seq(Any) /\ r \in Nat /\ r <= Len(P)
    BY SeqsOfAny DEF Creating
  <1>2. /\ Len(P) \in Nat /\ Len(Q) \in Nat /\ Len(P \o Q) = Len(P) + Len(Q)
        /\ \A k \in 1 .. Len(Q) : (P \o Q)[Len(P) + k] = Q[k]
    BY <1>1, Concatenated
  <1>3. Len(Q) > 0
    BY <1>1, <1>2, EmptySeq, LenProperties
  <1> DEFINE R == P \o Q
  <1> HIDE DEF R, Any, Plain
  <1>4. R[Len(P) + 1] = Q[1] /\ Len(P) + 1 \in Nat /\ r < Len(P) + 1 /\ Len(P) + 1 <= Len(R)
    BY <1>1, <1>2, <1>3, SMT DEF R
  <1>5. InitializesAt(R, r, Len(P) + 1)
    BY <1>4 DEF InitializesAt
  <1> QED BY <1>5, CreatingExtended DEF R

LEMMA InitializedEarlier ==
    ASSUME NEW P, NEW c, NEW r, NEW i, NEW fn, Creating(P, c, r, fn), InitializesAt(P, r, i),
           NEW Q \in Seq(Plain)
    PROVE  Creating(P \o Q, c, r, fn) /\ InitializesAt(P \o Q, r, i)
  <1>1. /\ P \in Seq(Any) /\ Q \in Seq(Any) /\ r \in Nat
        /\ i \in Nat /\ r < i /\ i <= Len(P) /\ P[i] = initializeModule(IssuanceModule)
    BY SeqsOfAny DEF Creating, InitializesAt
  <1>2. /\ Len(P) \in Nat /\ Len(Q) \in Nat /\ Len(P \o Q) = Len(P) + Len(Q)
        /\ \A k \in 1 .. Len(P) : (P \o Q)[k] = P[k]
    BY <1>1, Concatenated
  <1> DEFINE R == P \o Q
  <1> HIDE DEF R, Any, Plain
  <1>3. R[i] = P[i] /\ i <= Len(R)
    BY <1>1, <1>2, SMT DEF R
  <1>4. InitializesAt(R, r, i)
    BY <1>1, <1>3 DEF InitializesAt
  <1> QED BY <1>4, CreatingExtended DEF R

Shaped(script, P) ==
    /\ Creating(P, CreateAt(script), ReadAt(script), CreationOf(script))
    /\ InitializesAt(P, ReadAt(script), InitAt(script))

LEMMA Script03Shaped ==
    Shaped("03", Script03)
  <1> DEFINE a == AwaitDeployed(IssuanceModule)
             b == AwaitDeployed(ManageModule)
             x == create({IssuanceModule, ManageModule})
             w == AwaitReceipt
             g == getCreatedSetTokenAddress
             i == initializeModule(IssuanceModule)
             m == initializeModule(ManageModule)
             B == <<a, b>>
             M == <<x, w, g>>
             Q == <<i, m>>
  <1>1. a \in Plain /\ b \in Plain /\ i \in Plain /\ m \in Plain
    BY CorePlain
  <1>2. /\ x \in Any /\ x.op = "call" /\ x.fn = "create" /\ w \in Any /\ w.op = "wait"
        /\ g \in Any /\ g.op = "getCreated"
    BY CreationFields
  <1>3. Script03 = <<a, b, x, w, g, i, m>>
    BY DEF Script03
  <1> HIDE DEF a, b, x, w, g, m
  <1>4. B \in Seq(Plain) /\ Len(B) = 2 /\ Q \in Seq(Plain) /\ Q # << >> /\ Q[1] = i
    BY <1>1
  <1>5. Script03 = (B \o M) \o Q
    BY <1>3
  <1>6. Len(B \o M) = 5
    OBVIOUS
  <1> HIDE DEF B, Q, i
  <1>7. Creating(B \o M, 3, 5, "create")
    <2>1. Creating(B \o M, Len(B) + 1, Len(B) + 3, "create")
      BY <1>2, <1>4, CreatingBegun
    <2> QED BY <1>4, <2>1
  <1>8. Creating(Script03, 3, 5, "create") /\ InitializesAt(Script03, 5, Len(B \o M) + 1)
    BY <1>4, <1>5, <1>7, InitializedNext DEF i
  <1>9. /\ CreateAt("03") = 3 /\ ReadAt("03") = 5 /\ InitAt("03") = 6 /\ CreationOf("03") = "create"
    BY DEF CreateAt, ReadAt, InitAt, CreationOf
  <1>10. Len(B \o M) + 1 = 6
    BY <1>6
  <1> QED BY <1>8, <1>9, <1>10 DEF Shaped

LEMMA Script11Shaped ==
    Shaped("11", Script11)
  <1> DEFINE x == create({IssuanceModule, ManageModule})
             w == AwaitReceipt
             g == getCreatedSetTokenAddress
             i == initializeModule(IssuanceModule)
             Q == InitializeModules11
             c == Len(Before11) + 1
             r == Len(Before11) + 3
             P1 == Before11 \o CreateSet11
             P2 == P1 \o ApproveUnits
             P3 == P2 \o Q
             P4 == P3 \o IssueSet11
             P5 == P4 \o RemoveComponents11
             P6 == P5 \o AddComponents11
             P7 == P6 \o RedeemSet11
  <1>1. Before11 \in Seq(Plain)
    <2>1. DeployTokens \o <<getBalances>> \in Seq(Plain)
      BY DeployTokensPlain, PlainPieces, ConcatProperties
    <2> QED BY <2>1, PlainPieces, ConcatProperties DEF Before11
  <1>2. /\ x \in Any /\ x.op = "call" /\ x.fn = "create" /\ w \in Any /\ w.op = "wait"
        /\ g \in Any /\ g.op = "getCreated"
    BY CreationFields
  <1>3. CreateSet11 = <<x, w, g>>
    BY DEF CreateSet11
  <1>4. Q \in Seq(Plain) /\ Q # << >> /\ Q[1] = i
    BY CorePlain DEF InitializeModules11
  <1>5. Script11 = P7 /\ P2 = Until11
    BY DEF Script11, Before11, Until11
  <1> HIDE DEF x, w, g, Q
  <1>6. Creating(Before11 \o <<x, w, g>>, c, r, "create")
    BY <1>1, <1>2, CreatingBegun
  <1>7. Creating(P1, c, r, "create")
    BY <1>3, <1>6
  <1> HIDE DEF P1, c, r
  <1>8. Creating(P2, c, r, "create")
    BY <1>7, ApproveUnitsNarrow, CreatingExtended
  <1> HIDE DEF P2
  <1>9. Creating(P3, c, r, "create") /\ InitializesAt(P3, r, Len(P2) + 1)
    BY <1>4, <1>8, InitializedNext DEF i
  <1> HIDE DEF P3, i
  <1>10. Creating(P4, c, r, "create") /\ InitializesAt(P4, r, Len(P2) + 1)
    BY <1>9, PlainPieces, InitializedEarlier
  <1> HIDE DEF P4
  <1>11. Creating(P5, c, r, "create") /\ InitializesAt(P5, r, Len(P2) + 1)
    BY <1>10, PlainPieces, InitializedEarlier
  <1> HIDE DEF P5
  <1>12. Creating(P6, c, r, "create") /\ InitializesAt(P6, r, Len(P2) + 1)
    BY <1>11, PlainPieces, InitializedEarlier
  <1> HIDE DEF P6
  <1>13. Creating(P7, c, r, "create") /\ InitializesAt(P7, r, Len(P2) + 1)
    BY <1>12, PlainPieces, InitializedEarlier
  <1> HIDE DEF P7
  <1>14. CreateAt("11") = c /\ InitAt("11") = Len(P2) + 1 /\ CreationOf("11") = "create"
    BY <1>5 DEF CreateAt, InitAt, CreationOf, c
  <1>15. ReadAt("11") = r
    BY <1>1, LenProperties, SMT DEF ReadAt, CreateAt, r
  <1> QED BY <1>5, <1>13, <1>14, <1>15 DEF Shaped

LEMMA FixtureShaped ==
    Shaped("fixture", FixtureIssues) /\ Shaped("unregistered", FixtureUnregistered)
  <1> DEFINE x == create({IssuanceModule})
             g == getCreatedSetTokenAddress
             y == [Call("deploySetToken", "controller") EXCEPT !.modules = {IssuanceModule}]
             h == [Instruction EXCEPT !.op = "attach"]
             w == AwaitReceipt
             i == initializeModule(IssuanceModule)
             Q == <<i>>
             A == approveAndIssueSetToken(ether(1))
             B == FixtureInitialize
             c == Len(B) + 1
             r == Len(B) + 2
             P1 == B \o <<x, g>>
             P2 == P1 \o Q
             P3 == P2 \o A
             R1 == B \o <<y, h>>
             R2 == R1 \o Q
  <1>1. B \in Seq(Plain) /\ A \in Seq(Plain)
    BY FixtureInitializePlain, ApproveAndIssuePlain
  <1>2. /\ x \in Any /\ x.op = "call" /\ x.fn = "create" /\ g \in Any /\ g.op = "getCreated"
        /\ w \in Any /\ w.op = "wait"
    BY CreationFields
  <1>3. /\ y \in Any /\ y.op = "call" /\ y.fn = "deploySetToken" /\ h \in Any /\ h.op = "attach"
    BY CreationFields
  <1>4. FixtureIssues = P3 /\ FixtureUnregistered = R2
    BY DEF FixtureIssues, createSetToken, FixtureUnregistered, createNonControllerEnabledSetToken
  <1>5. Q \in Seq(Plain) /\ Q # << >> /\ Q[1] = i
    BY CorePlain
  <1> HIDE DEF x, g, y, h, w, A, B, Q
  <1>6. Creating(P1, c, r, "create")
    BY <1>1, <1>2, CreatingBegun
  <1>7. Creating(R1, c, r, "deploySetToken")
    BY <1>1, <1>2, <1>3, CreatingBegun
  <1>8. Len(P1) = Len(B) + 2 /\ Len(R1) = Len(B) + 2 /\ Len(B) \in Nat
    <2>1. <<x, g>> \in Seq(Any) /\ <<y, h>> \in Seq(Any) /\ Len(<<x, g>>) = 2 /\ Len(<<y, h>>) = 2
      BY <1>2, <1>3
    <2>2. B \in Seq(Any)
      BY <1>1, SeqsOfAny
    <2> QED BY <2>1, <2>2, Concatenated
  <1> HIDE DEF P1, R1, c, r
  <1>9. Creating(P2, c, r, "create") /\ InitializesAt(P2, r, Len(P1) + 1)
    BY <1>5, <1>6, InitializedNext DEF i
  <1>10. Creating(R2, c, r, "deploySetToken") /\ InitializesAt(R2, r, Len(R1) + 1)
    BY <1>5, <1>7, InitializedNext DEF i
  <1> HIDE DEF P2, R2, i
  <1>11. Creating(P3, c, r, "create") /\ InitializesAt(P3, r, Len(P1) + 1)
    BY <1>1, <1>9, InitializedEarlier
  <1> HIDE DEF P3
  <1>12. /\ CreateAt("fixture") = c /\ CreateAt("unregistered") = c
         /\ CreationOf("fixture") = "create" /\ CreationOf("unregistered") = "deploySetToken"
         /\ c = Len(B) + 1 /\ r = Len(B) + 2
    BY DEF CreateAt, CreationOf, B, c, r
  <1>13. /\ ReadAt("fixture") = r /\ ReadAt("unregistered") = r
         /\ InitAt("fixture") = Len(P1) + 1 /\ InitAt("unregistered") = Len(R1) + 1
    BY <1>8, <1>12, SMT DEF ReadAt, InitAt
  <1> QED BY <1>4, <1>10, <1>11, <1>12, <1>13 DEF Shaped

ScriptNames == Steps \cup {"11", "fixture", "unregistered"}

\* What the programs are: the scripts that create no Set, and those that do.
LEMMA ProgramsShaped ==
    ASSUME NEW script \in ScriptNames
    PROVE  /\ Program(script) \in Seq(Any)
           /\ script \in {"04", "05"} => Program(script) \in Seq(Narrow)
           /\ script \notin Creators => Program(script) \in Seq(Plain)
           /\ script \in Creators => Shaped(script, Program(script))
  <1>1. /\ Program("01") = Script01 /\ Program("02") = Script02 /\ Program("03") = Script03
        /\ Program("04") = Script04 /\ Program("05") = Script05 /\ Program("11") = Script11
        /\ Program("fixture") = FixtureIssues /\ Program("unregistered") = FixtureUnregistered
    BY DEF Program
  <1>2. /\ script \in {"04", "05"} => Program(script) \in Seq(Narrow)
        /\ script \notin Creators => Program(script) \in Seq(Plain)
    BY <1>1, NoCreation DEF ScriptNames, Steps, Creators
  <1>3. script \in Creators => Shaped(script, Program(script))
    BY <1>1, Script03Shaped, Script11Shaped, FixtureShaped DEF Creators
  <1>4. Program(script) \in Seq(Any)
    BY <1>2, <1>3, SeqsOfAny DEF Shaped, Creating
  <1> QED BY <1>2, <1>3, <1>4

-----------------------------------------------------------------------------
(* The operator and the running script *)

\* The addresses that a script may be given: those of another run's contracts.
Addressed(script, number, at) ==
    /\ at \in [Printable -> Int] /\ at[IssuanceModule] \in Runs
    /\ script \notin {"04", "05"} => at["setTokenCreator"] \in Runs /\ at[ManageModule] \in Runs
    /\ script = "unregistered" => at[IssuanceModule] = number

LEMMA RecordsAreFunctions ==
    ASSUME NEW a \in Int, NEW b \in Int, NEW c \in Int, NEW d \in Int, NEW e \in Int
    PROVE  LET at == [setTokenCreator |-> a, basicIssuanceModule |-> b,
                      componentManageModule |-> c, setToken |-> d, components |-> e]
           IN  /\ at \in [Printable -> Int] /\ at["setTokenCreator"] = a
               /\ at[IssuanceModule] = b /\ at[ManageModule] = c
  BY DEF Printable, IssuanceModule, ManageModule

Statuses == {"idle", "running", "done", "failed", "crashed"}

RunType ==
    [script : ScriptNames \cup {"none"}, number : Nat, pc : Nat \ {0}, status : Statuses,
     at : [Printable -> Int], owned : Nat]

\* A run that began has its program and its number; while it goes on it has the
\* addresses that its transactions need.
RunOK(r) ==
    /\ r \in RunType
    /\ r.script = "none" => r.number = 0 /\ r.status = "idle"
    /\ r.script # "none" => r.number \in Runs /\ r.pc <= Len(Program(r.script)) + 1
    /\ r.status = "running" => r.script # "none" /\ Addressed(r.script, r.number, r.at)

\* An instruction by its place in the program.
LEMMA InstructionAt ==
    ASSUME NEW script \in ScriptNames, NEW pc \in 1 .. Len(Program(script)),
           NEW i, i = Program(script)[pc]
    PROVE  /\ i \in Any
           /\ script \in {"04", "05"} => i \in Narrow
           /\ i.fn \in Creations => /\ script \in Creators /\ pc = CreateAt(script)
                                    /\ i.fn = CreationOf(script)
           /\ i.op \in {"getCreated", "attach"} => script \in Creators /\ pc = ReadAt(script)
           /\ i.op = "wait" => /\ script \in Creators
                               /\ CreateAt(script) < pc /\ pc < ReadAt(script)
           /\ script \in Creators /\ pc = CreateAt(script) => /\ i.op = "call"
                                                              /\ i.fn = CreationOf(script)
           /\ script \in Creators /\ pc = InitAt(script) => i = initializeModule(IssuanceModule)
           /\ script \in Creators /\ CreateAt(script) < pc /\ pc < ReadAt(script) => i.op = "wait"
           /\ script \in Creators /\ pc = ReadAt(script) =>
                i.op = IF script = "unregistered" THEN "attach" ELSE "getCreated"
  <1> DEFINE P == Program(script)
             c == CreateAt(script)
             r == ReadAt(script)
  <1> HIDE DEF P, c, r
  <1>1. /\ P \in Seq(Any)
        /\ script \in {"04", "05"} => P \in Seq(Narrow)
        /\ script \notin Creators => P \in Seq(Plain)
        /\ script \in Creators => Shaped(script, P)
    BY ProgramsShaped DEF P
  <1>2. pc \in 1 .. Len(P) /\ i = P[pc]
    BY DEF P
  <1>3. i \in Any /\ (script \in {"04", "05"} => i \in Narrow) /\ (script \notin Creators => i \in Plain)
    BY <1>1, <1>2, ElementOfSeq
  <1>4. i \in Plain => i.fn \notin Creations /\ i.op \notin {"wait", "getCreated", "attach"}
    BY DEF Plain
  <1>5. i.op \notin {"call", "deploy"} => i.fn \notin Creations
    BY <1>3 DEF Any
  <1>6. CASE script \notin Creators
    BY <1>3, <1>4, <1>6
  <1>7. CASE script \in Creators
    <2>1. /\ c \in Nat \ {0} /\ r \in Nat /\ c < r /\ r <= Len(P)
          /\ P[c].op = "call" /\ P[c].fn = CreationOf(script)
          /\ P[r].op = IF CreationOf(script) = "create" THEN "getCreated" ELSE "attach"
          /\ \A k \in 1 .. Len(P) : k < c \/ k > r => P[k] \in Plain
          /\ \A k \in c + 1 .. r - 1 : P[k].op = "wait"
      BY <1>1, <1>7 DEF Shaped, Creating, c, r
    <2>2. /\ InitAt(script) > r /\ P[InitAt(script)] = initializeModule(IssuanceModule)
      BY <1>1, <1>7, <2>1, SMT DEF Shaped, InitializesAt, r
    <2>3. P[r].op = IF script = "unregistered" THEN "attach" ELSE "getCreated"
      BY <2>1 DEF CreationOf
    <2>4. pc = c \/ pc = r \/ (c < pc /\ pc < r) \/ i \in Plain
      BY <1>2, <2>1, SMT
    <2>5. c < pc /\ pc < r => i.op = "wait"
      BY <1>2, <2>1, SMT
    <2>6. i.fn \in Creations => pc = c
      BY <1>2, <1>4, <1>5, <2>3, <2>4, <2>5
    <2>7. i.op \in {"getCreated", "attach"} => pc = r
      BY <1>2, <1>4, <2>1, <2>4, <2>5
    <2>8. i.op = "wait" => c < pc /\ pc < r
      BY <1>2, <1>4, <2>1, <2>3, <2>4
    <2>9. pc = c => i.op = "call" /\ i.fn = CreationOf(script)
      BY <1>2, <2>1
    <2>10. (pc = InitAt(script) => i = initializeModule(IssuanceModule)) /\ (pc = r => i.op = P[r].op)
      BY <1>2, <2>2
    <2> QED BY <1>3, <1>7, <2>3, <2>5, <2>6, <2>7, <2>8, <2>9, <2>10 DEF c, r
  <1> QED BY <1>6, <1>7

\* Where they are.
LEMMA Places ==
    ASSUME NEW script \in Creators
    PROVE  /\ CreateAt(script) \in Nat \ {0} /\ ReadAt(script) \in Nat /\ InitAt(script) \in Nat
           /\ CreateAt(script) < ReadAt(script) /\ ReadAt(script) < InitAt(script)
           /\ InitAt(script) <= Len(Program(script)) /\ Len(Program(script)) \in Nat
           /\ ReadAt(script) <= CreateAt(script) + 2
  <1>1. script \in ScriptNames
    BY DEF Creators, ScriptNames, Steps
  <1>2. Shaped(script, Program(script)) /\ Len(Program(script)) \in Nat
    BY <1>1, ProgramsShaped, LenProperties
  <1>3. /\ CreateAt(script) \in Nat \ {0} /\ ReadAt(script) \in Nat /\ InitAt(script) \in Nat
        /\ CreateAt(script) < ReadAt(script) /\ ReadAt(script) < InitAt(script)
        /\ InitAt(script) <= Len(Program(script))
    BY <1>2 DEF Shaped, Creating, InitializesAt
  <1>4. ReadAt(script) <= CreateAt(script) + 2
    BY <1>3, SMT DEF ReadAt
  <1> QED BY <1>2, <1>3, <1>4

\* The transaction of an instruction points at contracts of some run.
LEMMA TransactionSent ==
    ASSUME RunOK(run), run.status = "running", NEW i \in Any,
           run.script \in {"04", "05"} => i \in Narrow,
           i.fn = "deploySetToken" => run.script = "unregistered"
    PROVE  /\ Transaction(i) \in Tx /\ Transaction(i).fn = i.fn /\ Transaction(i).run = run.number
           /\ Transaction(i).set = run.at.setToken
  <1> DEFINE t == Transaction(i)
             m == IF i.fn = "initialize" THEN i.modules
                  ELSE {<<k, run.at[k]>> : k \in i.modules}
  <1>1. /\ run.number \in Runs /\ run.owned \in Nat /\ run.at \in [Printable -> Int]
        /\ run.at[IssuanceModule] \in Runs
        /\ run.script \notin {"04", "05"} =>
                run.at["setTokenCreator"] \in Runs /\ run.at[ManageModule] \in Runs
        /\ run.script = "unregistered" => run.at[IssuanceModule] = run.number
    BY DEF RunOK, RunType, Addressed
  <1>2. /\ i.fn \in Fns /\ i.kind \in Kinds /\ i.token \in Int /\ i.quantity \in Nat \cup {Owned}
        /\ i.modules \in SUBSET Kinds
        /\ i.fn # "initialize" => i.modules \subseteq {IssuanceModule, ManageModule}
        /\ i.fn = "deploySetToken" => i.kind = "controller" /\ i.modules = {IssuanceModule}
        /\ i.fn = "addToSetToken" => i.token \in Components
    BY DEF Any, InstructionType
  <1>3. /\ run.script \in {"04", "05"} /\ i.kind \in Printable => i.kind = IssuanceModule
        /\ i.kind \in Printable => i.kind \in {"setTokenCreator", IssuanceModule, ManageModule}
    BY <1>2 DEF Narrow, Printable, Kinds, IssuanceModule, ManageModule
  <1>4. i.kind \in Printable => run.at[i.kind] \in Runs
    BY <1>1, <1>3
  <1>5. /\ IssuanceModule \in Printable /\ ManageModule \in Printable /\ "setToken" \in Printable
        /\ "components" \in Printable /\ IssuanceModule \in Kinds /\ ManageModule \in Kinds
        /\ "controller" \notin Printable
    BY DEF Printable, Kinds, IssuanceModule, ManageModule
  <1>6. run.at.setToken \in Int /\ run.at.components \in Int
    BY <1>1, <1>5
  <1>7. /\ i.fn = "initialize" => m \subseteq Kinds
        /\ i.fn # "initialize" => m \subseteq Kinds \X Int
        /\ i.fn = "deploySetToken" => \A k \in m : k[2] = run.number
    BY <1>1, <1>2, <1>5
  <1> HIDE DEF m
  <1>8. /\ t.fn = i.fn /\ t.run = run.number /\ t.kind = i.kind /\ t.set = run.at.setToken
        /\ t.tokens = run.at.components /\ t.token = i.token /\ t.modules = m
        /\ i.kind \in Printable => t.stack = run.at[i.kind]
        /\ i.kind \notin Printable => t.stack = run.number
        /\ i.quantity = Owned => t.quantity = run.owned
        /\ i.quantity # Owned => t.quantity = i.quantity
    BY DEF Transaction, m
  <1>9. t.stack \in Runs /\ t.quantity \in Nat
    BY <1>1, <1>2, <1>4, <1>8
  <1>10. m \in SUBSET (Kinds \cup (Kinds \X Int))
    BY <1>7
  <1>11. i.fn \in Creations => m \subseteq Kinds \X Int
    BY <1>7 DEF Creations
  <1>12. i.fn = "deploySetToken" => \A k \in m : k[2] = t.stack
    BY <1>2, <1>5, <1>7, <1>8
  <1>13. t = [fn |-> t.fn, run |-> t.run, kind |-> t.kind, stack |-> t.stack, set |-> t.set,
              tokens |-> t.tokens, token |-> t.token, quantity |-> t.quantity, modules |-> t.modules]
    BY DEF Transaction
  <1> HIDE DEF t
  <1>14. t \in Tx
    <2>1. /\ t.fn \in Fns /\ t.run \in Runs /\ t.kind \in Kinds /\ t.set \in Int /\ t.tokens \in Int
          /\ t.token \in Int /\ t.modules \in SUBSET (Kinds \cup (Kinds \X Int))
      BY <1>1, <1>2, <1>6, <1>8, <1>10
    <2>2. t \in [fn : Fns, run : Runs, kind : Kinds, stack : Runs, set : Int, tokens : Int,
                 token : Int, quantity : Nat, modules : SUBSET (Kinds \cup (Kinds \X Int))]
      BY <1>9, <1>13, <2>1
    <2> QED BY <1>2, <1>7, <1>8, <1>11, <1>12, <2>2 DEF Tx
  <1> QED BY <1>8, <1>14 DEF t

HistoryType ==
    [started : SUBSET ScriptNames, done : SUBSET [script : ScriptNames, number : Runs, set : Int],
     crashes : Nat, copies : 0 .. MaxCopies]

NetworkInv ==
    /\ network.node \in {"local", "live"}
    /\ ChainInv(chain) /\ ChainInv(pending) /\ mempool \in Seq(Tx)
    /\ network.node = "local" => mempool = << >> /\ chain = pending

OperatorInv ==
    /\ RunOK(run) /\ history \in HistoryType
    /\ printed \in [Printable -> SUBSET Int]
    /\ \A name \in {"setTokenCreator", IssuanceModule, ManageModule} : printed[name] \subseteq Runs
    /\ pipeline \in {"fixture", "unregistered"} => network.node = "local"
    /\ run.script \in {"fixture", "unregistered"} => run.script = pipeline
    /\ pipeline = "steps" => /\ history.started \subseteq Steps
                             /\ run.number <= Cardinality(history.started) + MaxReruns
    /\ pipeline # "steps" => run.number <= 1

LEMMA RunCounts ==
    /\ Cardinality(Steps) \in Nat \ {0} /\ MaxReruns \in Nat /\ MaxCopies \in Nat
    /\ Runs = 1 .. Cardinality(Steps) + MaxReruns
    /\ SetIds = 1 .. Cardinality(SetIds)
    /\ Cardinality(SetIds) = Cardinality(Steps) + MaxReruns + MaxCopies
    /\ \A S \in SUBSET Steps : /\ Cardinality(S) \in Nat /\ Cardinality(S) <= Cardinality(Steps)
                               /\ \A x \in Steps \ S : Cardinality(S \cup {x}) = Cardinality(S) + 1
  <1>1. IsFiniteSet(Steps) /\ Cardinality(Steps) \in Nat
    <2>1. IsFiniteSet({}) /\ Steps = {} \cup {"01"} \cup {"02"} \cup {"03"} \cup {"04"} \cup {"05"}
      BY FS_EmptySet DEF Steps
    <2>2. IsFiniteSet({} \cup {"01"})
      BY <2>1, FS_AddElement
    <2>3. IsFiniteSet({} \cup {"01"} \cup {"02"})
      BY <2>2, FS_AddElement
    <2>4. IsFiniteSet({} \cup {"01"} \cup {"02"} \cup {"03"})
      BY <2>3, FS_AddElement
    <2>5. IsFiniteSet({} \cup {"01"} \cup {"02"} \cup {"03"} \cup {"04"})
      BY <2>4, FS_AddElement
    <2> QED BY <2>1, <2>5, FS_AddElement, FS_CardinalityType
  <1>2. ASSUME NEW S \in SUBSET Steps
        PROVE  /\ Cardinality(S) \in Nat /\ Cardinality(S) <= Cardinality(Steps)
               /\ \A x \in Steps \ S : Cardinality(S \cup {x}) = Cardinality(S) + 1
    <2>1. IsFiniteSet(S) /\ Cardinality(S) <= Cardinality(Steps)
      BY <1>1, FS_Subset
    <2>2. \A x : Cardinality(S \cup {x}) = IF x \in S THEN Cardinality(S) ELSE Cardinality(S) + 1
      BY <2>1, FS_AddElement
    <2> QED BY <2>1, <2>2, FS_CardinalityType
  <1>3. Cardinality(Steps) # 0
    BY <1>1, FS_EmptySet DEF Steps
  <1>4. MaxReruns \in Nat /\ MaxCopies \in Nat /\ Runs = 1 .. Cardinality(Steps) + MaxReruns
    BY RunBoundAssumption
  <1>5. \A n \in Nat : Cardinality(1 .. n) = n
    BY FS_Interval, SMT
  <1>6. Cardinality(Runs) = Cardinality(Steps) + MaxReruns
    BY <1>1, <1>4, <1>5, SMT
  <1>7. /\ SetIds = 1 .. Cardinality(Steps) + MaxReruns + MaxCopies
        /\ Cardinality(SetIds) = Cardinality(Steps) + MaxReruns + MaxCopies
    BY <1>1, <1>4, <1>5, <1>6, SMT DEF SetIds
  <1> QED BY <1>1, <1>2, <1>3, <1>4, <1>7

\* There are numbers for the Sets of all runs and of all copies.
LEMMA NumbersBounded ==
    ASSUME OperatorInv
    PROVE  run.number + history.copies <= Cardinality(SetIds) /\ history.copies \in Nat
  <1>1. run.number \in Nat /\ history.copies \in 0 .. MaxCopies
    BY DEF OperatorInv, RunOK, RunType, HistoryType
  <1>2. CASE pipeline = "steps"
    <2>1. history.started \in SUBSET Steps /\ run.number <= Cardinality(history.started) + MaxReruns
      BY <1>2 DEF OperatorInv
    <2> QED BY <1>1, <2>1, RunCounts, SMT
  <1>3. CASE pipeline # "steps"
    <2>1. run.number <= 1
      BY <1>3 DEF OperatorInv
    <2> QED BY <1>1, <2>1, RunCounts, SMT
  <1> QED BY <1>2, <1>3

\* A run that goes on, and a run that ends.
LEMMA RunAdvanced ==
    ASSUME NEW r, RunOK(r), r.status = "running", r.pc <= Len(Program(r.script)),
           NEW n \in RunType, n.script = r.script, n.number = r.number, n.status = r.status,
           n.pc = r.pc + 1, \A name \in Printable \ {"setToken", "components"} : n.at[name] = r.at[name]
    PROVE  RunOK(n)
  <1>1. r.script # "none" /\ r.number \in Runs /\ Addressed(r.script, r.number, r.at)
    BY DEF RunOK
  <1>2. r.script \in ScriptNames /\ r.pc \in Nat
    BY <1>1 DEF RunOK, RunType
  <1>3. Len(Program(r.script)) \in Nat
    BY <1>2, ProgramsShaped, LenProperties
  <1>4. n.pc <= Len(Program(n.script)) + 1
    BY <1>2, <1>3, SMT
  <1>5. n.at \in [Printable -> Int]
    BY DEF RunType
  <1>6. /\ n.at[IssuanceModule] = r.at[IssuanceModule] /\ n.at[ManageModule] = r.at[ManageModule]
        /\ n.at["setTokenCreator"] = r.at["setTokenCreator"]
    BY DEF Printable, IssuanceModule, ManageModule
  <1>7. Addressed(n.script, n.number, n.at)
    BY <1>1, <1>5, <1>6 DEF Addressed
  <1> QED BY <1>1, <1>4, <1>7 DEF RunOK

LEMMA NowhereType ==
    Nowhere \in [Printable -> Int]
  BY DEF Nowhere

LEMMA RunEnded ==
    ASSUME RunOK(run), run.status = "running", NEW status \in {"done", "failed", "crashed"}, End(status)
    PROVE  /\ RunOK(run') /\ run'.script = run.script /\ run'.number = run.number
           /\ run'.status = status /\ run'.pc = run.pc
  <1>1. run \in RunType /\ run.script # "none" /\ status \in Statuses
    BY DEF RunOK, Statuses
  <1>2. run' = [run EXCEPT !.status = status, !.at = Nowhere, !.owned = 0]
    BY DEF End
  <1>3. /\ run' \in RunType /\ run'.script = run.script /\ run'.number = run.number
        /\ run'.status = status /\ run'.pc = run.pc
    BY <1>1, <1>2, NowhereType DEF RunType
  <1> QED BY <1>1, <1>3 DEF RunOK

\* The run goes on to the next instruction; only the addresses that it reads change.
Advanced ==
    /\ run' \in RunType /\ run'.script = run.script /\ run'.number = run.number
    /\ run'.status = "running" /\ run'.pc = run.pc + 1
    /\ \A name \in Printable \ {"setToken", "components"} : run'.at[name] = run.at[name]

LEMMA Continued ==
    ASSUME RunOK(run), run.status = "running", Continue
    PROVE  Advanced /\ run'.at = run.at
  <1>1. run \in RunType /\ run' = [run EXCEPT !.pc = @ + 1]
    BY DEF RunOK, Continue
  <1>2. \A pc \in Nat \ {0} : pc + 1 \in Nat \ {0}
    BY SMT
  <1> QED BY <1>1, <1>2 DEF RunType, Advanced

LEMMA SetTokenRead ==
    ASSUME RunOK(run), run.status = "running", NEW x \in Int,
           run' = [run EXCEPT !.pc = @ + 1, !.at.setToken = x]
    PROVE  Advanced /\ run'.at.setToken = x
  <1>1. run \in RunType /\ run.pc \in Nat \ {0} /\ run.at \in [Printable -> Int]
    BY DEF RunOK, RunType
  <1>2. run.pc + 1 \in Nat \ {0}
    BY <1>1, SMT
  <1>3. "setToken" \in Printable
    BY DEF Printable
  <1> QED BY <1>1, <1>2, <1>3 DEF RunType, Advanced

LEMMA ComponentsFilled ==
    ASSUME RunOK(run), run.status = "running", FillComponents
    PROVE  Advanced /\ run'.at.setToken = run.at.setToken
  <1>1. /\ run \in RunType /\ run.pc \in Nat \ {0} /\ run.at \in [Printable -> Int]
        /\ run.number \in Nat /\ run' = [run EXCEPT !.pc = @ + 1, !.at.components = run.number]
    BY DEF RunOK, RunType, FillComponents
  <1>2. run.pc + 1 \in Nat \ {0} /\ run.number \in Int
    BY <1>1, SMT
  <1>3. "components" \in Printable /\ "setToken" \in Printable
    BY DEF Printable
  <1> QED BY <1>1, <1>2, <1>3 DEF RunType, Advanced

LEMMA OwnedRead ==
    ASSUME RunOK(run), run.status = "running", ChainInv(chain), ReadOwned
    PROVE  Advanced /\ run'.at = run.at
  <1> DEFINE x == IF run.at.setToken \in DOMAIN chain.sets
                    THEN chain.sets[run.at.setToken].storage.totalSupply ELSE 0
  <1>1. run \in RunType /\ run.pc \in Nat \ {0} /\ run' = [run EXCEPT !.pc = @ + 1, !.owned = x]
    BY DEF RunOK, RunType, ReadOwned
  <1>2. run.pc + 1 \in Nat \ {0}
    BY <1>1, SMT
  <1>3. x \in Nat
    <2>1. \A s \in DOMAIN chain.sets : chain.sets[s] \in Sound
      BY ChainFields, ElementOfSeq, LenProperties
    <2>2. \A s \in DOMAIN chain.sets : chain.sets[s].storage \in Storage
      BY <2>1, SoundFields
    <2>3. \A S \in Storage : S.totalSupply \in Nat
      BY DEF Storage
    <2> QED BY <2>2, <2>3
  <1> HIDE DEF x
  <1> QED BY <1>1, <1>2, <1>3 DEF RunType, Advanced

LEMMA AdvancedOK ==
    ASSUME RunOK(run), run.status = "running", run.pc <= Len(Program(run.script)), Advanced
    PROVE  RunOK(run')
  BY RunAdvanced DEF Advanced

\* What the script does next.
LEMMA NextInstruction ==
    ASSUME RunOK(run), NEW op, At(op)
    PROVE  /\ run.status = "running" /\ run.script \in ScriptNames /\ run.number \in Runs
           /\ run.pc \in 1 .. Len(Program(run.script)) /\ run.pc <= Len(Program(run.script))
           /\ Current = Program(run.script)[run.pc] /\ Current.op = op /\ Current \in Any
           /\ run.script \in {"04", "05"} => Current \in Narrow
           /\ Current.fn \in Creations => /\ run.script \in Creators
                                          /\ run.pc = CreateAt(run.script)
                                          /\ Current.fn = CreationOf(run.script)
  <1>1. /\ run.status = "running" /\ run.pc <= Len(Program(run.script)) /\ Current.op = op
        /\ Current = Program(run.script)[run.pc]
    BY DEF At, Current
  <1>2. run.script \in ScriptNames /\ run.number \in Runs /\ run.pc \in Nat \ {0}
    BY <1>1 DEF RunOK, RunType
  <1>3. Len(Program(run.script)) \in Nat
    BY <1>2, ProgramsShaped, LenProperties
  <1>4. run.pc \in 1 .. Len(Program(run.script))
    BY <1>1, <1>2, <1>3, SMT
  <1>5. /\ Current \in Any
        /\ run.script \in {"04", "05"} => Current \in Narrow
        /\ Current.fn \in Creations => /\ run.script \in Creators
                                       /\ run.pc = CreateAt(run.script)
                                       /\ Current.fn = CreationOf(run.script)
    BY <1>1, <1>2, <1>4, InstructionAt
  <1> QED BY <1>1, <1>2, <1>4, <1>5

LEMMA NextTransaction ==
    ASSUME RunOK(run), NEW op, At(op)
    PROVE  /\ Transaction(Current) \in Tx /\ Transaction(Current).fn = Current.fn
           /\ Transaction(Current).run = run.number /\ Transaction(Current).set = run.at.setToken
  <1>1. /\ run.status = "running" /\ Current \in Any
        /\ run.script \in {"04", "05"} => Current \in Narrow
        /\ Current.fn \in Creations => Current.fn = CreationOf(run.script)
    BY NextInstruction
  <1>2. Current.fn = "deploySetToken" => run.script = "unregistered"
    BY <1>1 DEF Creations, CreationOf
  <1> QED BY <1>1, <1>2, TransactionSent

PrintedOK(p) ==
    /\ p \in [Printable -> SUBSET Int]
    /\ \A name \in {"setTokenCreator", IssuanceModule, ManageModule} : p[name] \subseteq Runs

LEMMA OperatorKept ==
    ASSUME OperatorInv, RunOK(run'), run'.script = run.script, run'.number = run.number,
           history' \in HistoryType, history'.started = history.started,
           UNCHANGED configuration, PrintedOK(printed')
    PROVE  OperatorInv'
  <1>1. UNCHANGED <<network, pipeline>>
    BY DEF configuration
  <1> QED BY <1>1 DEF OperatorInv, RunOK, PrintedOK

\* One more value on a list that a script prints.
LEMMA PrintedMore ==
    ASSUME NEW p, PrintedOK(p), NEW name \in Printable, NEW x \in Int,
           name \in {"setTokenCreator", IssuanceModule, ManageModule} => x \in Runs
    PROVE  PrintedOK([p EXCEPT ![name] = @ \cup {x}])
  BY DEF PrintedOK

\* Deployments, calls and reads.
LEMMA InstructOperator ==
    ASSUME NetworkInv, OperatorInv, Instruct
    PROVE  OperatorInv'
  <1> USE DEF NetworkInv
  <1>0. RunOK(run) /\ PrintedOK(printed) /\ history \in HistoryType
    BY DEF OperatorInv, PrintedOK
  <1>1. ASSUME Advanced, run.status = "running", run.pc <= Len(Program(run.script)),
               PrintedOK(printed'), UNCHANGED configuration, history' = history
        PROVE  OperatorInv'
    <2>1. RunOK(run') /\ run'.script = run.script /\ run'.number = run.number
      BY <1>0, <1>1, AdvancedOK DEF Advanced
    <2> QED BY <1>0, <1>1, <2>1, OperatorKept
  <1>2. ASSUME NEW status \in {"done", "failed", "crashed"}, End(status), run.status = "running",
               PrintedOK(printed'), UNCHANGED configuration,
               history' \in HistoryType, history'.started = history.started
        PROVE  OperatorInv'
    <2>1. RunOK(run') /\ run'.script = run.script /\ run'.number = run.number
      BY <1>0, <1>2, RunEnded
    <2> QED BY <1>0, <1>2, <2>1, OperatorKept
  <1>3. CASE SendDeploy
    <2>1. At("deploy") /\ Continue /\ UNCHANGED <<configuration, printed, history>>
      BY <1>3 DEF SendDeploy
    <2>2. run.status = "running" /\ run.pc <= Len(Program(run.script))
      BY <1>0, <2>1, NextInstruction
    <2> QED BY <1>0, <1>1, <2>1, <2>2, Continued
  <1>4. CASE SendCall
    <2>1. At("call") /\ UNCHANGED <<configuration, printed, history>> /\ (Continue \/ End("failed"))
      BY <1>4 DEF SendCall, Throw
    <2>2. run.status = "running" /\ run.pc <= Len(Program(run.script))
      BY <1>0, <2>1, NextInstruction
    <2>3. CASE Continue
      BY <1>0, <1>1, <2>1, <2>2, <2>3, Continued
    <2>4. CASE End("failed")
      BY <1>0, <1>2, <2>1, <2>2, <2>4
    <2> QED BY <2>1, <2>3, <2>4
  <1>5. CASE CompleteDeployed
    <2> DEFINE kind == Current.kind
               stack == IF kind \in Printable THEN run.at[kind] ELSE run.number
    <2>1. /\ At("deployed") /\ Continue /\ UNCHANGED <<configuration, history>>
          /\ \/ printed' = printed
             \/ /\ run.script = "02" /\ kind \in Printable
                /\ printed' = [printed EXCEPT ![kind] = @ \cup {run.at[kind]}]
      BY <1>5 DEF CompleteDeployed
    <2>2. /\ run.status = "running" /\ run.pc <= Len(Program(run.script)) /\ Current \in Any
      BY <1>0, <2>1, NextInstruction
    <2>3. Addressed(run.script, run.number, run.at)
      BY <1>0, <2>2 DEF RunOK
    <2>4. kind \in Kinds
      BY <2>2 DEF Any, InstructionType
    <2>5. run.script = "02" /\ kind \in Printable => run.at[kind] \in Runs /\ run.at[kind] \in Int
      BY <2>3, <2>4 DEF Addressed, Printable, Kinds, IssuanceModule, ManageModule
    <2> HIDE DEF kind
    <2>6. PrintedOK(printed')
      BY <1>0, <2>1, <2>5, PrintedMore
    <2> QED BY <1>0, <1>1, <2>1, <2>2, <2>6, Continued
  <1>6. CASE CompleteWait
    <2>1. At("wait") /\ UNCHANGED <<configuration, printed, history>> /\ (Continue \/ End("failed"))
      BY <1>6 DEF CompleteWait, Throw
    <2>2. run.status = "running" /\ run.pc <= Len(Program(run.script))
      BY <1>0, <2>1, NextInstruction
    <2>3. CASE Continue
      BY <1>0, <1>1, <2>1, <2>2, <2>3, Continued
    <2>4. CASE End("failed")
      BY <1>0, <1>2, <2>1, <2>2, <2>4
    <2> QED BY <2>1, <2>3, <2>4
  <1>7. CASE RetrieveSetToken
    <2>1. /\ At("getCreated") /\ UNCHANGED <<configuration, history>>
          /\ \/ /\ run' = [run EXCEPT !.pc = @ + 1, !.at.setToken = chain.log]
                /\ \/ printed' = printed
                   \/ printed' = [printed EXCEPT !["setToken"] = @ \cup {chain.log}]
             \/ End("failed") /\ printed' = printed
      BY <1>7 DEF RetrieveSetToken, Throw
    <2>2. run.status = "running" /\ run.pc <= Len(Program(run.script))
      BY <1>0, <2>1, NextInstruction
    <2>3. chain.log \in Int
      BY ChainFields
    <2>4. CASE run' = [run EXCEPT !.pc = @ + 1, !.at.setToken = chain.log]
      <3>1. "setToken" \in Printable /\ "setToken" \notin {"setTokenCreator", IssuanceModule, ManageModule}
        BY DEF Printable, IssuanceModule, ManageModule
      <3>2. PrintedOK([printed EXCEPT !["setToken"] = @ \cup {chain.log}])
        BY <1>0, <2>3, <3>1, PrintedMore
      <3>3. PrintedOK(printed')
        BY <1>0, <2>1, <3>2
      <3> QED BY <1>0, <1>1, <2>1, <2>2, <2>3, <2>4, <3>3, SetTokenRead
    <2>5. CASE End("failed") /\ printed' = printed
      BY <1>0, <1>2, <2>1, <2>2, <2>5
    <2> QED BY <2>1, <2>4, <2>5
  <1>8. CASE AttachSetToken
    <2>1. /\ At("attach") /\ UNCHANGED <<configuration, printed, history>>
          /\ run' = [run EXCEPT !.pc = @ + 1, !.at.setToken = chain.created[run.number]]
      BY <1>8 DEF AttachSetToken
    <2>2. run.status = "running" /\ run.pc <= Len(Program(run.script)) /\ run.number \in Runs
      BY <1>0, <2>1, NextInstruction
    <2>3. chain.created[run.number] \in Int
      BY <2>2, ChainFields
    <2> QED BY <1>0, <1>1, <2>1, <2>2, <2>3, SetTokenRead
  <1>9. CASE ReadOwned
    <2>1. At("balanceOf") /\ UNCHANGED <<configuration, printed, history>>
      BY <1>9 DEF ReadOwned
    <2>2. run.status = "running" /\ run.pc <= Len(Program(run.script))
      BY <1>0, <2>1, NextInstruction
    <2> QED BY <1>0, <1>1, <1>9, <2>1, <2>2, OwnedRead
  <1>10. CASE FillComponents
    <2>1. At("getBalances") /\ UNCHANGED <<configuration, printed, history>>
      BY <1>10 DEF FillComponents
    <2>2. run.status = "running" /\ run.pc <= Len(Program(run.script))
      BY <1>0, <2>1, NextInstruction
    <2> QED BY <1>0, <1>1, <1>10, <2>1, <2>2, ComponentsFilled
  <1>11. CASE Exit
    <2> DEFINE d == [script |-> run.script, number |-> run.number, set |-> run.at.setToken]
    <2>1. /\ run.status = "running" /\ End("done") /\ UNCHANGED configuration
          /\ history' = [history EXCEPT !.done = @ \cup {d}]
          /\ \/ printed' = printed
             \/ printed' = [printed EXCEPT !["components"] = @ \cup {run.number}]
      BY <1>11 DEF Exit
    <2>2. run.script \in ScriptNames /\ run.number \in Runs /\ run.number \in Int
          /\ run.at \in [Printable -> Int]
      BY <1>0, <2>1, RunsAssumption DEF RunOK, RunType
    <2>3. /\ "components" \in Printable /\ "setToken" \in Printable
          /\ "components" \notin {"setTokenCreator", IssuanceModule, ManageModule}
      BY DEF Printable, IssuanceModule, ManageModule
    <2>4. d \in [script : ScriptNames, number : Runs, set : Int]
      BY <2>2, <2>3
    <2> HIDE DEF d
    <2>5. history' \in HistoryType /\ history'.started = history.started
      BY <1>0, <2>1, <2>4 DEF HistoryType
    <2>6. PrintedOK([printed EXCEPT !["components"] = @ \cup {run.number}])
      BY <1>0, <2>2, <2>3, PrintedMore
    <2>7. PrintedOK(printed')
      BY <1>0, <2>1, <2>6
    <2> QED BY <1>2, <2>1, <2>5, <2>7
  <1> QED
    BY <1>3, <1>4, <1>5, <1>6, <1>7, <1>8, <1>9, <1>10, <1>11 DEF Instruct

LEMMA AddressesGiven ==
    ASSUME OperatorInv, NEW script \in ScriptNames, NEW n \in Runs,
           NEW at \in IF Inputs(script) = {} THEN {OwnContracts(script, n)} ELSE Pasted(script)
    PROVE  Addressed(script, n, at)
  <1>1. n \in Int
    BY RunsAssumption
  <1>2. CASE script \in {"03", "04", "05"}
    <2> DEFINE value(name) == IF name \in Inputs(script) THEN printed[name] ELSE {0}
    <2>1. Inputs(script) # {} /\ IssuanceModule \in Inputs(script)
      BY <1>2 DEF Inputs
    <2>2. PICK creator \in value("setTokenCreator"), issuance \in value(IssuanceModule),
               manage \in value(ManageModule), set \in value("setToken"),
               components \in value("components") :
            at = [setTokenCreator |-> creator, basicIssuanceModule |-> issuance,
                  componentManageModule |-> manage, setToken |-> set, components |-> components]
      BY <2>1 DEF Pasted
    <2>3. /\ printed \in [Printable -> SUBSET Int] /\ printed["setTokenCreator"] \subseteq Runs
          /\ printed[IssuanceModule] \subseteq Runs /\ printed[ManageModule] \subseteq Runs
      BY DEF OperatorInv
    <2>4. /\ "setToken" \in Printable /\ "components" \in Printable /\ "setTokenCreator" \in Printable
          /\ IssuanceModule \in Printable /\ ManageModule \in Printable
      BY DEF Printable
    <2>5. \A name \in Printable : value(name) \subseteq Int
      BY <2>3
    <2>6. issuance \in Runs
      BY <2>1, <2>2, <2>3
    <2>7. script = "03" => creator \in Runs /\ manage \in Runs
      BY <2>2, <2>3 DEF Inputs
    <2> HIDE DEF value
    <2>8. creator \in Int /\ issuance \in Int /\ manage \in Int /\ set \in Int /\ components \in Int
      BY <2>2, <2>4, <2>5
    <2>9. /\ at \in [Printable -> Int] /\ at["setTokenCreator"] = creator
          /\ at[IssuanceModule] = issuance /\ at[ManageModule] = manage
      BY <2>2, <2>8, RecordsAreFunctions
    <2> QED BY <1>2, <2>6, <2>7, <2>9 DEF Addressed
  <1>3. CASE script \notin {"03", "04", "05"}
    <2>1. at = OwnContracts(script, n)
      BY <1>3 DEF Inputs
    <2>2. at \in [Printable -> Int]
      BY <1>1, <2>1 DEF OwnContracts
    <2>3. /\ "setTokenCreator" \in Printable /\ IssuanceModule \in Printable /\ ManageModule \in Printable
          /\ IssuanceModule \notin {"setToken", "components"}
          /\ ManageModule \notin {"setToken", "components"}
      BY DEF Printable, IssuanceModule, ManageModule
    <2>4. at["setTokenCreator"] = n /\ at[IssuanceModule] = n /\ at[ManageModule] = n
      BY <2>1, <2>3 DEF OwnContracts
    <2> QED BY <2>2, <2>4 DEF Addressed
  <1> QED BY <1>2, <1>3

\* What a start leaves: the number goes up by one and stays within the runs.
LEMMA Started ==
    ASSUME OperatorInv, NEW script \in ScriptNames, StartScript(script)
    PROVE  /\ OperatorInv' /\ run'.number = run.number + 1 /\ run'.script = script
           /\ run'.status = "running" /\ run'.pc = 1 /\ run.status # "running"
           /\ history'.done = history.done
           /\ UNCHANGED <<chain, pending, mempool, configuration>>
  <1> DEFINE n == run.number + 1
  <1>1. /\ run \in RunType /\ run.number \in Nat /\ history \in HistoryType
        /\ history.started \in SUBSET ScriptNames
    BY DEF OperatorInv, RunOK, RunType, HistoryType
  <1>2. /\ run.status # "running"
        /\ script \in history.started => run.number < Cardinality(history.started) + MaxReruns
        /\ pipeline = "steps" => script \in Steps
        /\ pipeline # "steps" => script = pipeline /\ run.number = 0
        /\ history' = [history EXCEPT !.started = @ \cup {script}]
        /\ UNCHANGED <<chain, pending, mempool, configuration, printed>>
    BY DEF StartScript
  <1>3. PICK at \in IF Inputs(script) = {} THEN {OwnContracts(script, n)} ELSE Pasted(script) :
            run' = [script |-> script, number |-> n, pc |-> 1, status |-> "running",
                    at |-> at, owned |-> 0]
    BY DEF StartScript
  <1>4. n \in Nat /\ n \in Runs
    <2>1. CASE pipeline = "steps"
      <3> DEFINE S == history.started
      <3>1. /\ S \in SUBSET Steps /\ run.number <= Cardinality(S) + MaxReruns
        BY <2>1 DEF OperatorInv
      <3> HIDE DEF S
      <3>2. CASE script \in S
        <4>1. run.number < Cardinality(S) + MaxReruns
          BY <1>2, <3>2 DEF S
        <4> QED BY <1>1, <3>1, <4>1, RunCounts, SMT
      <3>3. CASE script \notin S
        <4>1. /\ Cardinality(S \cup {script}) = Cardinality(S) + 1 /\ S \cup {script} \in SUBSET Steps
          BY <1>2, <2>1, <3>1, <3>3, RunCounts
        <4>2. Cardinality(S) + 1 <= Cardinality(Steps)
          BY <4>1, RunCounts
        <4> QED BY <1>1, <3>1, <4>2, RunCounts, SMT
      <3> QED BY <3>2, <3>3
    <2>2. CASE pipeline # "steps"
      <3>1. run.number = 0
        BY <1>2, <2>2
      <3> QED BY <3>1, RunCounts, SMT
    <2> QED BY <2>1, <2>2
  <1>5. Addressed(script, n, at)
    BY <1>3, <1>4, AddressesGiven
  <1> HIDE DEF n
  <1>6. run' \in RunType /\ run'.script = script /\ run'.number = n /\ run'.pc = 1
        /\ run'.status = "running" /\ run'.at = at
    <2>1. at \in [Printable -> Int]
      BY <1>5 DEF Addressed
    <2> QED BY <1>3, <1>4, <2>1 DEF RunType, Statuses
  <1>7. RunOK(run')
    <2>1. Len(Program(script)) \in Nat
      BY ProgramsShaped, LenProperties
    <2>2. 1 <= Len(Program(script)) + 1
      BY <2>1, SMT
    <2>3. script # "none"
      BY DEF ScriptNames, Steps
    <2> QED BY <1>4, <1>5, <1>6, <2>2, <2>3 DEF RunOK
  <1>8. history' \in HistoryType /\ history'.done = history.done
        /\ history'.started = history.started \cup {script}
    BY <1>1, <1>2 DEF HistoryType
  <1>9. pipeline = "steps" => /\ history'.started \subseteq Steps
                              /\ n <= Cardinality(history'.started) + MaxReruns
    <2> SUFFICES ASSUME pipeline = "steps"
                 PROVE  /\ history'.started \subseteq Steps
                        /\ n <= Cardinality(history'.started) + MaxReruns
      OBVIOUS
    <2> DEFINE S == history.started
    <2>1. S \in SUBSET Steps /\ run.number <= Cardinality(S) + MaxReruns /\ script \in Steps
      BY <1>2 DEF OperatorInv
    <2>2. history'.started = S \cup {script}
      BY <1>8
    <2> HIDE DEF S
    <2>3. CASE script \in S
      <3>1. S \cup {script} = S /\ run.number < Cardinality(S) + MaxReruns
        BY <1>2, <2>3 DEF S
      <3>2. n <= Cardinality(S) + MaxReruns
        BY <1>1, <2>1, <3>1, RunCounts, SMT DEF n
      <3> QED BY <2>1, <2>2, <3>1, <3>2
    <2>4. CASE script \notin S
      <3>1. Cardinality(S \cup {script}) = Cardinality(S) + 1
        BY <2>1, <2>4, RunCounts
      <3>2. n <= Cardinality(S) + 1 + MaxReruns
        BY <1>1, <2>1, RunCounts, SMT DEF n
      <3> QED BY <2>1, <2>2, <3>1, <3>2
    <2> QED BY <2>3, <2>4
  <1>10. pipeline # "steps" => n <= 1 /\ script = pipeline
    BY <1>2, SMT DEF n
  <1>11. pipeline' = pipeline /\ network' = network /\ printed' = printed
    BY <1>2 DEF configuration
  <1>12. script \in {"fixture", "unregistered"} => script = pipeline
    BY <1>2, <1>10 DEF Steps
  <1>13. OperatorInv'
    BY <1>6, <1>7, <1>8, <1>9, <1>10, <1>11, <1>12 DEF OperatorInv
  <1> QED BY <1>2, <1>6, <1>8, <1>13 DEF n

LEMMA OperatorStep ==
    ASSUME NetworkInv, OperatorInv, [Next]_vars
    PROVE  OperatorInv'
  <1>1. RunOK(run) /\ PrintedOK(printed) /\ history \in HistoryType
    BY DEF OperatorInv, PrintedOK
  <1>2. CASE Instruct
    BY <1>2, InstructOperator
  <1>3. ASSUME NEW script \in Steps \cup {"11", "fixture", "unregistered"}, StartScript(script)
        PROVE  OperatorInv'
    BY <1>3, Started DEF ScriptNames
  <1>4. CASE Crash
    <2>1. /\ run.status = "running" /\ End("crashed") /\ printed' = printed /\ UNCHANGED configuration
          /\ history' = [history EXCEPT !.crashes = @ + 1]
      BY <1>4 DEF Crash
    <2>2. history' \in HistoryType /\ history'.started = history.started
      BY <1>1, <2>1, SMT DEF HistoryType
    <2>3. RunOK(run') /\ run'.script = run.script /\ run'.number = run.number
      BY <1>1, <2>1, RunEnded
    <2> QED BY <1>1, <2>1, <2>2, <2>3, OperatorKept
  <1>5. CASE Mine \/ MineForeign \/ UNCHANGED vars
    <2>1. UNCHANGED <<configuration, run, printed, history>>
      BY <1>5 DEF Mine, MineForeign, vars, configuration
    <2> QED BY <1>1, <2>1, OperatorKept
  <1>6. CASE MineCopy
    <2>1. /\ UNCHANGED <<configuration, run, printed>> /\ history.copies < MaxCopies
          /\ history' = [history EXCEPT !.copies = @ + 1]
      BY <1>6 DEF MineCopy
    <2>2. MaxCopies \in Nat
      BY RunCounts
    <2>3. history' \in HistoryType /\ history'.started = history.started
      BY <1>1, <2>1, <2>2, SMT DEF HistoryType
    <2> QED BY <1>1, <2>1, <2>3, OperatorKept
  <1> QED BY <1>2, <1>3, <1>4, <1>5, <1>6 DEF Next, Operate

\* A step of the script or the operator that sends nothing.
Sends ==
    /\ \E op \in {"call", "deploy"} : At(op) /\ (op = "call" => DryRunPasses(Current))
    /\ Send(Transaction(Current)) /\ Continue /\ history' = history /\ UNCHANGED configuration

Quiet == UNCHANGED <<chain, pending, mempool, configuration>>

LEMMA NetworkCases ==
    ASSUME [Next]_vars
    PROVE  Sends \/ Mine \/ MineForeign \/ MineCopy \/ Quiet
  <1>1. CASE SendDeploy
    BY <1>1 DEF SendDeploy, Sends
  <1>2. CASE SendCall
    BY <1>2 DEF SendCall, Sends, Quiet
  <1>3. CASE \/ CompleteDeployed \/ CompleteWait \/ RetrieveSetToken \/ AttachSetToken
             \/ ReadOwned \/ FillComponents \/ Exit \/ Crash \/ UNCHANGED vars
    BY <1>3 DEF CompleteDeployed, CompleteWait, RetrieveSetToken, AttachSetToken, ReadOwned,
                FillComponents, Exit, Crash, vars, Quiet, configuration
  <1>4. ASSUME NEW script, StartScript(script)
        PROVE  Quiet
    BY <1>4 DEF StartScript, Quiet
  <1> QED BY <1>1, <1>2, <1>3, <1>4 DEF Next, Instruct, Operate

\* The sets of a chain do not depend on its log.
LEMMA ForeignLog ==
    ASSUME NEW ch, ChainInv(ch), NEW log \in Int, NEW n, n = [ch EXCEPT !.log = log]
    PROVE  ChainInv(n) /\ n.sets = ch.sets /\ n.created = ch.created /\ n.log = log
  <1>1. ch \in ChainType
    BY DEF ChainInv
  <1>2. /\ n \in ChainType /\ n.sets = ch.sets /\ n.created = ch.created /\ n.log = log
        /\ n.controllers = ch.controllers
    BY <1>1 DEF ChainType
  <1> QED BY <1>2 DEF ChainInv

LEMMA SendNetwork ==
    ASSUME NetworkInv, OperatorInv, Sends
    PROVE  /\ NetworkInv' /\ Transaction(Current) \in Tx
           /\ Mined(pending, Transaction(Current), pending')
           /\ network.node = "local" => chain' = pending' /\ mempool' = mempool
           /\ network.node # "local" => /\ chain' = chain
                                        /\ mempool' = Append(mempool, Transaction(Current))
  <1> DEFINE t == Transaction(Current)
  <1>1. /\ ChainInv(chain) /\ ChainInv(pending) /\ mempool \in Seq(Tx) /\ RunOK(run)
        /\ network.node \in {"local", "live"}
        /\ network.node = "local" => mempool = << >> /\ chain = pending
    BY DEF NetworkInv, OperatorInv
  <1>2. t \in Tx
    BY <1>1, NextTransaction DEF Sends
  <1>3. /\ pending' = Block(pending, t) /\ network' = network
        /\ network.node = "local" => chain' = pending' /\ mempool' = mempool
        /\ network.node # "local" => mempool' = Append(mempool, t) /\ chain' = chain
    BY DEF Sends, Send, configuration
  <1> HIDE DEF t
  <1>4. Mined(pending, t, pending')
    BY <1>1, <1>2, <1>3, BlockInv
  <1>5. ChainInv(pending')
    BY <1>4 DEF Mined
  <1>6. CASE network.node = "local"
    BY <1>1, <1>2, <1>3, <1>4, <1>5, <1>6 DEF NetworkInv, t
  <1>7. CASE network.node # "local"
    <2>1. mempool' \in Seq(Tx)
      BY <1>1, <1>2, <1>3, <1>7, AppendProperties
    <2> QED BY <1>1, <1>2, <1>3, <1>4, <1>5, <1>7, <2>1 DEF NetworkInv, t
  <1> QED BY <1>6, <1>7

LEMMA MineNetwork ==
    ASSUME NetworkInv, Mine
    PROVE  /\ NetworkInv' /\ network.node = "live" /\ Head(mempool) \in Tx
           /\ Mined(chain, Head(mempool), chain') /\ pending' = pending
           /\ mempool # << >> /\ mempool' = Tail(mempool) /\ Len(mempool) \in Nat \ {0}
           /\ Len(mempool') = Len(mempool) - 1 /\ Head(mempool) = mempool[1]
           /\ \A j \in 1 .. Len(mempool') : mempool'[j] = mempool[j + 1]
           /\ run' = run /\ history' = history
  <1>1. /\ ChainInv(chain) /\ ChainInv(pending) /\ mempool \in Seq(Tx)
        /\ network.node \in {"local", "live"}
        /\ network.node = "local" => mempool = << >> /\ chain = pending
    BY DEF NetworkInv
  <1>2. /\ mempool # << >> /\ chain' = Block(chain, Head(mempool)) /\ mempool' = Tail(mempool)
        /\ UNCHANGED <<pending, network, run, history>>
    BY DEF Mine, configuration
  <1>3. /\ Head(mempool) \in Tx /\ Tail(mempool) \in Seq(Tx) /\ Len(Tail(mempool)) = Len(mempool) - 1
        /\ \A j \in 1 .. Len(Tail(mempool)) : Tail(mempool)[j] = mempool[j + 1]
    BY <1>1, <1>2, HeadTailProperties
  <1>4. Mined(chain, Head(mempool), chain')
    BY <1>1, <1>2, <1>3, BlockInv
  <1>5. ChainInv(chain') /\ network.node = "live"
    BY <1>1, <1>2, <1>4 DEF Mined
  <1>6. Len(mempool) \in Nat \ {0} /\ Head(mempool) = mempool[1]
    <2>1. Len(mempool) \in Nat /\ Len(mempool) # 0
      BY <1>1, <1>2, EmptySeq, LenProperties
    <2> QED BY <2>1
  <1>7. NetworkInv'
    BY <1>1, <1>2, <1>3, <1>5 DEF NetworkInv
  <1> QED BY <1>2, <1>3, <1>4, <1>5, <1>6, <1>7

LEMMA ForeignNetwork ==
    ASSUME NetworkInv, MineForeign
    PROVE  /\ NetworkInv' /\ network.node = "live" /\ chain'.sets = chain.sets
           /\ chain'.created = chain.created /\ chain'.log \in {NoSet, ForeignSet}
           /\ pending' = pending /\ mempool' = mempool /\ run' = run /\ history' = history
  <1>1. PICK log \in {NoSet, ForeignSet} : chain' = [chain EXCEPT !.log = log]
    BY DEF MineForeign
  <1>2. /\ network.node = "live" /\ UNCHANGED <<pending, network, mempool, run, history>>
    BY DEF MineForeign, configuration
  <1>3. ChainInv(chain) /\ log \in Int
    BY DEF NetworkInv, NoSet, ForeignSet
  <1>4. ChainInv(chain') /\ chain'.sets = chain.sets /\ chain'.created = chain.created /\ chain'.log = log
    BY <1>1, <1>3, ForeignLog
  <1> QED BY <1>2, <1>4 DEF NetworkInv

\* A stranger's creation for the running script, of one of the token lists.
IsCopy(t) ==
    /\ t \in Tx /\ t.fn = "create" /\ t.run = run.number /\ t.stack = run.at["setTokenCreator"]
    /\ t.modules = {<<m, run.at[m]>> : m \in {IssuanceModule, ManageModule}}
    /\ t.tokens \in printed["components"] \cup {run.at["components"]}
    /\ CanCreate(chain, t)

\* It finds nothing queued, as the script is about to read the address.
LEMMA CopyNetwork ==
    ASSUME NetworkInv, OperatorInv, MineCopy
    PROVE  /\ NetworkInv' /\ network.node = "live" /\ mempool = << >> /\ mempool' = mempool
           /\ At("getCreated") /\ run.status = "running" /\ run.script \in {"03", "11"}
           /\ run.script \in Creators /\ run.pc = ReadAt(run.script) /\ run.number \in Runs
           /\ run' = run /\ printed' = printed /\ network' = network /\ pipeline' = pipeline
           /\ history'.done = history.done /\ history'.copies = history.copies + 1
           /\ history.copies < MaxCopies
           /\ \E t : /\ IsCopy(t) /\ chain' = Block(chain, t) /\ pending' = Block(pending, t)
                     /\ Mined(chain, t, chain') /\ Mined(pending, t, pending')
  <1> DEFINE m == {IssuanceModule, ManageModule}
             i == create(m)
             x == Transaction(i)
  <1>1. /\ network.node = "live" /\ At("getCreated") /\ mempool = << >>
        /\ history.copies < MaxCopies /\ history' = [history EXCEPT !.copies = @ + 1]
        /\ run' = run /\ printed' = printed /\ network' = network /\ pipeline' = pipeline
        /\ mempool' = mempool
    BY DEF MineCopy, configuration
  <1>2. PICK list \in printed.components \cup {run.at.components} :
            LET t == [x EXCEPT !.tokens = list]
            IN  CanCreate(chain, t) /\ chain' = Block(chain, t) /\ pending' = Block(pending, t)
    BY DEF MineCopy
  <1>3. /\ RunOK(run) /\ history \in HistoryType /\ printed \in [Printable -> SUBSET Int]
        /\ ChainInv(chain) /\ ChainInv(pending) /\ mempool \in Seq(Tx)
    BY DEF OperatorInv, NetworkInv
  <1>4. /\ history'.done = history.done /\ history'.copies = history.copies + 1
    BY <1>1, <1>3 DEF HistoryType
  <1>5. /\ run.status = "running" /\ run.script \in ScriptNames /\ run.number \in Runs
        /\ run.pc \in 1 .. Len(Program(run.script)) /\ Current = Program(run.script)[run.pc]
        /\ Current.op = "getCreated"
    BY <1>1, <1>3, NextInstruction
  <1>6. run.script \in Creators /\ run.pc = ReadAt(run.script) /\ run.script # "unregistered"
    BY <1>5, InstructionAt
  <1>7. run.script \in {"03", "11"}
    <2>1. run.script = "fixture" => network.node = "local"
      BY DEF OperatorInv
    <2> QED BY <1>1, <1>6, <2>1 DEF Creators
  <1>8. i \in Any /\ i.fn = "create" /\ i.kind = "setTokenCreator" /\ i.modules = m
    BY CreationFields
  <1>9. x \in Tx /\ x.fn = "create" /\ x.run = run.number
    BY <1>3, <1>5, <1>7, <1>8, TransactionSent
  <1>10. /\ x.stack = run.at["setTokenCreator"] /\ x.modules = {<<k, run.at[k]>> : k \in m}
    BY <1>8 DEF Transaction, Printable
  <1>11. list \in Int
    <2>1. run.at \in [Printable -> Int] /\ "components" \in Printable
      BY <1>3 DEF RunOK, RunType, Printable
    <2> QED BY <1>2, <1>3, <2>1
  <1> HIDE DEF x, i
  <1> DEFINE t == [x EXCEPT !.tokens = list]
  <1>12. /\ t \in Tx /\ t.fn = "create" /\ t.run = run.number /\ t.stack = x.stack
         /\ t.modules = x.modules /\ t.tokens = list
    BY <1>9, <1>11 DEF Tx
  <1>13. CanCreate(chain, t) /\ chain' = Block(chain, t) /\ pending' = Block(pending, t)
    BY <1>2
  <1> HIDE DEF t, m
  <1>14. IsCopy(t)
    BY <1>2, <1>10, <1>12, <1>13 DEF IsCopy, m
  <1>15. Mined(chain, t, chain') /\ Mined(pending, t, pending')
    BY <1>3, <1>12, <1>13, BlockInv
  <1>16. NetworkInv'
    BY <1>1, <1>3, <1>15 DEF NetworkInv, Mined
  <1> QED BY <1>1, <1>4, <1>5, <1>6, <1>7, <1>13, <1>14, <1>15, <1>16

LEMMA NetworkStep ==
    ASSUME NetworkInv, OperatorInv, [Next]_vars
    PROVE  NetworkInv'
  <1>1. CASE Quiet
    BY <1>1 DEF Quiet, NetworkInv, configuration
  <1> QED BY <1>1, NetworkCases, SendNetwork, MineNetwork, ForeignNetwork, CopyNetwork

-----------------------------------------------------------------------------
(* No Set is created but once a run, and by strangers *)

Creates(t) == t.fn \in Creations

\* The run has yet to create its Set, if it creates one.
Uncreated ==
    run.status = "running" /\ (run.script \in Creators => run.pc <= CreateAt(run.script))

\* A chain holds at most one Set of each run and the copies, and the queue creates
\* the Sets of the later runs in their order: the runs that crashed or failed on
\* the way may have created none.
CountInv ==
    /\ Len(pending.sets) <= run.number + history.copies
    /\ Len(chain.sets) <= run.number + history.copies
    /\ \A j \in 1 .. Len(mempool) : Creates(mempool[j]) =>
            Len(chain.sets) < mempool[j].run + history.copies /\ mempool[j].run <= run.number
    /\ \A j, k \in 1 .. Len(mempool) : j < k /\ Creates(mempool[j]) /\ Creates(mempool[k]) =>
            mempool[j].run < mempool[k].run
    /\ Uncreated =>
        /\ Len(pending.sets) < run.number + history.copies
        /\ Len(chain.sets) < run.number + history.copies
        /\ \A j \in 1 .. Len(mempool) : Creates(mempool[j]) => mempool[j].run < run.number

-----------------------------------------------------------------------------
(* The address that a script reads is that of the last Set created for it *)

Readers == {"03", "11", "fixture"}

\* After the creation the latest block holds it, once the queue is empty, and the
\* script does not go on before that.  A Set of another stack or manager that it may
\* read instead does not pass the first initialization; a stranger's copy does, and
\* is recorded as the last Set created for the run.
OwnInv ==
    run.status = "running" /\ run.script \in Readers =>
        /\ CreateAt(run.script) < run.pc /\ run.pc <= ReadAt(run.script) =>
            \/ mempool = << >> /\ chain.log \in {NoSet, ForeignSet, chain.created[run.number]}
            \/ /\ mempool # << >> /\ run.pc < ReadAt(run.script)
               /\ mempool[Len(mempool)].fn = "create" /\ mempool[Len(mempool)].run = run.number
        /\ ReadAt(run.script) < run.pc =>
            /\ run.at.setToken \in {ForeignSet, chain.created[run.number]}
            /\ InitAt(run.script) < run.pc => run.at.setToken = chain.created[run.number]
            /\ \A j \in 1 .. Len(mempool) : Creates(mempool[j]) => mempool[j].run < run.number

\* Nothing that is queued changes what an ended run created.
DoneInv ==
    \A d \in history.done : d.script \in Readers =>
        /\ d.number \in Runs /\ d.number <= run.number
        /\ run.status = "running" => d.number < run.number
        /\ d.set = chain.created[d.number]
        /\ \A j \in 1 .. Len(mempool) : Creates(mempool[j]) => mempool[j].run # d.number

-----------------------------------------------------------------------------
(* What a step does to the run *)

\* It goes on without a transaction.
Moves ==
    /\ Quiet /\ Advanced /\ history' = history /\ run.status = "running"
    /\ \/ At("wait") /\ Sent("create") = {}
       \/ At("getCreated") /\ chain.log # NoSet /\ run'.at.setToken = chain.log
       \/ At("attach")
       \/ /\ \E op \in {"deployed", "balanceOf", "getBalances"} : At(op)
          /\ run'.at.setToken = run.at.setToken

\* It ends, at its last instruction or before.
Ends ==
    /\ Quiet /\ history'.copies = history.copies
    /\ run.status = "running" /\ run'.status # "running" /\ run'.number = run.number
    /\ run'.script = run.script
    /\ \/ history'.done = history.done
       \/ /\ run.pc > Len(Program(run.script))
          /\ history'.done = history.done \cup {[script |-> run.script, number |-> run.number,
                                                set |-> run.at.setToken]}

Starts ==
    /\ Quiet /\ history'.copies = history.copies
    /\ \E script \in ScriptNames : StartScript(script)

LEMMA StepCases ==
    ASSUME NetworkInv, OperatorInv, [Next]_vars
    PROVE  \/ Sends /\ Advanced /\ run'.at = run.at /\ run.status = "running"
           \/ Mine
           \/ MineForeign
           \/ MineCopy
           \/ Moves
           \/ Ends
           \/ Starts
           \/ Quiet /\ run' = run /\ history' = history
  <1>1. RunOK(run) /\ ChainInv(chain) /\ history \in HistoryType
    BY DEF OperatorInv, NetworkInv
  <1>2. ASSUME NEW op \in {"deploy", "call"}, At(op), Continue, Sends
        PROVE  Sends /\ Advanced /\ run'.at = run.at /\ run.status = "running"
    <2>1. run.status = "running"
      BY <1>2 DEF At
    <2> QED BY <1>1, <1>2, <2>1, Continued
  <1>3. ASSUME NEW status \in {"failed", "crashed"}, End(status), run.status = "running", Quiet,
               history'.done = history.done, history'.copies = history.copies
        PROVE  Ends
    <2>1. run'.status = status /\ run'.number = run.number /\ run'.script = run.script
      BY <1>1, <1>3, RunEnded
    <2> QED BY <1>3, <2>1 DEF Ends
  <1>4. CASE SendDeploy
    <2>1. At("deploy") /\ Continue /\ Sends
      BY <1>4 DEF SendDeploy, Sends
    <2> QED BY <1>2, <2>1
  <1>5. CASE SendCall
    <2>1. At("call") /\ run.status = "running"
      BY <1>5 DEF SendCall, At
    <2>2. \/ Continue /\ Sends
          \/ End("failed") /\ Quiet /\ history' = history
      BY <1>5 DEF SendCall, Throw, Sends, Quiet
    <2> QED BY <1>2, <1>3, <2>1, <2>2
  <1>6. CASE CompleteDeployed
    <2>1. At("deployed") /\ Continue /\ Quiet /\ history' = history /\ run.status = "running"
      BY <1>6 DEF CompleteDeployed, Quiet, configuration, At
    <2>2. Advanced /\ run'.at = run.at
      BY <1>1, <2>1, Continued
    <2> QED BY <2>1, <2>2 DEF Moves
  <1>7. CASE CompleteWait
    <2>1. /\ At("wait") /\ Sent("create") = {} /\ Quiet /\ history' = history /\ run.status = "running"
          /\ Continue \/ End("failed")
      BY <1>7 DEF CompleteWait, Throw, Quiet, configuration, At
    <2>2. CASE Continue
      BY <1>1, <2>1, <2>2, Continued DEF Moves
    <2> QED BY <1>3, <2>1, <2>2
  <1>8. CASE RetrieveSetToken
    <2>1. /\ At("getCreated") /\ Quiet /\ history' = history /\ run.status = "running"
          /\ \/ /\ chain.log # NoSet
                /\ run' = [run EXCEPT !.pc = @ + 1, !.at.setToken = chain.log]
             \/ End("failed")
      BY <1>8 DEF RetrieveSetToken, Throw, Quiet, configuration, At
    <2>2. CASE chain.log # NoSet /\ run' = [run EXCEPT !.pc = @ + 1, !.at.setToken = chain.log]
      <3>1. chain.log \in Int
        BY <1>1, ChainFields
      <3>2. Advanced /\ run'.at.setToken = chain.log
        BY <1>1, <2>1, <2>2, <3>1, SetTokenRead
      <3> QED BY <2>1, <2>2, <3>2 DEF Moves
    <2> QED BY <1>3, <2>1, <2>2
  <1>9. CASE AttachSetToken
    <2>1. /\ At("attach") /\ Quiet /\ history' = history /\ run.status = "running"
          /\ run' = [run EXCEPT !.pc = @ + 1, !.at.setToken = chain.created[run.number]]
      BY <1>9 DEF AttachSetToken, Quiet, configuration, At
    <2>2. run.number \in Runs
      BY <1>1, <2>1, NextInstruction
    <2>3. chain.created[run.number] \in Int
      BY <1>1, <2>2, ChainFields
    <2>4. Advanced
      BY <1>1, <2>1, <2>3, SetTokenRead
    <2> QED BY <2>1, <2>4 DEF Moves
  <1>10. CASE ReadOwned
    <2>1. At("balanceOf") /\ Quiet /\ history' = history /\ run.status = "running"
      BY <1>10 DEF ReadOwned, Quiet, configuration, At
    <2> QED BY <1>1, <1>10, <2>1, OwnedRead DEF Moves
  <1>11. CASE FillComponents
    <2>1. At("getBalances") /\ Quiet /\ history' = history /\ run.status = "running"
      BY <1>11 DEF FillComponents, Quiet, configuration, At
    <2> QED BY <1>1, <1>11, <2>1, ComponentsFilled DEF Moves
  <1>12. CASE Exit
    <2> DEFINE d == [script |-> run.script, number |-> run.number, set |-> run.at.setToken]
    <2>1. /\ run.status = "running" /\ run.pc > Len(Program(run.script)) /\ End("done") /\ Quiet
          /\ history' = [history EXCEPT !.done = @ \cup {d}]
      BY <1>12 DEF Exit, Quiet, configuration
    <2>2. run'.status = "done" /\ run'.number = run.number /\ run'.script = run.script
      BY <1>1, <2>1, RunEnded
    <2> HIDE DEF d
    <2>3. history'.done = history.done \cup {d} /\ history'.copies = history.copies
      BY <1>1, <2>1 DEF HistoryType
    <2> QED BY <2>1, <2>2, <2>3 DEF Ends, d
  <1>13. CASE Crash
    <2>1. /\ run.status = "running" /\ End("crashed") /\ Quiet
          /\ history' = [history EXCEPT !.crashes = @ + 1]
      BY <1>13 DEF Crash, Quiet
    <2>2. history'.done = history.done /\ history'.copies = history.copies
      BY <1>1, <2>1 DEF HistoryType
    <2> QED BY <1>3, <2>1, <2>2
  <1>14. ASSUME NEW script \in Steps \cup {"11", "fixture", "unregistered"}, StartScript(script)
         PROVE  Starts
    <2>1. Quiet
      BY <1>14 DEF StartScript, Quiet
    <2>2. history'.copies = history.copies
      BY <1>1, <1>14 DEF StartScript, HistoryType
    <2> QED BY <1>14, <2>1, <2>2 DEF Starts, ScriptNames
  <1>15. CASE UNCHANGED vars
    BY <1>15 DEF vars, Quiet, configuration
  <1> QED
    BY <1>4, <1>5, <1>6, <1>7, <1>8, <1>9, <1>10, <1>11, <1>12, <1>13, <1>14, <1>15
    DEF Next, Instruct, Operate

-----------------------------------------------------------------------------
(* The counts *)

LEMMA NumberTypes ==
    ASSUME NetworkInv, OperatorInv
    PROVE  /\ Len(chain.sets) \in Nat /\ Len(pending.sets) \in Nat /\ Len(mempool) \in Nat
           /\ run.number \in Nat /\ run.pc \in Nat /\ history.copies \in Nat
           /\ \A j \in 1 .. Len(mempool) : mempool[j] \in Tx /\ mempool[j].run \in Nat
  <1>1. /\ chain.sets \in Seq(Sound) /\ pending.sets \in Seq(Sound) /\ mempool \in Seq(Tx)
    BY ChainFields DEF NetworkInv
  <1>2. Len(chain.sets) \in Nat /\ Len(pending.sets) \in Nat /\ Len(mempool) \in Nat
    BY <1>1, LenProperties
  <1>3. run.number \in Nat /\ run.pc \in Nat
    BY DEF OperatorInv, RunOK, RunType
  <1>4. \A j \in 1 .. Len(mempool) : mempool[j] \in Tx
    BY <1>1, ElementOfSeq
  <1>5. \A t \in Tx : t.run \in Nat
    BY TxFields, RunsAssumption
  <1> QED BY <1>2, <1>3, <1>4, <1>5, NumbersBounded

\* A block adds a Set only for a creation.
LEMMA MinedCount ==
    ASSUME NEW ch, NEW t, NEW n, Mined(ch, t, n)
    PROVE  Len(n.sets) = Len(ch.sets) \/ (Creates(t) /\ Len(n.sets) = Len(ch.sets) + 1)
  BY DEF Mined, Creates

LEMMA CountSend ==
    ASSUME NetworkInv, OperatorInv, CountInv, Sends, Advanced
    PROVE  CountInv'
  <1> DEFINE t == Transaction(Current)
  <1>1. /\ NetworkInv' /\ t \in Tx /\ Mined(pending, t, pending')
        /\ network.node = "local" => chain' = pending' /\ mempool' = mempool
        /\ network.node # "local" => chain' = chain /\ mempool' = Append(mempool, t)
    BY SendNetwork
  <1>2. /\ t.run = run.number
        /\ Creates(t) => run.script \in Creators /\ run.pc = CreateAt(run.script)
    <2>1. RunOK(run)
      BY DEF OperatorInv
    <2>2. PICK op : At(op)
      BY DEF Sends
    <2> QED BY <2>1, <2>2, NextInstruction, NextTransaction DEF Creates
  <1>3. /\ run'.number = run.number /\ run'.script = run.script /\ run'.pc = run.pc + 1
        /\ run.status = "running" /\ history' = history
    BY DEF Advanced, Sends, At
  <1> HIDE DEF t
  <1>4. Len(pending'.sets) = Len(pending.sets) \/ (Creates(t) /\ Len(pending'.sets) = Len(pending.sets) + 1)
    BY <1>1, MinedCount
  <1>5. /\ Len(chain.sets) \in Nat /\ Len(pending.sets) \in Nat /\ Len(mempool) \in Nat
        /\ run.number \in Nat /\ run.pc \in Nat /\ history.copies \in Nat
        /\ \A j \in 1 .. Len(mempool) : mempool[j] \in Tx /\ mempool[j].run \in Nat
    BY NumberTypes
  <1>6. run.script \in Creators => CreateAt(run.script) \in Nat
    BY Places
  <1>7. Creates(t) => Uncreated /\ ~Uncreated'
    BY <1>2, <1>3, <1>5, <1>6, SMT DEF Uncreated
  <1>8. ~Creates(t) /\ Uncreated' => Uncreated
    BY <1>3, <1>5, <1>6, SMT DEF Uncreated
  <1>9. /\ Len(pending'.sets) <= run.number + history.copies
        /\ Uncreated' => Len(pending'.sets) < run.number + history.copies
    BY <1>4, <1>5, <1>7, <1>8, SMT DEF CountInv
  <1>10. CASE network.node = "local"
    <2>1. mempool' = mempool /\ chain' = pending' /\ Len(mempool) = 0
      BY <1>1, <1>10, EmptySeq DEF NetworkInv
    <2>2. \A j \in 1 .. Len(mempool') : FALSE
      BY <2>1, SMT
    <2> QED BY <1>3, <1>9, <2>1, <2>2 DEF CountInv
  <1>11. CASE network.node # "local"
    <2> DEFINE L == Len(mempool)
    <2>1. /\ chain' = chain /\ Len(mempool') = L + 1 /\ mempool'[L + 1] = t
          /\ \A j \in 1 .. L : mempool'[j] = mempool[j]
      BY <1>1, <1>11, AppendProperties DEF NetworkInv
    <2> HIDE DEF L
    <2>2. L \in Nat /\ L = Len(mempool) /\ \A j \in 1 .. L + 1 : j \in 1 .. L \/ j = L + 1
      BY <1>5, SMT DEF L
    <2>3. /\ Len(chain.sets) <= run.number + history.copies
          /\ Uncreated' => Len(chain.sets) < run.number + history.copies
      BY <1>5, <1>7, <1>8, SMT DEF CountInv
    <2>4. ASSUME NEW j \in 1 .. L + 1, Creates(mempool'[j])
          PROVE  Len(chain.sets) < mempool'[j].run + history.copies /\ mempool'[j].run <= run.number
      <3>1. CASE j \in 1 .. L
        BY <2>1, <2>2, <2>4, <3>1 DEF CountInv
      <3>2. CASE j = L + 1
        <4>1. Uncreated
          BY <1>7, <2>1, <2>4, <3>2
        <4> QED BY <1>2, <1>5, <2>1, <3>2, <4>1, SMT DEF CountInv
      <3> QED BY <2>2, <3>1, <3>2
    <2>5. ASSUME NEW j \in 1 .. L + 1, NEW k \in 1 .. L + 1, j < k,
                 Creates(mempool'[j]), Creates(mempool'[k])
          PROVE  mempool'[j].run < mempool'[k].run
      <3>1. j \in 1 .. L
        BY <2>2, <2>5, SMT
      <3>2. CASE k \in 1 .. L
        BY <2>1, <2>2, <2>5, <3>1, <3>2 DEF CountInv
      <3>3. CASE k = L + 1
        <4>1. Uncreated
          BY <1>7, <2>1, <2>5, <3>3
        <4> QED BY <1>2, <2>1, <2>2, <2>5, <3>1, <3>3, <4>1 DEF CountInv
      <3> QED BY <2>2, <3>2, <3>3
    <2>6. ASSUME Uncreated', NEW j \in 1 .. L + 1, Creates(mempool'[j])
          PROVE  mempool'[j].run < run.number
      <3>1. ~Creates(t) /\ Uncreated
        BY <1>7, <1>8, <2>6
      <3>2. j \in 1 .. L
        BY <2>1, <2>2, <2>6, <3>1
      <3> QED BY <2>1, <2>2, <2>6, <3>1, <3>2 DEF CountInv
    <2> QED BY <1>3, <1>9, <2>1, <2>3, <2>4, <2>5, <2>6 DEF CountInv
  <1> QED BY <1>10, <1>11

LEMMA CountMine ==
    ASSUME NetworkInv, OperatorInv, CountInv, Mine
    PROVE  CountInv'
  <1> DEFINE t == Head(mempool)
             L == Len(mempool)
  <1>1. /\ Mined(chain, t, chain') /\ pending' = pending /\ run' = run /\ history' = history
        /\ L \in Nat \ {0} /\ Len(mempool') = L - 1 /\ t = mempool[1]
        /\ \A j \in 1 .. Len(mempool') : mempool'[j] = mempool[j + 1]
    BY MineNetwork
  <1>2. /\ Len(chain.sets) \in Nat /\ run.number \in Nat /\ history.copies \in Nat
        /\ \A j \in 1 .. L : mempool[j].run \in Nat
    BY NumberTypes
  <1>3. Len(chain'.sets) = Len(chain.sets) \/ (Creates(t) /\ Len(chain'.sets) = Len(chain.sets) + 1)
    BY <1>1, MinedCount
  <1>4. Uncreated' = Uncreated
    BY <1>1 DEF Uncreated
  <1>5. /\ Len(pending.sets) <= run.number + history.copies
        /\ Len(chain.sets) <= run.number + history.copies
        /\ \A j \in 1 .. L : Creates(mempool[j]) =>
                Len(chain.sets) < mempool[j].run + history.copies /\ mempool[j].run <= run.number
        /\ \A j, k \in 1 .. L : j < k /\ Creates(mempool[j]) /\ Creates(mempool[k]) =>
                mempool[j].run < mempool[k].run
        /\ Uncreated =>
            /\ Len(pending.sets) < run.number + history.copies
            /\ Len(chain.sets) < run.number + history.copies
            /\ \A j \in 1 .. L : Creates(mempool[j]) => mempool[j].run < run.number
    BY DEF CountInv
  <1> HIDE DEF t, L
  <1>6. 1 \in 1 .. L /\ \A j \in 1 .. L - 1 : j + 1 \in 1 .. L /\ 1 < j + 1
    BY <1>1, SMT
  <1>7. Creates(t) => /\ Len(chain.sets) < mempool[1].run + history.copies /\ mempool[1].run <= run.number
                      /\ Uncreated => mempool[1].run < run.number
    BY <1>1, <1>5, <1>6
  <1>8. /\ Len(chain'.sets) <= run.number + history.copies
        /\ Uncreated => Len(chain'.sets) < run.number + history.copies
    BY <1>2, <1>3, <1>5, <1>6, <1>7, SMT
  <1>9. ASSUME NEW j \in 1 .. L - 1, Creates(mempool[j + 1])
        PROVE  Len(chain'.sets) < mempool[j + 1].run + history.copies
    <2>1. j + 1 \in 1 .. L /\ Len(chain.sets) < mempool[j + 1].run + history.copies
      BY <1>5, <1>6, <1>9
    <2>2. Creates(t) => mempool[1].run < mempool[j + 1].run
      BY <1>1, <1>5, <1>6, <1>9
    <2> QED BY <1>2, <1>3, <1>6, <1>7, <2>1, <2>2, SMT
  <1>10. ASSUME NEW j \in 1 .. L - 1, NEW k \in 1 .. L - 1, j < k,
                Creates(mempool[j + 1]), Creates(mempool[k + 1])
         PROVE  mempool[j + 1].run < mempool[k + 1].run
    <2>1. j + 1 \in 1 .. L /\ k + 1 \in 1 .. L /\ j + 1 < k + 1
      BY <1>1, <1>10, SMT
    <2> QED BY <1>5, <1>10, <2>1
  <1>11. \A j \in 1 .. L - 1 : Creates(mempool[j + 1]) => mempool[j + 1].run <= run.number
    BY <1>5, <1>6
  <1>12. Uncreated => \A j \in 1 .. L - 1 : Creates(mempool[j + 1]) => mempool[j + 1].run < run.number
    BY <1>5, <1>6
  <1> QED BY <1>1, <1>4, <1>5, <1>8, <1>9, <1>10, <1>11, <1>12 DEF CountInv

LEMMA CountQuiet ==
    ASSUME NetworkInv, OperatorInv, CountInv, Quiet, history'.copies = history.copies,
           \/ run'.number = run.number /\ (Uncreated' => Uncreated)
           \/ run'.number = run.number + 1
    PROVE  CountInv'
  <1>1. chain' = chain /\ pending' = pending /\ mempool' = mempool
    BY DEF Quiet
  <1>2. CASE run'.number = run.number /\ (Uncreated' => Uncreated)
    BY <1>1, <1>2 DEF CountInv
  <1>3. CASE run'.number = run.number + 1
    <2>1. /\ Len(chain.sets) \in Nat /\ Len(pending.sets) \in Nat /\ run.number \in Nat
          /\ history.copies \in Nat
          /\ \A j \in 1 .. Len(mempool) : mempool[j].run \in Nat
      BY NumberTypes
    <2>2. /\ Len(chain.sets) < run.number + 1 + history.copies
          /\ Len(pending.sets) < run.number + 1 + history.copies
      BY <2>1, SMT DEF CountInv
    <2>3. \A j \in 1 .. Len(mempool) : Creates(mempool[j]) =>
                /\ Len(chain.sets) < mempool[j].run + history.copies
                /\ mempool[j].run < run.number + 1 /\ mempool[j].run <= run.number + 1
      BY <2>1, SMT DEF CountInv
    <2>4. \A m, n \in Nat : m < n => m <= n
      BY SMT
    <2>5. run.number + 1 + history.copies \in Nat
      BY <2>1, SMT
    <2> QED BY <1>1, <1>3, <2>1, <2>2, <2>3, <2>4, <2>5 DEF CountInv
  <1> QED BY <1>2, <1>3

LEMMA CountStep ==
    ASSUME NetworkInv, OperatorInv, CountInv, [Next]_vars
    PROVE  CountInv'
  <1>1. CASE Sends /\ Advanced
    BY <1>1, CountSend
  <1>2. CASE Mine
    BY <1>2, CountMine
  <1>3. CASE MineForeign
    <2>1. /\ chain'.sets = chain.sets /\ pending' = pending /\ mempool' = mempool /\ run' = run
          /\ history' = history
      BY <1>3, ForeignNetwork
    <2> QED BY <2>1 DEF CountInv, Uncreated
  <1>4. CASE Moves
    <2>1. /\ Quiet /\ run'.number = run.number /\ run'.script = run.script /\ run'.pc = run.pc + 1
          /\ run.status = "running" /\ history' = history
      BY <1>4 DEF Moves, Advanced
    <2>2. run.script \in Creators => CreateAt(run.script) \in Nat
      BY Places
    <2>3. run.pc \in Nat
      BY NumberTypes
    <2>4. Uncreated' => Uncreated
      BY <2>1, <2>2, <2>3, SMT DEF Uncreated
    <2> QED BY <2>1, <2>4, CountQuiet
  <1>5. CASE Ends
    <2>1. Quiet /\ run'.number = run.number /\ ~Uncreated' /\ history'.copies = history.copies
      BY <1>5 DEF Ends, Uncreated
    <2> QED BY <2>1, CountQuiet
  <1>6. CASE Starts
    <2>1. Quiet /\ run'.number = run.number + 1 /\ history'.copies = history.copies
      BY <1>6, Started DEF Starts
    <2> QED BY <2>1, CountQuiet
  <1>7. CASE Quiet /\ run' = run /\ history' = history
    <2>1. run'.number = run.number /\ (Uncreated' => Uncreated)
      BY <1>7 DEF Uncreated
    <2> QED BY <1>7, <2>1, CountQuiet
  <1>8. CASE MineCopy
    <2>1. /\ mempool = << >> /\ mempool' = mempool /\ run' = run
          /\ run.script \in Creators /\ run.pc = ReadAt(run.script)
          /\ history'.copies = history.copies + 1
          /\ \E t : Mined(chain, t, chain') /\ Mined(pending, t, pending')
      BY <1>8, CopyNetwork
    <2>2. /\ Len(chain'.sets) = Len(chain.sets) \/ Len(chain'.sets) = Len(chain.sets) + 1
          /\ Len(pending'.sets) = Len(pending.sets) \/ Len(pending'.sets) = Len(pending.sets) + 1
      BY <2>1, MinedCount
    <2>3. /\ Len(chain'.sets) <= run.number + (history.copies + 1)
          /\ Len(pending'.sets) <= run.number + (history.copies + 1)
      BY <2>2, NumberTypes, SMT DEF CountInv
    <2>4. ~(run.pc <= CreateAt(run.script)) /\ \A j \in 1 .. Len(mempool') : FALSE
      BY <2>1, Places, NumberTypes, EmptySeq, SMT
    <2> QED BY <2>1, <2>3, <2>4 DEF CountInv, Uncreated
  <1> QED BY <1>1, <1>2, <1>3, <1>4, <1>5, <1>6, <1>7, <1>8, StepCases

-----------------------------------------------------------------------------
(* The address that a script reads *)

\* The instructions of a script that reads its address, by place.
LEMMA ReaderInstruction ==
    ASSUME OperatorInv, NEW op, At(op), run.script \in Readers,
           NEW c, c = CreateAt(run.script), NEW r, r = ReadAt(run.script), NEW i, i = InitAt(run.script)
    PROVE  /\ c \in Nat /\ r \in Nat /\ i \in Nat /\ run.pc \in Nat /\ 0 < c /\ c < r /\ r < i
           /\ Current.op = op /\ run.status = "running" /\ run.number \in Runs
           /\ Creates(Current) => run.pc = c
           /\ run.pc = c => op = "call" /\ Current.fn = "create"
           /\ c < run.pc /\ run.pc < r => op = "wait"
           /\ run.pc = r => op = "getCreated"
           /\ run.pc = i => Current = initializeModule(IssuanceModule)
           /\ op = "wait" => c < run.pc /\ run.pc < r
           /\ op \in {"getCreated", "attach"} => run.pc = r
  <1>1. /\ run.status = "running" /\ run.script \in ScriptNames /\ run.number \in Runs
        /\ run.pc \in 1 .. Len(Program(run.script)) /\ run.pc <= Len(Program(run.script))
        /\ Current = Program(run.script)[run.pc] /\ Current.op = op
    BY NextInstruction DEF OperatorInv
  <1>2. run.script \in Creators /\ CreationOf(run.script) = "create" /\ run.script # "unregistered"
    BY DEF Readers, Creators, CreationOf
  <1>3. /\ c \in Nat \ {0} /\ r \in Nat /\ i \in Nat /\ c < r /\ r < i
    BY <1>2, Places
  <1>4. 0 < c /\ run.pc \in Nat
    BY <1>1, <1>3, SMT
  <1>5. /\ Current.fn \in Creations => run.pc = CreateAt(run.script)
        /\ run.pc = CreateAt(run.script) => Current.op = "call" /\ Current.fn = CreationOf(run.script)
        /\ Current.op \in {"getCreated", "attach"} => run.pc = ReadAt(run.script)
        /\ Current.op = "wait" => CreateAt(run.script) < run.pc /\ run.pc < ReadAt(run.script)
        /\ run.pc = InitAt(run.script) => Current = initializeModule(IssuanceModule)
        /\ CreateAt(run.script) < run.pc /\ run.pc < ReadAt(run.script) => Current.op = "wait"
        /\ run.pc = ReadAt(run.script) => Current.op = "getCreated"
    BY <1>1, <1>2, InstructionAt
  <1> QED BY <1>1, <1>2, <1>3, <1>4, <1>5 DEF Creates

\* A dry run that passes names a Set that is on the chain.
LEMMA InitializationPasses ==
    ASSUME NEW ch, ChainInv(ch), NEW t \in Tx, t.fn = "initializeModule", Succeeds(ch, t)
    PROVE  t.set # ForeignSet
  <1>1. CanInitializeModule(ch, t)
    BY DEF Succeeds
  <1>2. t.set \in ch.controllers[t.stack].sets /\ t.stack \in Runs
    BY <1>1, TxFields DEF CanInitializeModule, ValidSet
  <1>3. t.set \in DOMAIN ch.sets
    BY <1>2 DEF ChainInv
  <1>4. DOMAIN ch.sets = 1 .. Len(ch.sets) /\ Len(ch.sets) \in Nat
    BY ChainFields, LenProperties
  <1> QED BY <1>3, <1>4, SMT DEF ForeignSet

LEMMA InitializeModuleFields ==
    /\ initializeModule(IssuanceModule).fn = "initializeModule"
    /\ initializeModule(IssuanceModule).checked = TRUE
    /\ initializeModule(IssuanceModule).op = "call"
  BY InstructionFields DEF initializeModule, Call, Instruction

\* A mined creation is the latest log, and no other transaction is one.
LEMMA MinedLog ==
    ASSUME NEW ch, ChainInv(ch), NEW t \in Tx, NEW n, Mined(ch, t, n)
    PROVE  /\ t.fn = "create" => n.log \in {NoSet, n.created[t.run]}
           /\ \A r \in Runs : n.created[r] = ch.created[r] \/ (Creates(t) /\ t.run = r)
  <1>1. ch.created \in [Runs -> Int] /\ t.run \in Runs
    BY ChainFields, TxFields
  <1>2. CASE n.created = ch.created /\ n.log = NoSet
    BY <1>2
  <1>3. CASE /\ Creates(t) /\ n.created = [ch.created EXCEPT ![t.run] = Len(ch.sets) + 1]
             /\ n.log = IF t.fn = "create" THEN Len(ch.sets) + 1 ELSE NoSet
    BY <1>1, <1>3
  <1> QED BY <1>2, <1>3 DEF Mined, Creates

LEMMA OwnSend ==
    ASSUME NetworkInv, OperatorInv, OwnInv, Sends, Advanced, run'.at = run.at
    PROVE  OwnInv'
  <1> DEFINE t == Transaction(Current)
             c == CreateAt(run.script)
             r == ReadAt(run.script)
             i == InitAt(run.script)
             n == run.number
             L == Len(mempool)
  <1>1. /\ NetworkInv' /\ t \in Tx /\ Mined(pending, t, pending')
        /\ network.node = "local" => chain' = pending' /\ mempool' = mempool
        /\ network.node # "local" => chain' = chain /\ mempool' = Append(mempool, t)
    BY SendNetwork
  <1>2. PICK op \in {"call", "deploy"} : At(op) /\ (op = "call" => DryRunPasses(Current))
    BY DEF Sends
  <1>3. /\ t.run = n /\ t.fn = Current.fn /\ t.set = run.at.setToken
    BY <1>2, NextTransaction DEF OperatorInv
  <1>4. /\ run'.number = n /\ run'.script = run.script /\ run'.pc = run.pc + 1
        /\ run'.status = "running"
    BY DEF Advanced
  <1>5. SUFFICES ASSUME run.script \in Readers
                 PROVE  /\ c < run.pc + 1 /\ run.pc + 1 <= r =>
                            \/ mempool' = << >> /\ chain'.log \in {NoSet, ForeignSet, chain'.created[n]}
                            \/ /\ mempool' # << >> /\ run.pc + 1 < r
                               /\ mempool'[Len(mempool')].fn = "create"
                               /\ mempool'[Len(mempool')].run = n
                        /\ r < run.pc + 1 =>
                            /\ run.at.setToken \in {ForeignSet, chain'.created[n]}
                            /\ i < run.pc + 1 => run.at.setToken = chain'.created[n]
                            /\ \A j \in 1 .. Len(mempool') :
                                    Creates(mempool'[j]) => mempool'[j].run < n
    BY <1>4 DEF OwnInv
  <1>6. /\ c \in Nat /\ r \in Nat /\ i \in Nat /\ run.pc \in Nat /\ c < r /\ r < i
        /\ run.status = "running" /\ n \in Runs
        /\ Creates(Current) => run.pc = c
        /\ run.pc = c => Current.fn = "create"
        /\ ~(c < run.pc /\ run.pc < r) /\ run.pc # r
        /\ run.pc = i => Current = initializeModule(IssuanceModule)
        /\ Current.op = op
    BY <1>2, <1>5, ReaderInstruction
  <1>7. /\ ChainInv(pending) /\ ChainInv(chain) /\ mempool \in Seq(Tx) /\ L \in Nat
        /\ network.node = "local" => mempool = << >> /\ chain = pending
    BY LenProperties DEF NetworkInv
  <1>8. network.node # "local" => /\ mempool' # << >> /\ Len(mempool') = L + 1 /\ mempool'[L + 1] = t
                                  /\ \A j \in 1 .. L : mempool'[j] = mempool[j]
    BY <1>1, <1>7, AppendProperties
  <1>9. /\ t.fn = "create" => pending'.log \in {NoSet, pending'.created[n]}
        /\ ~Creates(t) => pending'.created[n] = pending.created[n]
    BY <1>1, <1>3, <1>6, <1>7, MinedLog
  <1>10. run.pc = c => /\ t.fn = "create" /\ (network.node # "local" => run.pc + 1 < r)
    <2>1. run.script = "fixture" => network.node = "local"
      BY DEF OperatorInv
    <2>2. run.script \in {"03", "11"} => r = c + 2
      BY DEF ReadAt
    <2> QED BY <1>3, <1>5, <1>6, <2>1, <2>2, SMT DEF Readers
  <1>11. r < run.pc => /\ ~Creates(t)
                       /\ run.at.setToken \in {ForeignSet, chain.created[n]}
                       /\ i < run.pc => run.at.setToken = chain.created[n]
                       /\ \A j \in 1 .. L : Creates(mempool[j]) => mempool[j].run < n
    <2>1. r < run.pc => ~Creates(t)
      BY <1>3, <1>6, SMT DEF Creates
    <2> QED BY <1>5, <1>6, <2>1 DEF OwnInv
  <1>12. run.pc = i => run.at.setToken # ForeignSet
    <2> SUFFICES ASSUME run.pc = i PROVE run.at.setToken # ForeignSet
      OBVIOUS
    <2>1. Current.fn = "initializeModule" /\ Current.checked = TRUE /\ op = "call"
      BY <1>6, InitializeModuleFields
    <2>2. Succeeds(Estimated, t)
      BY <1>2, <2>1 DEF DryRunPasses
    <2>3. ChainInv(Estimated)
      BY <1>7 DEF Estimated
    <2> HIDE DEF t
    <2> QED BY <1>1, <1>3, <2>1, <2>2, <2>3, InitializationPasses
  <1> HIDE DEF t, c, r, i, n, L
  <1>13. CASE c < run.pc + 1 /\ run.pc + 1 <= r
    <2>1. run.pc = c
      BY <1>6, <1>13, SMT
    <2>2. ~(r < run.pc + 1) /\ t.fn = "create"
      BY <1>6, <1>10, <1>13, <2>1, SMT
    <2>3. CASE network.node = "local"
      BY <1>1, <1>7, <1>9, <2>2, <2>3
    <2>4. CASE network.node # "local"
      BY <1>3, <1>8, <1>10, <2>1, <2>2, <2>4
    <2> QED BY <2>3, <2>4
  <1>14. CASE r < run.pc + 1
    <2>1. r < run.pc /\ ~(run.pc + 1 <= r) /\ (i < run.pc + 1 => i < run.pc \/ run.pc = i)
      BY <1>6, <1>14, SMT
    <2>2. chain'.created[n] = chain.created[n]
      BY <1>1, <1>7, <1>9, <1>11, <2>1
    <2>3. /\ run.at.setToken \in {ForeignSet, chain'.created[n]}
          /\ i < run.pc + 1 => run.at.setToken = chain'.created[n]
      BY <1>11, <1>12, <2>1, <2>2
    <2>4. ASSUME NEW j \in 1 .. Len(mempool'), Creates(mempool'[j])
          PROVE  mempool'[j].run < n
      <3>1. CASE network.node = "local"
        <4>1. mempool' = mempool /\ Len(mempool') = L
          BY <1>1, <3>1 DEF L
        <4> QED BY <1>11, <2>1, <2>4, <4>1
      <3>2. CASE network.node # "local"
        <4>1. j \in 1 .. L \/ j = L + 1
          BY <1>7, <1>8, <3>2, SMT
        <4>2. j # L + 1
          BY <1>8, <1>11, <2>1, <2>4, <3>2
        <4> QED BY <1>8, <1>11, <2>1, <2>4, <3>2, <4>1, <4>2
      <3> QED BY <3>1, <3>2
    <2> QED BY <2>1, <2>3, <2>4
  <1> QED BY <1>13, <1>14

LEMMA OwnMine ==
    ASSUME NetworkInv, OperatorInv, OwnInv, Mine
    PROVE  OwnInv'
  <1> DEFINE t == Head(mempool)
             c == CreateAt(run.script)
             r == ReadAt(run.script)
             i == InitAt(run.script)
             n == run.number
             L == Len(mempool)
  <1>1. /\ NetworkInv' /\ t \in Tx /\ Mined(chain, t, chain') /\ run' = run /\ mempool # << >>
        /\ L \in Nat \ {0} /\ Len(mempool') = L - 1 /\ t = mempool[1]
        /\ \A j \in 1 .. Len(mempool') : mempool'[j] = mempool[j + 1]
    BY MineNetwork
  <1>2. SUFFICES ASSUME run.status = "running", run.script \in Readers
                 PROVE  /\ c < run.pc /\ run.pc <= r =>
                            \/ mempool' = << >> /\ chain'.log \in {NoSet, ForeignSet, chain'.created[n]}
                            \/ /\ mempool' # << >> /\ run.pc < r
                               /\ mempool'[Len(mempool')].fn = "create"
                               /\ mempool'[Len(mempool')].run = n
                        /\ r < run.pc =>
                            /\ run.at.setToken \in {ForeignSet, chain'.created[n]}
                            /\ i < run.pc => run.at.setToken = chain'.created[n]
                            /\ \A j \in 1 .. Len(mempool') :
                                    Creates(mempool'[j]) => mempool'[j].run < n
    BY <1>1 DEF OwnInv
  <1>3. /\ c < run.pc /\ run.pc <= r =>
            /\ run.pc < r /\ mempool[L].fn = "create" /\ mempool[L].run = n
        /\ r < run.pc =>
            /\ run.at.setToken \in {ForeignSet, chain.created[n]}
            /\ i < run.pc => run.at.setToken = chain.created[n]
            /\ \A j \in 1 .. L : Creates(mempool[j]) => mempool[j].run < n
    BY <1>1, <1>2 DEF OwnInv
  <1>4. n \in Runs /\ n \in Nat /\ ChainInv(chain) /\ mempool' \in Seq(Tx)
    <2>1. RunOK(run) /\ n \in Nat
      BY NumberTypes DEF OperatorInv
    <2> QED BY <1>1, <1>2, <2>1 DEF RunOK, NetworkInv
  <1>5. /\ t.fn = "create" => chain'.log \in {NoSet, chain'.created[t.run]}
        /\ chain'.created[n] = chain.created[n] \/ (Creates(t) /\ t.run = n)
    BY <1>1, <1>4, MinedLog
  <1> HIDE DEF t, c, r, i, n, L
  <1>6. ASSUME c < run.pc, run.pc <= r
        PROVE  \/ mempool' = << >> /\ chain'.log \in {NoSet, ForeignSet, chain'.created[n]}
               \/ /\ mempool' # << >> /\ run.pc < r
                  /\ mempool'[Len(mempool')].fn = "create"
                  /\ mempool'[Len(mempool')].run = n
    <2>1. CASE L = 1
      <3>1. Len(mempool') = 0
        BY <1>1, <2>1, SMT
      <3>2. mempool' = << >>
        BY <1>4, <3>1, EmptySeq
      <3> QED BY <1>1, <1>3, <1>5, <1>6, <2>1, <3>2
    <2>2. CASE L # 1
      <3>1. L - 1 \in 1 .. Len(mempool') /\ L - 1 + 1 = L /\ Len(mempool') = L - 1
        BY <1>1, <2>2, SMT
      <3>2. mempool'[Len(mempool')] = mempool[L] /\ mempool' # << >>
        BY <1>1, <3>1, EmptySeq, SMT
      <3> QED BY <1>3, <1>6, <3>2
    <2> QED BY <2>1, <2>2
  <1>7. ASSUME r < run.pc
        PROVE  /\ run.at.setToken \in {ForeignSet, chain'.created[n]}
               /\ i < run.pc => run.at.setToken = chain'.created[n]
               /\ \A j \in 1 .. Len(mempool') : Creates(mempool'[j]) => mempool'[j].run < n
    <2>1. 1 \in 1 .. L /\ \A j \in 1 .. Len(mempool') : j + 1 \in 1 .. L
      BY <1>1, SMT
    <2>2. Creates(t) => t.run < n
      BY <1>1, <1>3, <1>7, <2>1
    <2>3. ~(n < n)
      BY <1>4, SMT
    <2>4. chain'.created[n] = chain.created[n]
      BY <1>5, <2>2, <2>3
    <2>5. \A j \in 1 .. Len(mempool') : Creates(mempool'[j]) => mempool'[j].run < n
      BY <1>1, <1>3, <1>7, <2>1
    <2> QED BY <1>3, <1>7, <2>4, <2>5
  <1> QED BY <1>6, <1>7

LEMMA OwnMoves ==
    ASSUME NetworkInv, OperatorInv, OwnInv, Moves
    PROVE  OwnInv'
  <1> DEFINE c == CreateAt(run.script)
             r == ReadAt(run.script)
             i == InitAt(run.script)
             n == run.number
             L == Len(mempool)
  <1>1. /\ chain' = chain /\ mempool' = mempool /\ run.status = "running"
        /\ run'.number = n /\ run'.script = run.script /\ run'.pc = run.pc + 1
        /\ run'.status = "running"
    BY DEF Moves, Quiet, Advanced
  <1>2. SUFFICES ASSUME run.script \in Readers
                 PROVE  /\ c < run.pc + 1 /\ run.pc + 1 <= r =>
                            \/ mempool = << >> /\ chain.log \in {NoSet, ForeignSet, chain.created[n]}
                            \/ /\ mempool # << >> /\ run.pc + 1 < r
                               /\ mempool[L].fn = "create" /\ mempool[L].run = n
                        /\ r < run.pc + 1 =>
                            /\ run'.at.setToken \in {ForeignSet, chain.created[n]}
                            /\ i < run.pc + 1 => run'.at.setToken = chain.created[n]
                            /\ \A j \in 1 .. L : Creates(mempool[j]) => mempool[j].run < n
    BY <1>1 DEF OwnInv
  <1>3. /\ c < run.pc /\ run.pc <= r =>
            \/ mempool = << >> /\ chain.log \in {NoSet, ForeignSet, chain.created[n]}
            \/ mempool # << >> /\ run.pc < r /\ mempool[L].fn = "create" /\ mempool[L].run = n
        /\ r < run.pc =>
            /\ run.at.setToken \in {ForeignSet, chain.created[n]}
            /\ i < run.pc => run.at.setToken = chain.created[n]
            /\ \A j \in 1 .. L : Creates(mempool[j]) => mempool[j].run < n
    BY <1>1, <1>2 DEF OwnInv
  <1>4. L \in Nat /\ mempool \in Seq(Tx) /\ (mempool = << >> => L = 0)
    BY NumberTypes, EmptySeq DEF NetworkInv
  <1>5. CASE At("wait") /\ Sent("create") = {}
    <2>1. /\ c \in Nat /\ r \in Nat /\ i \in Nat /\ run.pc \in Nat /\ c < r
          /\ c < run.pc /\ run.pc < r
      BY <1>2, <1>5, ReaderInstruction
    <2>2. mempool = << >>
      <3>1. mempool # << >> => L \in DOMAIN mempool
        BY <1>4, EmptySeq, LenProperties, SMT
      <3>2. ~(L \in DOMAIN mempool /\ mempool[L].fn = "create" /\ mempool[L].run = n)
        BY <1>5 DEF Sent
      <3> QED BY <1>3, <2>1, <3>1, <3>2, SMT
    <2>3. run.pc <= r /\ ~(r < run.pc + 1)
      BY <2>1, SMT
    <2> HIDE DEF c, r, i, n, L
    <2> QED BY <1>3, <2>1, <2>2, <2>3
  <1>6. CASE At("getCreated") /\ chain.log # NoSet /\ run'.at.setToken = chain.log
    <2>1. /\ c \in Nat /\ r \in Nat /\ i \in Nat /\ run.pc \in Nat /\ c < r /\ r < i /\ run.pc = r
      BY <1>2, <1>6, ReaderInstruction
    <2> HIDE DEF c, r, i, n, L
    <2>2. c < run.pc /\ run.pc <= r /\ ~(run.pc < r) /\ ~(run.pc + 1 <= r) /\ ~(i < run.pc + 1)
      BY <2>1, SMT
    <2>3. mempool = << >> /\ chain.log \in {NoSet, ForeignSet, chain.created[n]}
      BY <1>3, <2>2
    <2>4. \A j \in 1 .. L : FALSE
      BY <1>4, <2>3, SMT
    <2> QED BY <1>6, <2>2, <2>3, <2>4
  <1>7. CASE At("attach")
    <2>1. /\ run.pc = r /\ (run.pc = r => "attach" = "getCreated")
      BY <1>2, <1>7, ReaderInstruction
    <2> QED BY <2>1
  <1>8. CASE /\ \E op \in {"deployed", "balanceOf", "getBalances"} : At(op)
             /\ run'.at.setToken = run.at.setToken
    <2>1. PICK op \in {"deployed", "balanceOf", "getBalances"} : At(op)
      BY <1>8
    <2>2. /\ c \in Nat /\ r \in Nat /\ i \in Nat /\ run.pc \in Nat /\ c < r /\ r < i
          /\ run.pc # c /\ ~(c < run.pc /\ run.pc < r) /\ run.pc # r
          /\ run.pc = i => op = "call"
      <3>1. /\ c \in Nat /\ r \in Nat /\ i \in Nat /\ run.pc \in Nat /\ c < r /\ r < i
            /\ run.pc = c => op = "call"
            /\ c < run.pc /\ run.pc < r => op = "wait"
            /\ run.pc = r => op = "getCreated"
            /\ run.pc = i => Current = initializeModule(IssuanceModule)
            /\ Current.op = op
        BY <1>2, <2>1, ReaderInstruction
      <3> QED BY <2>1, <3>1, InitializeModuleFields
    <2>3. run.pc # i
      BY <2>1, <2>2
    <2> HIDE DEF c, r, i, n, L
    <2>4. /\ ~(c < run.pc + 1 /\ run.pc + 1 <= r)
          /\ r < run.pc + 1 => r < run.pc
          /\ i < run.pc + 1 => i < run.pc
      BY <2>2, <2>3, SMT
    <2> QED BY <1>3, <1>8, <2>4
  <1> QED BY <1>5, <1>6, <1>7, <1>8 DEF Moves

LEMMA OwnStep ==
    ASSUME NetworkInv, OperatorInv, OwnInv, [Next]_vars
    PROVE  OwnInv'
  <1>1. CASE Sends /\ Advanced /\ run'.at = run.at
    BY <1>1, OwnSend
  <1>2. CASE Mine
    BY <1>2, OwnMine
  <1>3. CASE MineForeign
    <2>1. /\ chain'.created = chain.created /\ chain'.log \in {NoSet, ForeignSet}
          /\ mempool' = mempool /\ run' = run
      BY <1>3, ForeignNetwork
    <2> QED BY <2>1 DEF OwnInv
  <1>4. CASE Moves
    BY <1>4, OwnMoves
  <1>5. CASE Ends
    BY <1>5 DEF Ends, OwnInv
  <1>6. CASE Starts
    <2>1. PICK script \in ScriptNames : StartScript(script)
      BY <1>6 DEF Starts
    <2>2. run'.script = script /\ run'.pc = 1
      BY <2>1, Started
    <2>3. script \in Readers => ~(CreateAt(script) < 1) /\ ~(ReadAt(script) < 1)
      <3>1. Readers \subseteq Creators
        BY DEF Readers, Creators
      <3>2. script \in Creators => /\ CreateAt(script) \in Nat \ {0} /\ ReadAt(script) \in Nat
                                   /\ CreateAt(script) < ReadAt(script)
        BY Places
      <3> QED BY <3>1, <3>2, SMT
    <2> QED BY <2>2, <2>3 DEF OwnInv
  <1>7. CASE Quiet /\ run' = run
    BY <1>7 DEF Quiet, OwnInv
  <1>8. CASE MineCopy
    <2>1. /\ mempool = << >> /\ mempool' = mempool /\ run' = run
          /\ run.script \in Creators /\ run.pc = ReadAt(run.script)
          /\ \E t : IsCopy(t) /\ Mined(chain, t, chain')
      BY <1>8, CopyNetwork
    <2>2. PICK t : IsCopy(t) /\ Mined(chain, t, chain')
      BY <2>1
    <2>3. chain'.log \in {NoSet, chain'.created[run.number]}
      BY <2>2, MinedLog DEF IsCopy, NetworkInv
    <2>4. ~(ReadAt(run.script) < run.pc)
      BY <2>1, Places, SMT
    <2> QED BY <2>1, <2>3, <2>4 DEF OwnInv
  <1> QED BY <1>1, <1>2, <1>3, <1>4, <1>5, <1>6, <1>7, <1>8, StepCases

LEMMA DoneSend ==
    ASSUME NetworkInv, OperatorInv, DoneInv, Sends, Advanced
    PROVE  DoneInv'
  <1> DEFINE t == Transaction(Current)
  <1>1. /\ t \in Tx /\ Mined(pending, t, pending')
        /\ network.node = "local" => chain' = pending' /\ mempool' = mempool
        /\ network.node # "local" => chain' = chain /\ mempool' = Append(mempool, t)
    BY SendNetwork
  <1>2. t.run = run.number
    BY NextTransaction DEF Sends, OperatorInv
  <1>3. run'.number = run.number /\ run.status = "running" /\ history' = history /\ run.number \in Nat
    BY NumberTypes DEF Advanced, Sends, At
  <1>4. /\ ChainInv(pending) /\ mempool \in Seq(Tx) /\ (network.node = "local" => chain = pending)
    BY DEF NetworkInv
  <1> HIDE DEF t
  <1>5. SUFFICES ASSUME NEW d \in history.done, d.script \in Readers
                 PROVE  /\ d.number \in Runs /\ d.number <= run.number /\ d.number < run.number
                        /\ d.set = chain'.created[d.number]
                        /\ \A j \in 1 .. Len(mempool') :
                                Creates(mempool'[j]) => mempool'[j].run # d.number
    BY <1>3 DEF DoneInv
  <1>6. /\ d.number \in Runs /\ d.number <= run.number /\ d.number < run.number
        /\ d.set = chain.created[d.number]
        /\ \A j \in 1 .. Len(mempool) : Creates(mempool[j]) => mempool[j].run # d.number
    BY <1>3, <1>5 DEF DoneInv
  <1>7. d.number # run.number
    <2>1. ~(run.number < run.number)
      BY <1>3, SMT
    <2> QED BY <1>6, <2>1
  <1>8. chain'.created[d.number] = chain.created[d.number]
    <2>1. pending'.created[d.number] = pending.created[d.number]
      BY <1>1, <1>2, <1>4, <1>6, <1>7, MinedLog
    <2> QED BY <1>1, <1>4, <2>1
  <1>9. ASSUME NEW j \in 1 .. Len(mempool'), Creates(mempool'[j])
        PROVE  mempool'[j].run # d.number
    <2>1. CASE network.node = "local"
      BY <1>1, <1>6, <1>9, <2>1
    <2>2. CASE network.node # "local"
      <3> DEFINE L == Len(mempool)
      <3>1. /\ L \in Nat /\ Len(mempool') = L + 1 /\ mempool'[L + 1] = t
            /\ \A k \in 1 .. L : mempool'[k] = mempool[k]
        BY <1>1, <1>4, <2>2, AppendProperties, LenProperties
      <3> HIDE DEF L
      <3>2. j \in 1 .. L \/ j = L + 1
        BY <3>1, SMT
      <3> QED BY <1>2, <1>6, <1>7, <1>9, <3>1, <3>2 DEF L
    <2> QED BY <2>1, <2>2
  <1> QED BY <1>6, <1>8, <1>9

LEMMA DoneMine ==
    ASSUME NetworkInv, OperatorInv, DoneInv, Mine
    PROVE  DoneInv'
  <1> DEFINE t == Head(mempool)
             L == Len(mempool)
  <1>1. /\ t \in Tx /\ Mined(chain, t, chain') /\ run' = run /\ history' = history
        /\ L \in Nat \ {0} /\ Len(mempool') = L - 1 /\ t = mempool[1]
        /\ \A j \in 1 .. Len(mempool') : mempool'[j] = mempool[j + 1]
    BY MineNetwork
  <1>2. ChainInv(chain)
    BY DEF NetworkInv
  <1>3. SUFFICES ASSUME NEW d \in history.done, d.script \in Readers
                 PROVE  /\ d.set = chain'.created[d.number]
                        /\ \A j \in 1 .. Len(mempool') :
                                Creates(mempool'[j]) => mempool'[j].run # d.number
    BY <1>1 DEF DoneInv
  <1>4. /\ d.number \in Runs /\ d.set = chain.created[d.number]
        /\ \A j \in 1 .. L : Creates(mempool[j]) => mempool[j].run # d.number
    BY <1>3 DEF DoneInv
  <1> HIDE DEF t, L
  <1>5. 1 \in 1 .. L /\ \A j \in 1 .. Len(mempool') : j + 1 \in 1 .. L
    BY <1>1, SMT
  <1>6. Creates(t) => t.run # d.number
    BY <1>1, <1>4, <1>5
  <1>7. chain'.created[d.number] = chain.created[d.number]
    BY <1>1, <1>2, <1>4, <1>6, MinedLog
  <1> QED BY <1>1, <1>4, <1>5, <1>7

LEMMA DoneEnds ==
    ASSUME NetworkInv, OperatorInv, OwnInv, DoneInv, Ends
    PROVE  DoneInv'
  <1> DEFINE e == [script |-> run.script, number |-> run.number, set |-> run.at.setToken]
  <1>1. /\ chain' = chain /\ mempool' = mempool /\ run.status = "running" /\ run'.status # "running"
        /\ run'.number = run.number
        /\ \/ history'.done = history.done
           \/ run.pc > Len(Program(run.script)) /\ history'.done = history.done \cup {e}
    BY DEF Ends, Quiet
  <1>2. ASSUME run.pc > Len(Program(run.script)), run.script \in Readers
        PROVE  /\ run.number \in Runs /\ run.number <= run.number
               /\ run.at.setToken = chain.created[run.number]
               /\ \A j \in 1 .. Len(mempool) : Creates(mempool[j]) => mempool[j].run # run.number
    <2>1. run.script \in Creators
      BY <1>2 DEF Readers, Creators
    <2>2. /\ ReadAt(run.script) \in Nat /\ InitAt(run.script) \in Nat
          /\ ReadAt(run.script) < InitAt(run.script)
          /\ InitAt(run.script) <= Len(Program(run.script)) /\ Len(Program(run.script)) \in Nat
      BY <2>1, Places
    <2>3. /\ run.number \in Nat /\ run.pc \in Nat /\ run.number \in Runs
          /\ \A j \in 1 .. Len(mempool) : mempool[j].run \in Nat
      BY <1>1, NumberTypes DEF OperatorInv, RunOK
    <2>4. ReadAt(run.script) < run.pc /\ InitAt(run.script) < run.pc
      BY <1>2, <2>2, <2>3, SMT
    <2>5. /\ run.at.setToken = chain.created[run.number]
          /\ \A j \in 1 .. Len(mempool) : Creates(mempool[j]) => mempool[j].run < run.number
      BY <1>1, <1>2, <2>4 DEF OwnInv
    <2>6. ~(run.number < run.number) /\ run.number <= run.number
      BY <2>3, SMT
    <2> QED BY <2>3, <2>5, <2>6
  <1>3. ASSUME NEW d \in history'.done, d.script \in Readers
        PROVE  /\ d.number \in Runs /\ d.number <= run.number
               /\ d.set = chain.created[d.number]
               /\ \A j \in 1 .. Len(mempool) : Creates(mempool[j]) => mempool[j].run # d.number
    <2>1. CASE d \in history.done
      BY <1>3, <2>1 DEF DoneInv
    <2>2. CASE d \notin history.done
      <3>1. d = e /\ run.pc > Len(Program(run.script))
        BY <1>1, <1>3, <2>2
      <3>2. d.script = run.script /\ d.number = run.number /\ d.set = run.at.setToken
        BY <3>1
      <3> QED BY <1>2, <1>3, <3>1, <3>2
    <2> QED BY <2>1, <2>2
  <1> QED BY <1>1, <1>3 DEF DoneInv

LEMMA DoneStep ==
    ASSUME NetworkInv, OperatorInv, OwnInv, DoneInv, [Next]_vars
    PROVE  DoneInv'
  <1>1. CASE Sends /\ Advanced
    BY <1>1, DoneSend
  <1>2. CASE Mine
    BY <1>2, DoneMine
  <1>3. CASE MineForeign
    <2>1. /\ chain'.created = chain.created /\ mempool' = mempool /\ run' = run /\ history' = history
      BY <1>3, ForeignNetwork
    <2> QED BY <2>1 DEF DoneInv
  <1>4. CASE Moves
    <2>1. /\ chain' = chain /\ mempool' = mempool /\ history' = history
          /\ run'.number = run.number /\ run.status = "running"
      BY <1>4 DEF Moves, Quiet, Advanced
    <2> QED BY <2>1 DEF DoneInv
  <1>5. CASE Ends
    BY <1>5, DoneEnds
  <1>6. CASE Starts
    <2>1. /\ chain' = chain /\ mempool' = mempool /\ history'.done = history.done
          /\ run'.number = run.number + 1
      BY <1>6, Started DEF Starts, Quiet
    <2>2. run.number \in Nat
      BY NumberTypes
    <2>3. \A m \in Nat : m <= run.number => m <= run.number + 1 /\ m < run.number + 1
      BY <2>2, SMT
    <2>4. \A m \in Runs : m \in Nat
      BY RunsAssumption
    <2> QED BY <2>1, <2>3, <2>4 DEF DoneInv
  <1>7. CASE Quiet /\ run' = run /\ history' = history
    BY <1>7 DEF Quiet, DoneInv
  <1>8. CASE MineCopy
    <2>1. /\ mempool' = mempool /\ run' = run /\ history'.done = history.done
          /\ run.status = "running" /\ run.number \in Nat
          /\ \E t : IsCopy(t) /\ Mined(chain, t, chain')
      BY <1>8, CopyNetwork, NumberTypes
    <2>2. PICK t : IsCopy(t) /\ Mined(chain, t, chain')
      BY <2>1
    <2>3. \A r \in Runs : r # run.number => chain'.created[r] = chain.created[r]
      BY <2>2, MinedLog DEF IsCopy, NetworkInv
    <2>4. ~(run.number < run.number)
      BY <2>1, SMT
    <2>5. ASSUME NEW d \in history.done, d.script \in Readers
          PROVE  /\ d.number \in Runs /\ d.number <= run.number /\ d.number < run.number
                 /\ d.set = chain'.created[d.number]
                 /\ \A j \in 1 .. Len(mempool) : Creates(mempool[j]) => mempool[j].run # d.number
      BY <2>1, <2>3, <2>4, <2>5 DEF DoneInv
    <2> QED BY <2>1, <2>5 DEF DoneInv
  <1> QED BY <1>1, <1>2, <1>3, <1>4, <1>5, <1>6, <1>7, <1>8, StepCases

-----------------------------------------------------------------------------
(* The specification *)

DeploymentInv == NetworkInv /\ OperatorInv /\ CountInv /\ OwnInv /\ DoneInv

LEMMA DeploymentInit ==
    ASSUME Init
    PROVE  DeploymentInv
  <1>1. /\ chain = InitialChain /\ pending = InitialChain /\ mempool = << >> /\ run = NoRun
        /\ printed = [name \in Printable |-> {}]
        /\ history = [started |-> {}, done |-> {}, crashes |-> 0, copies |-> 0]
        /\ network \in {[node |-> "local", dryRun |-> "latest"]}
                        \cup [node : {"live"}, dryRun : {"latest", "pending"}]
        /\ pipeline \in {"steps", "11"}
                        \cup (IF network.node = "local" THEN {"fixture", "unregistered"} ELSE {})
    BY DEF Init
  <1>2. /\ run.script = "none" /\ run.number = 0 /\ run.pc = 1 /\ run.status = "idle"
        /\ run \in RunType
    BY <1>1, NowhereType DEF NoRun, RunType, Statuses
  <1>3. mempool \in Seq(Tx) /\ Len(mempool) = 0
    BY <1>1, EmptySeq
  <1>4. NetworkInv
    <2>1. ChainInv(chain) /\ ChainInv(pending) /\ chain = pending
      BY <1>1, InitialChainInv
    <2>2. network.node \in {"local", "live"}
      BY <1>1
    <2> QED BY <1>1, <1>3, <2>1, <2>2 DEF NetworkInv
  <1>5. OperatorInv
    <2>1. RunOK(run)
      BY <1>2 DEF RunOK
    <2>2. history \in HistoryType /\ history.started = {}
      BY <1>1, RunCounts, SMT DEF HistoryType
    <2>3. /\ printed \in [Printable -> SUBSET Int]
          /\ \A name \in {"setTokenCreator", IssuanceModule, ManageModule} : printed[name] \subseteq Runs
      BY <1>1 DEF Printable
    <2>4. pipeline \in {"fixture", "unregistered"} => network.node = "local"
      BY <1>1
    <2>5. 0 <= Cardinality({}) + MaxReruns /\ 0 <= 1
      BY RunBoundAssumption, FS_EmptySet, SMT
    <2>6. history.started \subseteq Steps /\ run.number <= Cardinality(history.started) + MaxReruns
      BY <1>2, <2>2, <2>5
    <2> QED BY <1>2, <2>1, <2>2, <2>3, <2>4, <2>5, <2>6 DEF OperatorInv
  <1>6. CountInv
    <2>1. Len(chain.sets) = 0 /\ Len(pending.sets) = 0
      BY <1>1, InitialChainInv
    <2>2. 0 <= 0 + 0 /\ \A j \in 1 .. 0 : FALSE
      BY SMT
    <2> QED BY <1>1, <1>2, <1>3, <2>1, <2>2 DEF CountInv, Uncreated
  <1>7. OwnInv
    BY <1>2 DEF OwnInv
  <1>8. DoneInv
    BY <1>1 DEF DoneInv
  <1> QED BY <1>4, <1>5, <1>6, <1>7, <1>8 DEF DeploymentInv

LEMMA DeploymentStep ==
    ASSUME DeploymentInv, [Next]_vars
    PROVE  DeploymentInv'
  <1>1. NetworkInv' /\ OperatorInv'
    BY NetworkStep, OperatorStep DEF DeploymentInv
  <1>2. CountInv'
    BY CountStep DEF DeploymentInv
  <1>3. OwnInv' /\ DoneInv'
    BY OwnStep, DoneStep DEF DeploymentInv
  <1> QED BY <1>1, <1>2, <1>3 DEF DeploymentInv

LEMMA DeploymentInvariant ==
    Spec => []DeploymentInv
  <1>1. Init => DeploymentInv
    BY DeploymentInit
  <1>2. DeploymentInv /\ [Next]_vars => DeploymentInv'
    BY DeploymentStep
  <1> QED BY <1>1, <1>2, PTL DEF Spec

\* The chain, the queue and the run keep their types whatever the operator runs
\* and wherever scripts crash; in particular there are never more Sets than runs
\* started and copies made of their Sets by strangers, however creations are queued
\* and mined, and no sequence of issuances, redemptions and component changes takes
\* a balance below zero.
THEOREM DeploymentTypeCorrect ==
    Spec => []TypeOK
  <1>1. ASSUME DeploymentInv
        PROVE  TypeOK
    <2>1. NetworkInv /\ OperatorInv /\ CountInv
      BY <1>1 DEF DeploymentInv
    <2>2. RunOK(run) /\ ChainInv(chain)
      BY <2>1 DEF NetworkInv, OperatorInv
    <2>3. run.status \in {"idle", "running", "done", "failed", "crashed"}
      BY <2>2 DEF RunOK, RunType, Statuses
    <2>4. run.script # "none" => run.pc \in 1 .. Len(Program(run.script)) + 1
      <3> SUFFICES ASSUME run.script # "none"
                   PROVE  run.pc \in 1 .. Len(Program(run.script)) + 1
        OBVIOUS
      <3>1. run.script \in ScriptNames /\ run.pc \in Nat \ {0} /\ run.pc <= Len(Program(run.script)) + 1
        BY <2>2 DEF RunOK, RunType
      <3>2. Len(Program(run.script)) \in Nat
        BY <3>1, ProgramsShaped, LenProperties
      <3> QED BY <3>1, <3>2, SMT
    <2>5. \A i \in DOMAIN mempool : mempool[i].run \in Runs
      <3>1. mempool \in Seq(Tx)
        BY <2>1 DEF NetworkInv
      <3>2. \A i \in DOMAIN mempool : mempool[i] \in Tx
        BY <3>1, ElementOfSeq, LenProperties
      <3> QED BY <3>2, TxFields
    <2>6. Len(chain.sets) \in 0 .. run.number + history.copies
      BY <2>1, NumberTypes, SMT DEF CountInv
    <2>7. \A s \in DOMAIN chain.sets : chain.sets[s] \in Sound
      BY <2>2, ChainFields, ElementOfSeq, LenProperties
    <2>8. \A s \in DOMAIN chain.sets : /\ chain.sets[s].storage \in Storage
                                       /\ chain.sets[s].balance \in [Components -> Nat]
      BY <2>7, SoundFields
    <2>9. \A r \in Runs : chain.wallet[r] \in [Components -> Nat]
      BY <2>2, ChainFields
    <2> QED BY <2>3, <2>4, <2>5, <2>6, <2>8, <2>9 DEF TypeOK
  <1> QED BY <1>1, DeploymentInvariant, PTL

\* No Set mixes contracts of several runs, though their addresses are pasted one
\* by one: the modules that it waits for and those it has are of its creator's run.
THEOREM DeploymentUsesOneStack ==
    Spec => []SetsUseOneStack
  <1>1. ASSUME DeploymentInv
        PROVE  SetsUseOneStack
    <2>1. ChainInv(chain)
      BY <1>1 DEF DeploymentInv, NetworkInv
    <2>2. \A s \in DOMAIN chain.sets : chain.sets[s] \in Sound
      BY <2>1, ChainFields, ElementOfSeq, LenProperties
    <2> QED BY <2>2, SoundFields DEF SetsUseOneStack
  <1> QED BY <1>1, DeploymentInvariant, PTL

\* A script that ends with 0 has used the last Set that was created for it, its own
\* or a stranger's for the same manager and modules, though the address it read is
\* that of the latest block's last event: never one of an earlier run, of another
\* stack or of another manager.
THEOREM DeploymentUsesSetOfItsRun ==
    Spec => []UsesSetOfItsRun
  <1>1. DeploymentInv => UsesSetOfItsRun
    BY DEF DeploymentInv, DoneInv, Readers, UsesSetOfItsRun
  <1> QED BY <1>1, DeploymentInvariant, PTL

-----------------------------------------------------------------------------
(* What each transaction does to the fields that a launch is about *)

Shows(n, controllers, sets, wallet, allowance) ==
    /\ n.controllers = controllers /\ n.sets = sets
    /\ n.wallet = wallet /\ n.allowance = allowance

LEMMA SetShown ==
    ASSUME NEW ch, ChainInv(ch), NEW s, NEW S, NEW n, n = [ch EXCEPT !.sets[s] = S]
    PROVE  /\ Shows(n, ch.controllers, [ch.sets EXCEPT ![s] = S], ch.wallet, ch.allowance)
           /\ n.reverted = ch.reverted
  <1> DEFINE q == [ch.sets EXCEPT ![s] = S]
  <1>1. n = [ch EXCEPT !.sets = q]
    OBVIOUS
  <1> HIDE DEF q
  <1>2. /\ n.controllers = ch.controllers /\ n.sets = q /\ n.wallet = ch.wallet
        /\ n.allowance = ch.allowance /\ n.reverted = ch.reverted
    BY <1>1 DEF ChainInv, ChainType
  <1> QED BY <1>2 DEF Shows, q

LEMMA WrittenShown ==
    ASSUME NEW ch, ChainInv(ch), NEW s, NEW S, NEW w, NEW a, NEW n, n = Written(ch, s, S, w, a)
    PROVE  /\ Shows(n, ch.controllers, [ch.sets EXCEPT ![s] = S], w, a)
           /\ n.reverted = ch.reverted
  <1> DEFINE q == [ch.sets EXCEPT ![s] = S]
  <1>1. n = [ch EXCEPT !.sets = q, !.wallet = w, !.allowance = a]
    BY DEF Written
  <1> HIDE DEF q
  <1>2. /\ n.controllers = ch.controllers /\ n.sets = q /\ n.wallet = w
        /\ n.allowance = a /\ n.reverted = ch.reverted
    BY <1>1 DEF ChainInv, ChainType
  <1> QED BY <1>2 DEF Shows, q

LEMMA DeployShown ==
    ASSUME NEW ch, ChainInv(ch), NEW t \in Tx, NEW n, n = DeployContract(ch, t)
    PROVE  /\ Shows(n, ch.controllers, ch.sets,
                    IF t.kind = "token" THEN [ch.wallet EXCEPT ![t.run][t.token] = INITIAL_BALANCE]
                                        ELSE ch.wallet,
                    ch.allowance)
           /\ n.reverted = ch.reverted
  <1> DEFINE code == ch.code \cup {<<t.kind, t.token, t.run>>}
             w == [ch.wallet EXCEPT ![t.run][t.token] = INITIAL_BALANCE]
             plain == [ch EXCEPT !.code = code]
             mock == [plain EXCEPT !.wallet[t.run][t.token] = INITIAL_BALANCE]
  <1>1. n = IF t.kind = "token" THEN mock ELSE plain
    BY DEF DeployContract
  <1>2. mock = [ch EXCEPT !.code = code, !.wallet = w]
    <2> HIDE DEF code
    <2> QED BY DEF ChainInv, ChainType
  <1> HIDE DEF code, w, mock
  <1>3. Shows(plain, ch.controllers, ch.sets, ch.wallet, ch.allowance) /\ plain.reverted = ch.reverted
    BY DEF ChainInv, ChainType, Shows
  <1>4. Shows(mock, ch.controllers, ch.sets, w, ch.allowance) /\ mock.reverted = ch.reverted
    BY <1>2 DEF ChainInv, ChainType, Shows
  <1> HIDE DEF plain
  <1> QED BY <1>1, <1>3, <1>4 DEF w

LEMMA ControllersShown ==
    ASSUME NEW ch, ChainInv(ch), NEW k, NEW n, n = [ch EXCEPT !.controllers = k]
    PROVE  Shows(n, k, ch.sets, ch.wallet, ch.allowance) /\ n.reverted = ch.reverted
  BY DEF ChainInv, ChainType, Shows

LEMMA CreateShown ==
    ASSUME NEW ch, ChainInv(ch), NEW t, NEW n, n = Create(ch, t)
    PROVE  /\ Shows(n, Register(ch.controllers, t.stack, Len(ch.sets) + 1),
                    Append(ch.sets, NewSetToken(t)), ch.wallet, ch.allowance)
           /\ n.reverted = ch.reverted
  <1> DEFINE id == Len(ch.sets) + 1
             q == Append(ch.sets, NewSetToken(t))
  <1>1. n = [ch EXCEPT !.sets = q, !.controllers[t.stack].sets = @ \cup {id}, !.created[t.run] = id,
                       !.log = id]
    BY DEF Create
  <1> HIDE DEF id, q
  <1>2. /\ n.controllers = Register(ch.controllers, t.stack, id) /\ n.sets = q
        /\ n.wallet = ch.wallet /\ n.allowance = ch.allowance /\ n.reverted = ch.reverted
    BY <1>1 DEF ChainInv, ChainType, Register
  <1> QED BY <1>2 DEF Shows, id, q

LEMMA DeploySetTokenShown ==
    ASSUME NEW ch, ChainInv(ch), NEW t, NEW n, n = DeploySetToken(ch, t)
    PROVE  /\ Shows(n, ch.controllers, Append(ch.sets, NewSetToken(t)), ch.wallet, ch.allowance)
           /\ n.reverted = ch.reverted
  <1> DEFINE id == Len(ch.sets) + 1
             q == Append(ch.sets, NewSetToken(t))
  <1>1. n = [ch EXCEPT !.sets = q, !.created[t.run] = id]
    BY DEF DeploySetToken
  <1> HIDE DEF id, q
  <1>2. /\ n.controllers = ch.controllers /\ n.sets = q
        /\ n.wallet = ch.wallet /\ n.allowance = ch.allowance /\ n.reverted = ch.reverted
    BY <1>1 DEF ChainInv, ChainType
  <1> QED BY <1>2 DEF Shows, q

LEMMA ApproveShown ==
    ASSUME NEW ch, ChainInv(ch), NEW t, NEW n, n = Approve(ch, t)
    PROVE  /\ Shows(n, ch.controllers, ch.sets, ch.wallet,
                    [ch.allowance EXCEPT ![Module(t)][t.tokens][t.token] = t.quantity])
           /\ n.reverted = ch.reverted
  <1> DEFINE a == [ch.allowance EXCEPT ![Module(t)][t.tokens][t.token] = t.quantity]
  <1>1. n = [ch EXCEPT !.allowance = a]
    BY DEF Approve
  <1> HIDE DEF a
  <1>2. Shows(n, ch.controllers, ch.sets, ch.wallet, a) /\ n.reverted = ch.reverted
    BY <1>1 DEF ChainInv, ChainType, Shows
  <1> QED BY <1>2 DEF a

Initialized(T, m) == [T EXCEPT !.pending = @ \ {m}, !.initialized = @ \cup {m}]

Locked(T, b) == [T EXCEPT !.isLocked = b]

LEMMA InitializeModuleShown ==
    ASSUME NEW ch, ChainInv(ch), NEW t, NEW n, n = InitializeModule(ch, t)
    PROVE  /\ Shows(n, ch.controllers,
                    [ch.sets EXCEPT ![t.set] = Initialized(ch.sets[t.set], Module(t))],
                    ch.wallet, ch.allowance)
           /\ n.reverted = ch.reverted
  <1> DEFINE S == Initialized(ch.sets[t.set], Module(t))
  <1>1. n = [ch EXCEPT !.sets[t.set] = S]
    BY DEF InitializeModule, Initialized
  <1> HIDE DEF S
  <1> QED BY <1>1, SetShown DEF S

LEMMA LockShown ==
    ASSUME NEW ch, ChainInv(ch), NEW t, NEW n
    PROVE  /\ n = Lock(ch, t) =>
                /\ Shows(n, ch.controllers, [ch.sets EXCEPT ![t.set] = Locked(ch.sets[t.set], TRUE)],
                         ch.wallet, ch.allowance)
                /\ n.reverted = ch.reverted
           /\ n = Unlock(ch, t) =>
                /\ Shows(n, ch.controllers, [ch.sets EXCEPT ![t.set] = Locked(ch.sets[t.set], FALSE)],
                         ch.wallet, ch.allowance)
                /\ n.reverted = ch.reverted
  <1> DEFINE L == Locked(ch.sets[t.set], TRUE)
             U == Locked(ch.sets[t.set], FALSE)
  <1>1. Lock(ch, t) = [ch EXCEPT !.sets[t.set] = L]
    BY DEF Lock, Locked
  <1>2. Unlock(ch, t) = [ch EXCEPT !.sets[t.set] = U]
    BY DEF Unlock, Locked
  <1> HIDE DEF L, U
  <1>3. n = Lock(ch, t) => /\ Shows(n, ch.controllers, [ch.sets EXCEPT ![t.set] = L], ch.wallet, ch.allowance)
                           /\ n.reverted = ch.reverted
    BY <1>1, SetShown
  <1>4. n = Unlock(ch, t) => /\ Shows(n, ch.controllers, [ch.sets EXCEPT ![t.set] = U], ch.wallet, ch.allowance)
                             /\ n.reverted = ch.reverted
    BY <1>2, SetShown
  <1> QED BY <1>3, <1>4 DEF L, U

\* What issue takes, and redeem pays.
TakenAll(ch, t) == [c \in Components |-> Taken(ch, t, c)]

PaidAll(ch, t) == [c \in Components |-> Paid(ch, t, c)]

LEMMA MovedStorage ==
    ASSUME NEW ch, ChainInv(ch), NEW t \in Tx, t.set \in DOMAIN ch.sets, NEW amount
    PROVE  MoveIn(ch, t, amount).sets[t.set].storage = ch.sets[t.set].storage
  <1>1. ch.sets[t.set] \in Sound
    BY ChainFields, LenProperties
  <1> QED BY <1>1 DEF MoveIn, ChainInv, ChainType, Sound

LEMMA IssueShown ==
    ASSUME NEW ch, ChainInv(ch), NEW t \in Tx, t.set \in DOMAIN ch.sets, NEW n, n = Issue(ch, t)
    PROVE  /\ Shows(n, ch.controllers,
                    [ch.sets EXCEPT ![t.set] = TokensIn(ch.sets[t.set], TakenAll(ch, t),
                                                        Mint(ch.sets[t.set].storage, t.quantity))],
                    Debited(ch.wallet, ch.sets[t.set].tokens, TakenAll(ch, t)),
                    Allowed(ch, t, TakenAll(ch, t)))
           /\ n.reverted = ch.reverted
  <1> DEFINE amount == TakenAll(ch, t)
             st == Mint(ch.sets[t.set].storage, t.quantity)
  <1>1. MoveIn(ch, t, amount).sets[t.set].storage = ch.sets[t.set].storage
    BY MovedStorage
  <1>2. n = MovedAndStored(ch, t, amount, st)
    BY <1>1 DEF Issue, MovedAndStored, TakenAll
  <1> HIDE DEF amount, st
  <1> QED BY <1>2, MoveInFields, WrittenShown DEF amount, st

AddedQuantity(t) == [c \in Components |-> IF c = t.token THEN t.quantity ELSE 0]

Added(st, c, quantity) == EditDefaultPositionUnit(AddComponent(st, c), c, quantity)

LEMMA AddShown ==
    ASSUME NEW ch, ChainInv(ch), NEW t \in Tx, t.set \in DOMAIN ch.sets, NEW n, n = AddToSetToken(ch, t)
    PROVE  /\ Shows(n, ch.controllers,
                    [ch.sets EXCEPT ![t.set] = TokensIn(ch.sets[t.set], AddedQuantity(t),
                                                Added(ch.sets[t.set].storage, t.token, t.quantity))],
                    Debited(ch.wallet, ch.sets[t.set].tokens, AddedQuantity(t)),
                    Allowed(ch, t, AddedQuantity(t)))
           /\ n.reverted = ch.reverted
  <1> DEFINE amount == AddedQuantity(t)
             st == Added(ch.sets[t.set].storage, t.token, t.quantity)
  <1>1. MoveIn(ch, t, amount).sets[t.set].storage = ch.sets[t.set].storage
    BY MovedStorage
  <1>2. n = MovedAndStored(ch, t, amount, st)
    BY <1>1 DEF AddToSetToken, MovedAndStored, AddedQuantity, Added
  <1> HIDE DEF amount, st
  <1> QED BY <1>2, MoveInFields, WrittenShown DEF amount, st

LEMMA RedeemShown ==
    ASSUME NEW ch, ChainInv(ch), NEW t \in Tx, t.set \in DOMAIN ch.sets, NEW n, n = Redeem(ch, t)
    PROVE  /\ Shows(n, ch.controllers,
                    [ch.sets EXCEPT ![t.set] = TokensOut(ch.sets[t.set], PaidAll(ch, t),
                                                         Burn(ch.sets[t.set].storage, t.quantity))],
                    Credited(ch.wallet, ch.sets[t.set].tokens, PaidAll(ch, t)), ch.allowance)
           /\ n.reverted = ch.reverted
  <1> DEFINE S == TokensOut(ch.sets[t.set], PaidAll(ch, t), Burn(ch.sets[t.set].storage, t.quantity))
             w == Credited(ch.wallet, ch.sets[t.set].tokens, PaidAll(ch, t))
             q == [ch.sets EXCEPT ![t.set] = S]
  <1>1. n = [ch EXCEPT !.sets = q, !.wallet = w]
    BY RedeemFields DEF PaidAll
  <1> HIDE DEF q, w
  <1>2. Shows(n, ch.controllers, q, w, ch.allowance) /\ n.reverted = ch.reverted
    BY <1>1 DEF ChainInv, ChainType, Shows
  <1> QED BY <1>2 DEF q, w

RemovedFrom(T, c, quantity) ==
    [T EXCEPT !.balance = [T.balance EXCEPT ![c] = @ - quantity], !.storage = Removed(T.storage, c, quantity)]

LEMMA RemoveShown ==
    ASSUME NEW ch, ChainInv(ch), NEW t \in Tx, t.set \in DOMAIN ch.sets,
           NEW n, n = RemoveFromSetToken(ch, t)
    PROVE  /\ Shows(n, ch.controllers,
                    [ch.sets EXCEPT ![t.set] = RemovedFrom(ch.sets[t.set], t.token, t.quantity)],
                    ch.wallet, ch.allowance)
           /\ n.reverted = ch.reverted
  <1> DEFINE S == RemovedFrom(ch.sets[t.set], t.token, t.quantity)
  <1>1. n = [ch EXCEPT !.sets[t.set] = S]
    BY RemoveFields DEF RemovedFrom
  <1> HIDE DEF S
  <1> QED BY <1>1, SetShown DEF S

-----------------------------------------------------------------------------
(* The Sets of a chain as index tokens *)

\* A number for the Set of each run, and for the copies.
LEMMA SetIdsShown ==
    /\ SetIds = 1 .. Cardinality(SetIds) /\ Cardinality(SetIds) \in Nat
    /\ Runs \subseteq SetIds /\ 1 \in SetIds /\ Cardinality(Runs) \in Nat \ {0}
    /\ \A s \in SetIds : s \in Nat \ {0} /\ s \in 1 .. s
  <1> DEFINE n == Cardinality(Steps) + MaxReruns
  <1>1. n \in Nat \ {0} /\ Runs = 1 .. n /\ Cardinality(SetIds) = n + MaxCopies /\ MaxCopies \in Nat
    BY RunCounts, SMT
  <1> HIDE DEF n
  <1>2. Cardinality(Runs) = n
    BY <1>1, FS_Interval, SMT
  <1>3. SetIds = 1 .. n + MaxCopies /\ n + MaxCopies \in Nat
    BY <1>1, RunCounts, SMT
  <1>4. Runs \subseteq SetIds /\ 1 \in SetIds /\ \A s \in SetIds : s \in Nat \ {0} /\ s \in 1 .. s
    BY <1>1, <1>3, SMT
  <1> QED BY <1>1, <1>2, <1>3, <1>4

\* Registered with some Controller.
Known(ch, s) == s \in DOMAIN ch.sets /\ \E r \in Runs : s \in ch.controllers[r].sets

Handled(S) ==
    S.storage.virtualUnit # _units \/ S.storage.components # [i \in Components |-> i]

Opened(S) == \E m \in S.initialized : m[1] = IssuanceModule

StageOf(S) == IF Handled(S) THEN "edited" ELSE IF Opened(S) THEN "open" ELSE "registered"

SupplyOf(S) == S.storage.totalSupply \div ether(1)

StageIn(ch, s) == IF Known(ch, s) THEN StageOf(ch.sets[s]) ELSE "absent"

SupplyIn(ch, s) == IF s \in DOMAIN ch.sets THEN SupplyOf(ch.sets[s]) ELSE 0

VaultIn(ch, s) == IF s \in DOMAIN ch.sets THEN ch.sets[s].balance ELSE [c \in Components |-> 0]

SameToken(a, b, s) ==
    StageIn(b, s) = StageIn(a, s) /\ SupplyIn(b, s) = SupplyIn(a, s) /\ VaultIn(b, s) = VaultIn(a, s)

\* A step of IndexToken's Set s, from chain a to chain b.
TokenMove(a, b, s) ==
    \/ /\ StageIn(a, s) = "absent" /\ StageIn(b, s) = "registered"
       /\ SupplyIn(b, s) = SupplyIn(a, s) /\ VaultIn(b, s) = VaultIn(a, s)
    \/ /\ StageIn(a, s) = "registered" /\ StageIn(b, s) = "open"
       /\ SupplyIn(b, s) = SupplyIn(a, s) /\ VaultIn(b, s) = VaultIn(a, s)
    \/ /\ StageIn(a, s) = "open" /\ StageIn(b, s) = "open"
       /\ SupplyIn(b, s) = SupplyIn(a, s) + 1
       /\ VaultIn(b, s) = [c \in Components |-> VaultIn(a, s)[c] + _units[c]]
    \/ /\ StageIn(a, s) = "open" /\ StageIn(b, s) = "open" /\ SupplyIn(a, s) > 0
       /\ SupplyIn(b, s) = SupplyIn(a, s) - 1
       /\ VaultIn(b, s) = [c \in Components |-> VaultIn(a, s)[c] - _units[c]]
    \/ /\ StageIn(a, s) \in {"open", "edited"} /\ StageIn(b, s) = "edited"
       /\ SupplyIn(b, s) = SupplyIn(a, s)

Still(a, b) == \A s \in SetIds : SameToken(a, b, s)

LaunchStep(a, b) ==
    \/ Still(a, b)
    \/ \E s \in SetIds : TokenMove(a, b, s) /\ \A x \in SetIds \ {s} : SameToken(a, b, x)

\* The views depend on two fields.
LEMMA ViewsOfFields ==
    ASSUME NEW a, NEW b, b.sets = a.sets, b.controllers = a.controllers
    PROVE  /\ Still(a, b)
           /\ \A n : LaunchStep(a, n) <=> LaunchStep(b, n)
           /\ \A n : LaunchStep(n, a) <=> LaunchStep(n, b)
  <1>1. \A s : /\ StageIn(a, s) = StageIn(b, s) /\ SupplyIn(a, s) = SupplyIn(b, s)
               /\ VaultIn(a, s) = VaultIn(b, s)
    BY DEF StageIn, SupplyIn, VaultIn, Known
  <1>2. \A n, s : /\ SameToken(a, n, s) <=> SameToken(b, n, s)
                  /\ SameToken(n, a, s) <=> SameToken(n, b, s)
                  /\ TokenMove(a, n, s) <=> TokenMove(b, n, s)
                  /\ TokenMove(n, a, s) <=> TokenMove(n, b, s)
    BY <1>1 DEF SameToken, TokenMove
  <1> QED BY <1>1, <1>2 DEF Still, SameToken, LaunchStep

\* A Set whose record changes, seen from outside.
SetStill(T, S) == StageOf(S) = StageOf(T) /\ SupplyOf(S) = SupplyOf(T) /\ S.balance = T.balance

SetMove(T, S) ==
    \/ /\ StageOf(T) = "registered" /\ StageOf(S) = "open"
       /\ SupplyOf(S) = SupplyOf(T) /\ S.balance = T.balance
    \/ /\ StageOf(T) = "open" /\ StageOf(S) = "open" /\ SupplyOf(S) = SupplyOf(T) + 1
       /\ S.balance = [c \in Components |-> T.balance[c] + _units[c]]
    \/ /\ StageOf(T) = "open" /\ StageOf(S) = "open" /\ SupplyOf(T) > 0
       /\ SupplyOf(S) = SupplyOf(T) - 1
       /\ S.balance = [c \in Components |-> T.balance[c] - _units[c]]
    \/ StageOf(T) \in {"open", "edited"} /\ StageOf(S) = "edited" /\ SupplyOf(S) = SupplyOf(T)

LEMMA OneTokenMoves ==
    ASSUME NEW ch, ChainInv(ch), NEW s \in DOMAIN ch.sets, NEW S, NEW n,
           n.sets = [ch.sets EXCEPT ![s] = S], n.controllers = ch.controllers
    PROVE  /\ SetStill(ch.sets[s], S) => Still(ch, n)
           /\ s \in SetIds /\ Known(ch, s) /\ SetMove(ch.sets[s], S) => LaunchStep(ch, n)
  <1>1. /\ DOMAIN n.sets = DOMAIN ch.sets /\ n.sets[s] = S
        /\ \A x \in DOMAIN ch.sets : x # s => n.sets[x] = ch.sets[x]
    BY ChainFields
  <1>2. \A x : Known(n, x) <=> Known(ch, x)
    BY <1>1 DEF Known
  <1>3. \A x : x # s => SameToken(ch, n, x)
    BY <1>1, <1>2 DEF SameToken, StageIn, SupplyIn, VaultIn, Known
  <1>4. /\ SupplyIn(ch, s) = SupplyOf(ch.sets[s]) /\ SupplyIn(n, s) = SupplyOf(S)
        /\ VaultIn(ch, s) = ch.sets[s].balance /\ VaultIn(n, s) = S.balance
    BY <1>1 DEF SupplyIn, VaultIn
  <1>5. /\ Known(ch, s) => StageIn(ch, s) = StageOf(ch.sets[s]) /\ StageIn(n, s) = StageOf(S)
        /\ ~Known(ch, s) => StageIn(n, s) = StageIn(ch, s)
    BY <1>1, <1>2 DEF StageIn
  <1>6. SetStill(ch.sets[s], S) => SameToken(ch, n, s)
    BY <1>4, <1>5 DEF SetStill, SameToken
  <1>7. Known(ch, s) /\ SetMove(ch.sets[s], S) => TokenMove(ch, n, s)
    BY <1>4, <1>5 DEF SetMove, TokenMove
  <1> QED BY <1>3, <1>6, <1>7 DEF Still, LaunchStep

\* A Set that nobody has edited, with a whole number of tokens issued.
Plainly(S) == ~Handled(S) /\ \E k \in Nat : S.storage.totalSupply = ether(k)

Pristine(ch) == \A s \in DOMAIN ch.sets : Plainly(ch.sets[s])

LEMMA EtherFacts ==
    /\ PRECISE_UNIT \in Nat \ {0} /\ ether(1) = PRECISE_UNIT
    /\ \A k \in Nat : /\ ether(k) \in Nat /\ ether(k) \div ether(1) = k
                      /\ ether(k) + ether(1) = ether(k + 1)
                      /\ k > 0 => ether(k) - ether(1) = ether(k - 1)
                      /\ ether(1) <= ether(k) <=> k > 0
                      /\ \A j \in Nat : j <= k <=> ether(j) <= ether(k)
  <1>1. PRECISE_UNIT \in Nat \ {0}
    BY PreciseUnitAssumption
  <1>2. ether(1) = PRECISE_UNIT
    BY <1>1, SMT DEF ether
  <1>3. ASSUME NEW k \in Nat
        PROVE  /\ ether(k) \in Nat /\ ether(k) \div ether(1) = k
               /\ ether(k) + ether(1) = ether(k + 1)
               /\ k > 0 => ether(k) - ether(1) = ether(k - 1)
               /\ ether(1) <= ether(k) <=> k > 0
               /\ \A j \in Nat : j <= k <=> ether(j) <= ether(k)
    <2>1. ether(k) \in Nat
      BY <1>1, SMT DEF ether
    <2>2. ether(k) = PRECISE_UNIT * k
      BY <1>1, SMT DEF ether
    <2>3. ether(k) \div ether(1) = k
      BY <1>1, <1>2, <2>1, <2>2, DivUnique, SMT
    <2>4. /\ ether(k) + ether(1) = ether(k + 1)
          /\ k > 0 => ether(k) - ether(1) = ether(k - 1)
      BY <1>1, SMT DEF ether
    <2>5. ASSUME NEW j \in Nat PROVE j <= k <=> ether(j) <= ether(k)
      <3>1. ether(j) = PRECISE_UNIT * j
        BY <1>1, SMT DEF ether
      <3>2. j <= k => PRECISE_UNIT * j <= PRECISE_UNIT * k
        BY <1>1, ProductMonotone
      <3>3. PRECISE_UNIT * j <= PRECISE_UNIT * k => j <= k
        BY <1>1, CancelFactor
      <3> QED BY <2>2, <3>1, <3>2, <3>3
    <2>6. ether(1) <= ether(k) <=> k > 0
      <3>1. 1 <= k <=> ether(1) <= ether(k)
        BY <2>5
      <3>2. 1 <= k <=> k > 0
        BY SMT
      <3> QED BY <3>1, <3>2
    <2> QED BY <2>1, <2>3, <2>4, <2>5, <2>6
  <1> QED BY <1>1, <1>2, <1>3

\* Each component of such a Set is listed once, and issuing or redeeming one
\* token moves one basket.
LEMMA PlainAmounts ==
    ASSUME NEW ch, ChainInv(ch), NEW t \in Tx, t.set \in DOMAIN ch.sets,
           ~Handled(ch.sets[t.set]), t.quantity = ether(1), NEW c \in Components
    PROVE  Taken(ch, t, c) = _units[c] /\ Paid(ch, t, c) = _units[c]
  <1> DEFINE st == ch.sets[t.set].storage
             A == [i \in Components |-> i]
  <1>1. /\ Storage_(ch, t) = st /\ st.virtualUnit = _units /\ st.components = A
        /\ ch.sets[t.set] \in Sound
    BY ChainFields, LenProperties DEF Handled, Storage_
  <1>2. Listings(ch, t, c) = 1
    <2>1. N \in Nat /\ Components = 1 .. N
      BY EtherNat
    <2>2. A \in Seq(Components)
      BY <2>1, IsASeq
    <2>3. DOMAIN A = Components /\ \A i \in Components : A[i] = i
      OBVIOUS
    <2>4. ~HasDuplicate(A) /\ Contains(A, c)
      <3> HIDE DEF A
      <3>1. \A i, j \in Components : i < j => i # j
        BY <2>1, SMT
      <3> QED BY <2>3, <3>1 DEF HasDuplicate, Contains
    <2> HIDE DEF A
    <2>5. Occurrences(A, c) = 1
      BY <2>2, <2>4, OccurrencesUnique
    <2> QED BY <1>1, <2>5 DEF Listings
  <1>3. DefaultPositionRealUnit(Storage_(ch, t), c) = _units[c] /\ _units[c] \in Nat
    <2>1. DefaultPositionRealUnit(Storage_(ch, t), c) = Storage_(ch, t).virtualUnit[c]
      BY AmountsNat
    <2>2. Storage_(ch, t).virtualUnit = _units
      BY <1>1
    <2>3. DefaultPositionRealUnit(Storage_(ch, t), c) \in Nat
      BY AmountsNat
    <2> QED BY <2>1, <2>2, <2>3
  <1> DEFINE u == _units[c]
             p == PreciseMulCeil(u, ether(1))
             q == PreciseMul(ether(1), u)
  <1>4. ether(1) = PRECISE_UNIT /\ PRECISE_UNIT \in Nat \ {0} /\ PRECISE_UNIT \in Nat
    BY EtherFacts
  <1>5. /\ p \in Nat /\ u * PRECISE_UNIT <= PRECISE_UNIT * p
        /\ PRECISE_UNIT * p < u * PRECISE_UNIT + PRECISE_UNIT
    BY <1>3, <1>4, PreciseMulCeilBounds
  <1>6. /\ q \in Nat /\ PRECISE_UNIT * q <= PRECISE_UNIT * u
        /\ PRECISE_UNIT * u < PRECISE_UNIT * q + PRECISE_UNIT
    BY <1>3, <1>4, PreciseMulBounds
  <1> HIDE DEF u, p, q
  <1>7. u \in Nat
    BY <1>3 DEF u
  <1>8. p = u
    <2>1. PRECISE_UNIT * u <= PRECISE_UNIT * p /\ PRECISE_UNIT * p < PRECISE_UNIT * (u + 1)
      BY <1>4, <1>5, <1>7, SMT
    <2>2. u <= p /\ p < u + 1
      BY <1>4, <1>5, <1>7, <2>1, CancelFactor, CancelStrict, SMT
    <2> QED BY <1>5, <1>7, <2>2, SMT
  <1>9. q = u
    <2>1. PRECISE_UNIT * u < PRECISE_UNIT * (q + 1)
      BY <1>4, <1>6, <1>7, SMT
    <2>2. q <= u /\ u < q + 1
      BY <1>4, <1>6, <1>7, <2>1, CancelFactor, CancelStrict, SMT
    <2> QED BY <1>6, <1>7, <2>2, SMT
  <1>10. Taken(ch, t, c) = 1 * p /\ Paid(ch, t, c) = 1 * q
    BY <1>2, <1>3 DEF Taken, Paid, p, q, u
  <1> QED BY <1>7, <1>8, <1>9, <1>10, SMT DEF u

-----------------------------------------------------------------------------
(* What a transaction does to the index tokens *)

Replaced(S, T, st) ==
    /\ S.storage = st /\ S.initialized = T.initialized /\ S.pending = T.pending
    /\ S.isLocked = T.isLocked /\ S.stack = T.stack /\ S.tokens = T.tokens

More(f, g) == [c \in Components |-> f[c] + g[c]]

Less(f, g) == [c \in Components |-> f[c] - g[c]]

LEMMA TokensMoved ==
    ASSUME NEW T \in Sound, NEW amount, NEW st
    PROVE  /\ Replaced(TokensIn(T, amount, st), T, st)
           /\ Replaced(TokensOut(T, amount, st), T, st)
           /\ TokensIn(T, amount, st).balance = More(T.balance, amount)
           /\ TokensOut(T, amount, st).balance = Less(T.balance, amount)
  BY DEF Sound, TokensIn, TokensOut, Replaced, More, Less

LEMMA ModuleMoved ==
    ASSUME NEW T \in Sound, NEW m, NEW b, NEW S, S = Initialized(T, m) \/ S = Locked(T, b)
    PROVE  /\ S.storage = T.storage /\ S.balance = T.balance /\ S.stack = T.stack
           /\ S.tokens = T.tokens
           /\ S = Initialized(T, m) => /\ S.initialized = T.initialized \cup {m}
                                       /\ S.pending = T.pending \ {m}
                                       /\ S.isLocked = T.isLocked
           /\ S = Locked(T, b) => /\ S.initialized = T.initialized /\ S.pending = T.pending
                                  /\ S.isLocked = b
  BY DEF Sound, Initialized, Locked

LEMMA SupplyMoved ==
    ASSUME NEW st \in Storage, NEW q \in Nat
    PROVE  /\ Mint(st, q).virtualUnit = st.virtualUnit /\ Mint(st, q).components = st.components
           /\ Mint(st, q).totalSupply = st.totalSupply + q
           /\ Burn(st, q).virtualUnit = st.virtualUnit /\ Burn(st, q).components = st.components
           /\ Burn(st, q).totalSupply = st.totalSupply - q
  BY DEF Storage, Mint, Burn

\* The transactions that leave every Set as it is, or only lock it.
Idle == {"", "deploy", "addModule", "approve", "lockSetToken", "unlockSetToken", "initialize",
         "approveController"}

LEMMA SetLocked ==
    ASSUME NEW ch, ChainInv(ch), NEW s \in DOMAIN ch.sets, NEW b, NEW n,
           n.sets = [ch.sets EXCEPT ![s] = Locked(ch.sets[s], b)], n.controllers = ch.controllers
    PROVE  Still(ch, n) /\ (Pristine(ch) => Pristine(n))
  <1> DEFINE T == ch.sets[s]
             S == Locked(T, b)
  <1>1. T \in Sound
    BY ChainFields, LenProperties
  <1>2. S.storage = T.storage /\ S.balance = T.balance /\ S.initialized = T.initialized
    BY <1>1, ModuleMoved
  <1>3. n.sets = [ch.sets EXCEPT ![s] = S]
    OBVIOUS
  <1> HIDE DEF S
  <1>4. SetStill(T, S)
    BY <1>2 DEF SetStill, StageOf, SupplyOf, Handled, Opened
  <1>5. Pristine(ch) => Pristine(n)
    <2>1. Plainly(T) => Plainly(S)
      BY <1>2 DEF Plainly, Handled
    <2> QED BY <1>3, <2>1, ChainFields DEF Pristine
  <1> QED BY <1>3, <1>4, <1>5, OneTokenMoves

LEMMA ControllersIdle ==
    ASSUME NEW ch, NEW n, n.sets = ch.sets,
           \A r \in Runs : n.controllers[r].sets = ch.controllers[r].sets
    PROVE  Still(ch, n) /\ (Pristine(ch) => Pristine(n))
  <1>1. \A s : Known(n, s) <=> Known(ch, s)
    BY DEF Known
  <1> QED BY <1>1 DEF Still, SameToken, StageIn, SupplyIn, VaultIn, Pristine

LEMMA IdleStep ==
    ASSUME NEW ch, ChainInv(ch), NEW t \in Tx, NEW n, n = Execute(ch, t),
           t.fn \in Idle \/ ~Succeeds(ch, t)
    PROVE  Still(ch, n) /\ (Pristine(ch) => Pristine(n))
  <1>1. CASE ~Succeeds(ch, t)
    <2>1. n.sets = ch.sets /\ n.controllers = ch.controllers
      BY <1>1, RevertRecorded DEF Execute
    <2> QED BY <2>1, ControllersIdle
  <1>2. CASE Succeeds(ch, t)
    <2>1. n = Effect(ch, t) /\ t.fn \in Idle
      BY <1>2 DEF Execute
    <2>2. CASE t.fn = "deploy"
      <3>1. n.sets = ch.sets /\ n.controllers = ch.controllers
        BY <2>1, <2>2, DeployShown DEF Effect, Shows
      <3> QED BY <3>1, ControllersIdle
    <2>3. CASE t.fn = "addModule"
      <3> DEFINE k == [ch.controllers EXCEPT ![t.run].modules = @ \cup {<<t.kind, t.run>>}]
      <3>1. n = [ch EXCEPT !.controllers = k]
        BY <2>1, <2>3 DEF Effect, AddModule
      <3>2. \A r \in Runs : k[r].sets = ch.controllers[r].sets
        BY ChainFields, TxFields DEF ControllerType
      <3> HIDE DEF k
      <3>3. n.sets = ch.sets /\ n.controllers = k
        BY <3>1, ControllersShown DEF Shows
      <3> QED BY <3>2, <3>3, ControllersIdle
    <2>4. CASE t.fn = "initialize"
      <3> DEFINE C == [initialized |-> TRUE, hasFactory |-> TRUE,
                       modules |-> {<<m, t.run>> : m \in t.modules}, sets |-> {}]
                 k == [ch.controllers EXCEPT ![t.run] = C]
      <3>1. n = [ch EXCEPT !.controllers = k] /\ ~ch.controllers[t.run].initialized
        BY <1>2, <2>1, <2>4 DEF Effect, InitializeController, Succeeds, CanInitializeController
      <3>2. t.run \in Runs /\ ch.controllers[t.run].sets = {} /\ C.sets = {}
        BY <3>1, TxFields DEF ChainInv
      <3> HIDE DEF C
      <3>3. \A r \in Runs : k[r].sets = ch.controllers[r].sets
        BY <3>2, ChainFields
      <3> HIDE DEF k
      <3>4. n.sets = ch.sets /\ n.controllers = k
        BY <3>1, ControllersShown DEF Shows
      <3> QED BY <3>3, <3>4, ControllersIdle
    <2>5. CASE t.fn = "approve"
      <3>1. n = Approve(ch, t)
        BY <2>1, <2>5 DEF Effect
      <3>2. Shows(n, ch.controllers, ch.sets, ch.wallet,
                  [ch.allowance EXCEPT ![Module(t)][t.tokens][t.token] = t.quantity])
        BY <3>1, ApproveShown
      <3>3. n.sets = ch.sets /\ n.controllers = ch.controllers
        BY <3>2 DEF Shows
      <3> QED BY <3>3, ControllersIdle
    <2>6. CASE t.fn \in {"", "approveController"}
      <3>1. n.sets = ch.sets /\ n.controllers = ch.controllers
        BY <2>1, <2>6 DEF Effect
      <3> QED BY <3>1, ControllersIdle
    <2>7. CASE t.fn = "lockSetToken"
      <3>1. n = Lock(ch, t) /\ t.set \in DOMAIN ch.sets
        BY <1>2, <2>1, <2>7, ValidInDomain DEF Effect, Succeeds, CanLock
      <3>2. Shows(n, ch.controllers, [ch.sets EXCEPT ![t.set] = Locked(ch.sets[t.set], TRUE)],
                  ch.wallet, ch.allowance)
        BY <3>1, LockShown
      <3>3. n.sets = [ch.sets EXCEPT ![t.set] = Locked(ch.sets[t.set], TRUE)] /\ n.controllers = ch.controllers
        BY <3>2 DEF Shows
      <3> QED BY <3>1, <3>3, SetLocked
    <2>8. CASE t.fn = "unlockSetToken"
      <3>1. n = Unlock(ch, t) /\ t.set \in DOMAIN ch.sets
        BY <1>2, <2>1, <2>8, ValidInDomain DEF Effect, Succeeds, CanUnlock
      <3>2. Shows(n, ch.controllers, [ch.sets EXCEPT ![t.set] = Locked(ch.sets[t.set], FALSE)],
                  ch.wallet, ch.allowance)
        BY <3>1, LockShown
      <3>3. n.sets = [ch.sets EXCEPT ![t.set] = Locked(ch.sets[t.set], FALSE)] /\ n.controllers = ch.controllers
        BY <3>2 DEF Shows
      <3> QED BY <3>1, <3>3, SetLocked
    <2> QED BY <2>1, <2>2, <2>3, <2>4, <2>5, <2>6, <2>7, <2>8 DEF Idle
  <1> QED BY <1>1, <1>2

LEMMA NewSetTokenShown ==
    ASSUME NEW t
    PROVE  LET T == NewSetToken(t) IN
           /\ T.stack = t.stack /\ T.tokens = t.tokens /\ T.pending = t.modules
           /\ T.initialized = {} /\ T.isLocked = FALSE
           /\ T.balance = [c \in Components |-> 0]
           /\ T.storage.virtualUnit = _units
           /\ T.storage.components = [i \in Components |-> i]
           /\ T.storage.totalSupply = 0
           /\ Plainly(T) /\ StageOf(T) = "registered" /\ SupplyOf(T) = 0
  <1> DEFINE st == InitialStorage([i \in Components |-> i], _units)
             T == NewSetToken(t)
  <1>1. /\ st.virtualUnit = _units /\ st.components = [i \in Components |-> i]
        /\ st.totalSupply = 0
    BY DEF InitialStorage
  <1> HIDE DEF st
  <1>2. /\ T.stack = t.stack /\ T.tokens = t.tokens /\ T.pending = t.modules
        /\ T.initialized = {} /\ T.isLocked = FALSE
        /\ T.balance = [c \in Components |-> 0] /\ T.storage = st
    BY DEF NewSetToken, st
  <1> HIDE DEF T
  <1>3. ether(0) = 0
    BY PreciseUnitAssumption, SMT DEF ether
  <1>4. 0 \in Nat /\ 0 \div ether(1) = 0
    BY <1>3, EtherFacts
  <1>5. ~Handled(T)
    BY <1>1, <1>2 DEF Handled
  <1>6. Plainly(T)
    BY <1>1, <1>2, <1>3, <1>4, <1>5 DEF Plainly
  <1>7. StageOf(T) = "registered" /\ SupplyOf(T) = 0
    BY <1>1, <1>2, <1>4, <1>5 DEF StageOf, Opened, SupplyOf
  <1> QED BY <1>1, <1>2, <1>6, <1>7 DEF T

\* A creation appends a Set; only the creator's is known to a Controller.
LEMMA CreationStep ==
    ASSUME NEW ch, ChainInv(ch), NEW t \in Tx, NEW n, Len(ch.sets) + 1 \in SetIds,
           n.sets = Append(ch.sets, NewSetToken(t)),
           \/ n.controllers = ch.controllers
           \/ n.controllers = Register(ch.controllers, t.stack, Len(ch.sets) + 1)
    PROVE  LaunchStep(ch, n) /\ (Pristine(ch) => Pristine(n))
  <1> DEFINE s == Len(ch.sets) + 1
             T == NewSetToken(t)
  <1>1. /\ ch.sets \in Seq(Sound) /\ Len(ch.sets) \in Nat /\ DOMAIN ch.sets = 1 .. Len(ch.sets)
        /\ n.sets = Append(ch.sets, T)
    BY ChainFields, LenProperties
  <1>2. /\ DOMAIN n.sets = 1 .. Len(ch.sets) + 1 /\ n.sets[s] = T
        /\ \A x \in DOMAIN ch.sets : n.sets[x] = ch.sets[x]
    BY <1>1
  <1>3. s \notin DOMAIN ch.sets /\ s \in DOMAIN n.sets /\ s \in Int /\ s \in SetIds
    BY <1>1, <1>2, SMT
  <1>4. \A x : x # s => (x \in DOMAIN n.sets <=> x \in DOMAIN ch.sets)
    BY <1>1, <1>2, SMT
  <1>5. /\ StageOf(T) = "registered" /\ SupplyOf(T) = 0 /\ T.balance = [c \in Components |-> 0]
        /\ Plainly(T)
    BY NewSetTokenShown
  <1>6. /\ \A r \in Runs : s \notin ch.controllers[r].sets
        /\ \A r \in Runs : \A x : x # s => (x \in n.controllers[r].sets <=> x \in ch.controllers[r].sets)
    <2>1. \A r \in Runs : s \notin ch.controllers[r].sets
      BY <1>3 DEF ChainInv
    <2>2. t.stack \in Runs /\ ch.controllers \in [Runs -> ControllerType]
      BY ChainFields, TxFields
    <2> HIDE DEF s
    <2>3. CASE n.controllers = Register(ch.controllers, t.stack, s)
      <3> DEFINE k == n.controllers
                 f == ch.controllers
                 g == t.stack
      <3>1. k = Register(f, g, s) /\ f \in [Runs -> ControllerType] /\ g \in Runs /\ s \in Int
        BY <1>3, <2>2, <2>3
      <3> HIDE DEF k, f, g
      <3>2. \A r \in Runs : k[r].sets = f[r].sets \cup {s} \/ k[r].sets = f[r].sets
        BY <3>1, Registered
      <3>3. \A r \in Runs : \/ n.controllers[r].sets = ch.controllers[r].sets \cup {s}
                            \/ n.controllers[r].sets = ch.controllers[r].sets
        BY <3>2 DEF k, f
      <3> QED BY <2>1, <3>3
    <2> QED BY <2>1, <2>3 DEF s
  <1> HIDE DEF s, T
  <1>7. \A x : x # s => (Known(n, x) <=> Known(ch, x))
    BY <1>4, <1>6 DEF Known
  <1>8. \A x : x # s => SameToken(ch, n, x)
    BY <1>2, <1>4, <1>7 DEF SameToken, StageIn, SupplyIn, VaultIn, Known
  <1>9. /\ StageIn(ch, s) = "absent" /\ SupplyIn(ch, s) = 0
        /\ VaultIn(ch, s) = [c \in Components |-> 0]
    BY <1>3 DEF StageIn, SupplyIn, VaultIn, Known
  <1>10. /\ SupplyIn(n, s) = 0 /\ VaultIn(n, s) = [c \in Components |-> 0]
         /\ StageIn(n, s) = IF Known(n, s) THEN "registered" ELSE "absent"
    BY <1>2, <1>3, <1>5 DEF StageIn, SupplyIn, VaultIn
  <1>11. SameToken(ch, n, s) \/ TokenMove(ch, n, s)
    BY <1>9, <1>10 DEF SameToken, TokenMove
  <1>12. LaunchStep(ch, n)
    BY <1>3, <1>8, <1>11 DEF LaunchStep, Still
  <1>13. Pristine(ch) => Pristine(n)
    <2>1. \A x \in DOMAIN n.sets : x = s \/ x \in DOMAIN ch.sets
      BY <1>4
    <2> QED BY <1>2, <1>5, <2>1 DEF Pristine
  <1> QED BY <1>12, <1>13

\* What a Set's module may do to it before anybody edits it.
LEMMA OpenStep ==
    ASSUME NEW ch, ChainInv(ch), NEW s \in DOMAIN ch.sets, NEW m, NEW n,
           n.sets = [ch.sets EXCEPT ![s] = Initialized(ch.sets[s], m)], n.controllers = ch.controllers,
           s \in SetIds, Known(ch, s), Plainly(ch.sets[s])
    PROVE  LaunchStep(ch, n) /\ (Pristine(ch) => Pristine(n))
  <1> DEFINE T == ch.sets[s]
             S == Initialized(T, m)
  <1>1. T \in Sound /\ Plainly(T)
    BY ChainFields, LenProperties
  <1>2. S.storage = T.storage /\ S.balance = T.balance /\ S.initialized = T.initialized \cup {m}
    BY <1>1, ModuleMoved
  <1>3. n.sets = [ch.sets EXCEPT ![s] = S]
    OBVIOUS
  <1> HIDE DEF S
  <1>4. /\ ~Handled(T) /\ ~Handled(S) /\ SupplyOf(S) = SupplyOf(T) /\ Plainly(S)
        /\ Opened(T) => Opened(S)
    BY <1>1, <1>2 DEF Plainly, Handled, SupplyOf, Opened
  <1>5. SetStill(T, S) \/ SetMove(T, S)
    BY <1>2, <1>4 DEF SetStill, SetMove, StageOf
  <1>6. Still(ch, n) \/ LaunchStep(ch, n)
    BY <1>3, <1>5, OneTokenMoves
  <1>7. Pristine(ch) => Pristine(n)
    BY <1>3, <1>4, ChainFields DEF Pristine
  <1> QED BY <1>6, <1>7 DEF LaunchStep

\* An issuance or a redemption of one token of a plain Set.
LEMMA TradeStep ==
    ASSUME NEW ch, ChainInv(ch), NEW t \in Tx, t.set \in DOMAIN ch.sets, t.set \in SetIds,
           Known(ch, t.set), Plainly(ch.sets[t.set]), Opened(ch.sets[t.set]),
           t.quantity = ether(1), NEW n,
           \/ n = Issue(ch, t)
           \/ n = Redeem(ch, t) /\ CanBurn(Storage_(ch, t), t.quantity)
    PROVE  LaunchStep(ch, n) /\ (Pristine(ch) => Pristine(n))
  <1> DEFINE s == t.set
             T == ch.sets[s]
             st == T.storage
             IN_ == TokensIn(T, TakenAll(ch, t), Mint(st, t.quantity))
             OUT == TokensOut(T, PaidAll(ch, t), Burn(st, t.quantity))
  <1>1. T \in Sound /\ st \in Storage /\ ~Handled(T) /\ t.quantity \in Nat
    BY ChainFields, LenProperties, SoundFields, TxFields DEF Plainly
  <1>2. PICK k \in Nat : st.totalSupply = ether(k)
    BY DEF Plainly
  <1>3. \A c \in Components : Taken(ch, t, c) = _units[c] /\ Paid(ch, t, c) = _units[c]
    BY <1>1, PlainAmounts
  <1>4. TakenAll(ch, t) = _units /\ PaidAll(ch, t) = _units
    BY <1>3 DEF TakenAll, PaidAll, _units
  <1>5. StageOf(T) = "open"
    BY <1>1 DEF StageOf
  <1>6. CASE n = Issue(ch, t)
    <2> DEFINE new == Mint(st, t.quantity)
               S == TokensIn(T, _units, new)
    <2>1. /\ S.storage = new /\ S.initialized = T.initialized
          /\ S.balance = [c \in Components |-> T.balance[c] + _units[c]]
      <3>1. Replaced(S, T, new) /\ S.balance = More(T.balance, _units)
        BY <1>1, TokensMoved
      <3> QED BY <3>1 DEF Replaced, More
    <2>2. /\ new.virtualUnit = st.virtualUnit /\ new.components = st.components
          /\ new.totalSupply = st.totalSupply + t.quantity
      BY <1>1, SupplyMoved
    <2>3. Shows(n, ch.controllers, [ch.sets EXCEPT ![s] = TokensIn(T, TakenAll(ch, t), new)],
                Debited(ch.wallet, ch.sets[t.set].tokens, TakenAll(ch, t)),
                Allowed(ch, t, TakenAll(ch, t)))
      BY <1>6, IssueShown
    <2>4. n.sets = [ch.sets EXCEPT ![s] = S] /\ n.controllers = ch.controllers
      BY <1>4, <2>3 DEF Shows
    <2> HIDE DEF new, S
    <2>5. ~Handled(S) /\ Opened(S)
      BY <1>1, <2>1, <2>2 DEF Handled, Opened
    <2>6. new.totalSupply = ether(k + 1) /\ k + 1 \in Nat
      BY <1>2, <2>2, EtherFacts
    <2>7. SupplyOf(S) = k + 1 /\ SupplyOf(T) = k
      BY <1>2, <2>1, <2>6, EtherFacts DEF SupplyOf
    <2>8. Plainly(S)
      BY <2>1, <2>5, <2>6 DEF Plainly
    <2>9. SetMove(T, S)
      BY <1>5, <2>1, <2>5, <2>7 DEF SetMove, StageOf
    <2>10. Pristine(ch) => Pristine(n)
      BY <2>4, <2>8, ChainFields DEF Pristine
    <2> QED BY <2>4, <2>9, <2>10, OneTokenMoves
  <1>7. CASE n = Redeem(ch, t) /\ CanBurn(Storage_(ch, t), t.quantity)
    <2> DEFINE new == Burn(st, t.quantity)
               S == TokensOut(T, _units, new)
    <2>1. /\ S.storage = new /\ S.initialized = T.initialized
          /\ S.balance = [c \in Components |-> T.balance[c] - _units[c]]
      <3>1. Replaced(S, T, new) /\ S.balance = Less(T.balance, _units)
        BY <1>1, TokensMoved
      <3> QED BY <3>1 DEF Replaced, Less
    <2>2. /\ new.virtualUnit = st.virtualUnit /\ new.components = st.components
          /\ new.totalSupply = st.totalSupply - t.quantity
      BY <1>1, SupplyMoved
    <2>3. Shows(n, ch.controllers, [ch.sets EXCEPT ![s] = TokensOut(T, PaidAll(ch, t), new)],
                Credited(ch.wallet, ch.sets[t.set].tokens, PaidAll(ch, t)), ch.allowance)
      BY <1>7, RedeemShown
    <2>4. n.sets = [ch.sets EXCEPT ![s] = S] /\ n.controllers = ch.controllers
      BY <1>4, <2>3 DEF Shows
    <2>5. ether(1) <= ether(k)
      BY <1>2, <1>7 DEF CanBurn, Storage_
    <2> HIDE DEF new, S
    <2>6. ~Handled(S) /\ Opened(S)
      BY <1>1, <2>1, <2>2 DEF Handled, Opened
    <2>7. k > 0 /\ new.totalSupply = ether(k - 1) /\ k - 1 \in Nat
      <3>1. k > 0
        BY <2>5, EtherFacts
      <3> QED BY <1>2, <2>2, <3>1, EtherFacts
    <2>8. SupplyOf(S) = k - 1 /\ SupplyOf(T) = k
      BY <1>2, <2>1, <2>7, EtherFacts DEF SupplyOf
    <2>9. Plainly(S)
      BY <2>1, <2>6, <2>7 DEF Plainly
    <2>10. SetMove(T, S)
      BY <1>5, <2>1, <2>6, <2>7, <2>8 DEF SetMove, StageOf
    <2>11. Pristine(ch) => Pristine(n)
      BY <2>4, <2>9, ChainFields DEF Pristine
    <2> QED BY <2>4, <2>10, <2>11, OneTokenMoves
  <1> QED BY <1>6, <1>7

\* The transactions of all scripts but 11.
GentleTx ==
    {t \in Tx : /\ t.fn \notin {"removeFromSetToken", "addToSetToken"}
                /\ t.fn \in {"issue", "redeem"} => t.quantity = ether(1) /\ t.kind = IssuanceModule}

\* They launch a token as promised.
LEMMA GentleStep ==
    ASSUME NEW ch, ChainInv(ch), Pristine(ch), NEW t \in GentleTx, NEW n, n = Execute(ch, t),
           Len(ch.sets) <= Cardinality(SetIds),
           t.fn \in Creations => Len(ch.sets) < Cardinality(SetIds)
    PROVE  Pristine(n) /\ LaunchStep(ch, n)
  <1>1. /\ t \in Tx /\ t.fn \in Fns /\ t.fn \notin {"removeFromSetToken", "addToSetToken"}
        /\ t.fn \in {"issue", "redeem"} => t.quantity = ether(1) /\ t.kind = IssuanceModule
    BY TxFields DEF GentleTx
  <1>2. Still(ch, n) => LaunchStep(ch, n)
    BY DEF LaunchStep
  <1>3. CASE t.fn \in Idle \/ ~Succeeds(ch, t)
    BY <1>1, <1>2, <1>3, IdleStep
  <1>4. CASE t.fn \in Creations /\ Succeeds(ch, t)
    <2>1. n = IF t.fn = "create" THEN Create(ch, t) ELSE DeploySetToken(ch, t)
      BY <1>4 DEF Execute, Effect, Creations
    <2>2. Len(ch.sets) + 1 \in SetIds
      <3>1. Len(ch.sets) \in Nat /\ Cardinality(SetIds) \in Nat
        BY ChainFields, LenProperties, SetIdsShown
      <3>2. Len(ch.sets) + 1 \in 1 .. Cardinality(SetIds)
        BY <1>4, <3>1, SMT
      <3> QED BY <3>2, SetIdsShown
    <2>3. /\ n.sets = Append(ch.sets, NewSetToken(t))
          /\ \/ n.controllers = ch.controllers
             \/ n.controllers = Register(ch.controllers, t.stack, Len(ch.sets) + 1)
      <3>1. CASE n = Create(ch, t)
        BY <3>1, CreateShown DEF Shows
      <3>2. CASE n = DeploySetToken(ch, t)
        BY <3>2, DeploySetTokenShown DEF Shows
      <3> QED BY <2>1, <3>1, <3>2
    <2> QED BY <1>1, <2>2, <2>3, CreationStep
  <1>5. ASSUME t.fn \in {"initializeModule", "issue", "redeem"}, Succeeds(ch, t)
        PROVE  /\ t.set \in DOMAIN ch.sets /\ t.set \in SetIds /\ Known(ch, t.set)
               /\ Plainly(ch.sets[t.set])
    <2>1. ValidSet(ch, t)
      BY <1>5 DEF Succeeds, CanInitializeModule, CanIssue, CanRedeem, ValidAndInitialized
    <2>2. t.set \in DOMAIN ch.sets /\ Known(ch, t.set)
      BY <1>1, <2>1, TxFields DEF ValidSet, ChainInv, Known
    <2>3. t.set \in SetIds
      <3>1. Len(ch.sets) \in Nat /\ Cardinality(SetIds) \in Nat /\ DOMAIN ch.sets = 1 .. Len(ch.sets)
        BY ChainFields, LenProperties, SetIdsShown
      <3>2. t.set \in 1 .. Cardinality(SetIds)
        BY <2>2, <3>1, SMT
      <3> QED BY <3>2, SetIdsShown
    <2> QED BY <2>2, <2>3 DEF Pristine
  <1>6. CASE t.fn = "initializeModule" /\ Succeeds(ch, t)
    <2>1. n = InitializeModule(ch, t)
      BY <1>6 DEF Execute, Effect
    <2>2. Shows(n, ch.controllers, [ch.sets EXCEPT ![t.set] = Initialized(ch.sets[t.set], Module(t))],
                ch.wallet, ch.allowance)
      BY <2>1, InitializeModuleShown
    <2>3. /\ n.sets = [ch.sets EXCEPT ![t.set] = Initialized(ch.sets[t.set], Module(t))]
          /\ n.controllers = ch.controllers
      BY <2>2 DEF Shows
    <2> QED BY <1>5, <1>6, <2>3, OpenStep
  <1>7. CASE t.fn \in {"issue", "redeem"} /\ Succeeds(ch, t)
    <2>1. ValidAndInitialized(ch, t) /\ (t.fn = "redeem" => CanBurn(Storage_(ch, t), t.quantity))
      BY <1>7 DEF Succeeds, CanIssue, CanRedeem
    <2>2. Opened(ch.sets[t.set])
      BY <1>1, <1>7, <2>1 DEF ValidAndInitialized, Module, Opened
    <2>3. \/ n = Issue(ch, t)
          \/ n = Redeem(ch, t) /\ CanBurn(Storage_(ch, t), t.quantity)
      BY <1>7, <2>1 DEF Execute, Effect
    <2> QED BY <1>1, <1>5, <1>7, <2>2, <2>3, TradeStep
  <1> QED BY <1>1, <1>3, <1>4, <1>6, <1>7 DEF Fns, Idle, Creations

-----------------------------------------------------------------------------
(* The instructions, written out *)

Reads(i, op, fn, kind, token, quantity, modules, checked) ==
    /\ i.op = op /\ i.fn = fn /\ i.kind = kind /\ i.token = token /\ i.quantity = quantity
    /\ i.modules = modules /\ i.checked = checked

LEMMA InstructionEdited ==
    ASSUME NEW c \in InstructionType, NEW x, NEW y, NEW z
    PROVE  /\ Reads([c EXCEPT !.op = x], x, c.fn, c.kind, c.token, c.quantity, c.modules, c.checked)
           /\ Reads([c EXCEPT !.token = x], c.op, c.fn, c.kind, x, c.quantity, c.modules, c.checked)
           /\ Reads([c EXCEPT !.quantity = x], c.op, c.fn, c.kind, c.token, x, c.modules, c.checked)
           /\ Reads([c EXCEPT !.modules = x], c.op, c.fn, c.kind, c.token, c.quantity, x, c.checked)
           /\ Reads([c EXCEPT !.checked = x], c.op, c.fn, c.kind, c.token, c.quantity, c.modules, x)
           /\ Reads([c EXCEPT !.token = x, !.quantity = y],
                    c.op, c.fn, c.kind, x, y, c.modules, c.checked)
           /\ Reads([c EXCEPT !.quantity = x, !.checked = y],
                    c.op, c.fn, c.kind, c.token, x, c.modules, y)
           /\ Reads([c EXCEPT !.op = x, !.fn = y, !.kind = z],
                    x, y, z, c.token, c.quantity, c.modules, c.checked)
  BY DEF InstructionType, Reads

LEMMA CallReads ==
    ASSUME NEW fn \in Fns, NEW kind \in Kinds
    PROVE  /\ Call(fn, kind) \in InstructionType
           /\ Reads(Call(fn, kind), "call", fn, kind, 0, 0, {}, TRUE)
  <1>1. Call(fn, kind) \in InstructionType
    BY CallFields DEF IsCall
  <1>2. Reads(Call(fn, kind), "call", fn, kind, 0, 0, {}, TRUE)
    <2> DEFINE c == Instruction
               i == [c EXCEPT !.op = "call", !.fn = fn, !.kind = kind]
    <2>1. c \in InstructionType /\ Reads(c, "", "", "", 0, 0, {}, TRUE)
      BY InstructionFields DEF Reads
    <2>2. Call(fn, kind) = i
      BY DEF Call
    <2> HIDE DEF c
    <2>3. Reads(i, "call", fn, kind, c.token, c.quantity, c.modules, c.checked)
      BY <2>1, InstructionEdited, Zenon
    <2> QED BY <2>1, <2>2, <2>3 DEF Reads
  <1> QED BY <1>1, <1>2

LEMMA DeployReads ==
    ASSUME NEW kind \in Kinds
    PROVE  /\ Reads(Deploy(kind), "deploy", "deploy", kind, 0, 0, {}, FALSE)
           /\ Reads(AwaitDeployed(kind), "deployed", "deploy", kind, 0, 0, {}, FALSE)
  <1> DEFINE d == Deploy(kind)
  <1>1. d \in InstructionType /\ Reads(d, "deploy", "deploy", kind, 0, 0, {}, FALSE)
    BY DeployFields DEF Reads
  <1>2. AwaitDeployed(kind) = [d EXCEPT !.op = "deployed"]
    BY DEF AwaitDeployed, Deployed
  <1> HIDE DEF d
  <1>3. Reads(AwaitDeployed(kind), "deployed", "deploy", kind, 0, 0, {}, FALSE)
    BY <1>1, <1>2, InstructionEdited DEF Reads
  <1> QED BY <1>1, <1>3 DEF d

LEMMA TokenMockReads ==
    ASSUME NEW i \in Components
    PROVE  /\ Reads(deployTokenMock(i), "deploy", "deploy", "token", i, 0, {}, FALSE)
           /\ Reads(Deployed(deployTokenMock(i)), "deployed", "deploy", "token", i, 0, {}, FALSE)
  <1> DEFINE d == Deploy("token")
             m == deployTokenMock(i)
             a == Deployed(m)
  <1>1. d \in InstructionType /\ Reads(d, "deploy", "deploy", "token", 0, 0, {}, FALSE)
    BY DeployFields DEF Reads, Kinds
  <1>2. m \in InstructionType
    BY TokenMockPlain DEF Plain, Any
  <1>3. m = [d EXCEPT !.token = i] /\ a = [m EXCEPT !.op = "deployed"]
    BY DEF deployTokenMock, Deployed
  <1> HIDE DEF d, m, a
  <1>4. Reads(m, "deploy", "deploy", "token", i, 0, {}, FALSE)
    BY <1>1, <1>3, InstructionEdited DEF Reads
  <1>5. Reads(a, "deployed", "deploy", "token", i, 0, {}, FALSE)
    BY <1>2, <1>3, <1>4, InstructionEdited DEF Reads
  <1> QED BY <1>4, <1>5 DEF m, a

LEMMA ArgumentsRead ==
    ASSUME NEW fn \in Fns, NEW kind \in Kinds, NEW x, NEW q
    PROVE  /\ Reads([Call(fn, kind) EXCEPT !.modules = x], "call", fn, kind, 0, 0, x, TRUE)
           /\ Reads([Call(fn, kind) EXCEPT !.token = x, !.quantity = q], "call", fn, kind, x, q, {}, TRUE)
           /\ Reads([Call(fn, kind) EXCEPT !.quantity = q], "call", fn, kind, 0, q, {}, TRUE)
           /\ Reads([Call(fn, kind) EXCEPT !.quantity = q, !.checked = FALSE],
                    "call", fn, kind, 0, q, {}, FALSE)
  <1> DEFINE c == Call(fn, kind)
  <1>1. c \in InstructionType /\ Reads(c, "call", fn, kind, 0, 0, {}, TRUE)
    BY CallReads
  <1> HIDE DEF c
  <1>2. /\ Reads([c EXCEPT !.modules = x], "call", fn, kind, 0, 0, x, TRUE)
        /\ Reads([c EXCEPT !.token = x, !.quantity = q], "call", fn, kind, x, q, {}, TRUE)
        /\ Reads([c EXCEPT !.quantity = q], "call", fn, kind, 0, q, {}, TRUE)
        /\ Reads([c EXCEPT !.quantity = q, !.checked = FALSE], "call", fn, kind, 0, q, {}, FALSE)
    BY <1>1, InstructionEdited DEF Reads
  <1> QED BY <1>2 DEF c

LEMMA CallsRead ==
    /\ \A m : /\ Reads(initialize(m), "call", "initialize", "controller", 0, 0, m, TRUE)
              /\ Reads(create(m), "call", "create", "setTokenCreator", 0, 0, m, TRUE)
    /\ \A kind \in Kinds : \A i, q : Reads(approve(kind, i, q), "call", "approve", kind, i, q, {}, TRUE)
    /\ \A i, q : /\ Reads(removeFromSetToken(i, q), "call", "removeFromSetToken", ManageModule, i, q, {}, TRUE)
                 /\ Reads(addToSetToken(i, q), "call", "addToSetToken", ManageModule, i, q, {}, TRUE)
    /\ \A q : /\ Reads(issue(q), "call", "issue", IssuanceModule, 0, q, {}, FALSE)
              /\ Reads(redeem(q), "call", "redeem", IssuanceModule, 0, q, {}, TRUE)
    /\ \A kind \in Kinds : Reads(initializeModule(kind), "call", "initializeModule", kind, 0, 0, {}, TRUE)
    /\ Reads(Call("addModule", ManageModule), "call", "addModule", ManageModule, 0, 0, {}, TRUE)
    /\ Reads(lockSetToken, "call", "lockSetToken", ManageModule, 0, 0, {}, TRUE)
    /\ Reads(unlockSetToken, "call", "unlockSetToken", ManageModule, 0, 0, {}, TRUE)
    /\ Reads(approveController, "call", "approveController", "controller", 0, 0, {}, TRUE)
  <1>1. /\ Fns = {"", "deploy", "initialize", "addModule", "create", "deploySetToken", "initializeModule",
                  "approve", "issue", "redeem", "removeFromSetToken", "addToSetToken",
                  "lockSetToken", "unlockSetToken", "approveController"}
        /\ IssuanceModule \in Kinds /\ ManageModule \in Kinds /\ "controller" \in Kinds
        /\ "setTokenCreator" \in Kinds
    BY DEF Fns, Kinds, IssuanceModule, ManageModule
  <1>2. \A m : /\ Reads(initialize(m), "call", "initialize", "controller", 0, 0, m, TRUE)
               /\ Reads(create(m), "call", "create", "setTokenCreator", 0, 0, m, TRUE)
    <2> TAKE m
    <2>1. Reads(initialize(m), "call", "initialize", "controller", 0, 0, m, TRUE)
      BY <1>1, ArgumentsRead, Zenon DEF initialize
    <2>2. Reads(create(m), "call", "create", "setTokenCreator", 0, 0, m, TRUE)
      BY <1>1, ArgumentsRead, Zenon DEF create
    <2> QED BY <2>1, <2>2
  <1>3. \A kind \in Kinds : \A i, q : Reads(approve(kind, i, q), "call", "approve", kind, i, q, {}, TRUE)
    BY <1>1, ArgumentsRead, Zenon DEF approve
  <1>4. \A i, q : /\ Reads(removeFromSetToken(i, q), "call", "removeFromSetToken", ManageModule, i, q, {}, TRUE)
                  /\ Reads(addToSetToken(i, q), "call", "addToSetToken", ManageModule, i, q, {}, TRUE)
    <2> TAKE i, q
    <2>1. Reads(removeFromSetToken(i, q), "call", "removeFromSetToken", ManageModule, i, q, {}, TRUE)
      BY <1>1, ArgumentsRead, Zenon DEF removeFromSetToken
    <2>2. Reads(addToSetToken(i, q), "call", "addToSetToken", ManageModule, i, q, {}, TRUE)
      BY <1>1, ArgumentsRead, Zenon DEF addToSetToken
    <2> QED BY <2>1, <2>2
  <1>5. \A q : /\ Reads(issue(q), "call", "issue", IssuanceModule, 0, q, {}, FALSE)
               /\ Reads(redeem(q), "call", "redeem", IssuanceModule, 0, q, {}, TRUE)
    <2> TAKE q
    <2>1. Reads(issue(q), "call", "issue", IssuanceModule, 0, q, {}, FALSE)
      BY <1>1, ArgumentsRead, Zenon DEF issue
    <2>2. Reads(redeem(q), "call", "redeem", IssuanceModule, 0, q, {}, TRUE)
      BY <1>1, ArgumentsRead, Zenon DEF redeem
    <2> QED BY <2>1, <2>2
  <1>6. /\ \A kind \in Kinds : Reads(initializeModule(kind), "call", "initializeModule", kind, 0, 0, {}, TRUE)
        /\ Reads(Call("addModule", ManageModule), "call", "addModule", ManageModule, 0, 0, {}, TRUE)
        /\ Reads(lockSetToken, "call", "lockSetToken", ManageModule, 0, 0, {}, TRUE)
        /\ Reads(unlockSetToken, "call", "unlockSetToken", ManageModule, 0, 0, {}, TRUE)
        /\ Reads(approveController, "call", "approveController", "controller", 0, 0, {}, TRUE)
    BY <1>1, CallReads DEF initializeModule, lockSetToken, unlockSetToken, approveController
  <1> QED BY <1>2, <1>3, <1>4, <1>5, <1>6

-----------------------------------------------------------------------------
(* The instructions of all scripts but 11 *)

Gentle ==
    {i \in Any : /\ i.fn \notin {"removeFromSetToken", "addToSetToken"}
                 /\ i.fn \in {"issue", "redeem"} => i.quantity = ether(1) /\ i.kind = IssuanceModule}

\* The library dry-runs their calls.
Careful == {i \in Gentle : i.fn = "deploy" \/ (i.op # "deploy" /\ i.checked)}

LEMMA GentleInstructions ==
    /\ \A kind \in Kinds : Deploy(kind) \in Careful /\ AwaitDeployed(kind) \in Careful
    /\ \A i \in Components : /\ deployTokenMock(i) \in Careful /\ Deployed(deployTokenMock(i)) \in Careful
                             /\ \A q \in Nat : approve(IssuanceModule, i, q) \in Careful
    /\ \A m \in SUBSET Kinds : initialize(m) \in Careful
    /\ \A m \in SUBSET {IssuanceModule, ManageModule} : create(m) \in Careful
    /\ [Call("deploySetToken", "controller") EXCEPT !.modules = {IssuanceModule}] \in Careful
    /\ \A kind \in {IssuanceModule, ManageModule} : initializeModule(kind) \in Careful
    /\ issue(ether(1)) \in Gentle /\ [issue(ether(1)) EXCEPT !.checked = TRUE] \in Careful
    /\ redeem(ether(1)) \in Careful /\ approveController \in Careful
    /\ AwaitReceipt \in Careful /\ getCreatedSetTokenAddress \in Careful
    /\ [Instruction EXCEPT !.op = "attach"] \in Careful
  <1>1. /\ Plain \subseteq Any
        /\ \A i \in Any :
                i.fn \notin {"removeFromSetToken", "addToSetToken", "issue", "redeem"}
                    /\ (i.fn = "deploy" \/ (i.op # "deploy" /\ i.checked))
                => i \in Careful
    BY DEF Plain, Gentle, Careful
  <1>2. IssuanceModule \in Kinds /\ ManageModule \in Kinds
    BY DEF Kinds, IssuanceModule, ManageModule
  <1>3. \A kind \in Kinds : Deploy(kind) \in Careful /\ AwaitDeployed(kind) \in Careful
    <2> TAKE kind \in Kinds
    <2>1. Deploy(kind).fn = "deploy" /\ AwaitDeployed(kind).fn = "deploy"
      BY DeployReads DEF Reads
    <2> QED BY <1>1, <2>1, DeployPlain
  <1>4. \A i \in Components : deployTokenMock(i) \in Careful /\ Deployed(deployTokenMock(i)) \in Careful
    <2> TAKE i \in Components
    <2>1. deployTokenMock(i).fn = "deploy" /\ Deployed(deployTokenMock(i)).fn = "deploy"
      BY TokenMockReads DEF Reads
    <2> QED BY <1>1, <2>1, TokenMockPlain
  <1>5. \A i \in Components : \A q \in Nat : approve(IssuanceModule, i, q) \in Careful
    <2> TAKE i \in Components
    <2> TAKE q \in Nat
    <2>1. /\ approve(IssuanceModule, i, q).fn = "approve" /\ approve(IssuanceModule, i, q).checked
          /\ approve(IssuanceModule, i, q).op = "call"
      BY <1>2, CallsRead DEF Reads
    <2> QED BY <1>1, <2>1, ApproveAddRemovePlain
  <1>6. \A m \in SUBSET Kinds : initialize(m) \in Careful
    <2> TAKE m \in SUBSET Kinds
    <2>1. initialize(m).fn = "initialize" /\ initialize(m).checked /\ initialize(m).op = "call"
      BY CallsRead DEF Reads
    <2> QED BY <1>1, <2>1, InitializePlain
  <1>7. /\ \A m \in SUBSET {IssuanceModule, ManageModule} : create(m) \in Careful
        /\ [Call("deploySetToken", "controller") EXCEPT !.modules = {IssuanceModule}] \in Careful
    <2> DEFINE y == [Call("deploySetToken", "controller") EXCEPT !.modules = {IssuanceModule}]
    <2>1. \A m : create(m).checked
      BY CallsRead DEF Reads
    <2>2. y.checked
      <3>1. "deploySetToken" \in Fns /\ "controller" \in Kinds
        BY DEF Fns, Kinds
      <3>2. Reads(y, "call", "deploySetToken", "controller", 0, 0, {IssuanceModule}, TRUE)
        BY <3>1, ArgumentsRead
      <3> HIDE DEF y
      <3> QED BY <3>2 DEF Reads
    <2>3. y \in Any /\ y.fn = "deploySetToken" /\ y.op = "call"
      BY CreationFields
    <2> HIDE DEF y
    <2>4. y \in Careful
      BY <1>1, <2>2, <2>3
    <2> QED BY <1>1, <2>1, <2>4, CreationFields DEF y
  <1>8. \A kind \in {IssuanceModule, ManageModule} : initializeModule(kind) \in Careful
    <2> TAKE kind \in {IssuanceModule, ManageModule}
    <2>1. /\ initializeModule(kind).fn = "initializeModule" /\ initializeModule(kind).checked
          /\ initializeModule(kind).op = "call"
      BY <1>2, CallsRead DEF Reads
    <2> QED BY <1>1, <2>1, CorePlain
  <1>9. /\ issue(ether(1)) \in Gentle /\ [issue(ether(1)) EXCEPT !.checked = TRUE] \in Careful
        /\ redeem(ether(1)) \in Careful
    <2> DEFINE i == issue(ether(1))
               j == [i EXCEPT !.checked = TRUE]
               k == redeem(ether(1))
    <2>1. ether(1) \in Nat
      BY EtherNat, SMT
    <2>2. i \in Any /\ j \in Any /\ k \in Any
      BY <1>1, <2>1, IssueRedeemPlain
    <2>3. /\ Reads(i, "call", "issue", IssuanceModule, 0, ether(1), {}, FALSE)
          /\ Reads(k, "call", "redeem", IssuanceModule, 0, ether(1), {}, TRUE)
      BY CallsRead
    <2> HIDE DEF i, k
    <2>4. i \in InstructionType
      BY <2>2 DEF Any
    <2>5. Reads(j, i.op, i.fn, i.kind, i.token, i.quantity, i.modules, TRUE)
      BY <2>4, InstructionEdited, Zenon
    <2> HIDE DEF j
    <2>6. i \in Gentle /\ j \in Careful /\ k \in Careful
      BY <2>2, <2>3, <2>5 DEF Gentle, Careful, Reads
    <2> QED BY <2>6 DEF i, j, k
  <1>10. approveController \in Careful
    <2>1. /\ approveController.fn = "approveController" /\ approveController.checked
          /\ approveController.op = "call"
      BY CallsRead DEF Reads
    <2> QED BY <1>1, <2>1, CorePlain
  <1>11. /\ AwaitReceipt \in Careful /\ getCreatedSetTokenAddress \in Careful
         /\ [Instruction EXCEPT !.op = "attach"] \in Careful
    <2>1. /\ AwaitReceipt.checked /\ getCreatedSetTokenAddress.checked
          /\ [Instruction EXCEPT !.op = "attach"].checked
          /\ AwaitReceipt.op # "deploy" /\ getCreatedSetTokenAddress.op # "deploy"
          /\ [Instruction EXCEPT !.op = "attach"].op # "deploy"
      BY DEF AwaitReceipt, getCreatedSetTokenAddress, Instruction
    <2> QED BY <1>1, <2>1, CreationFields
  <1> QED BY <1>3, <1>4, <1>5, <1>6, <1>7, <1>8, <1>9, <1>10, <1>11

\* Their programs consist of them.
LEMMA GentlePrograms ==
    ASSUME NEW script \in ScriptNames \ {"11"}
    PROVE  /\ Program(script) \in Seq(Gentle)
           /\ script # "04" => Program(script) \in Seq(Careful)
  <1> DEFINE D(k) == IF k % 2 = 1 THEN deployTokenMock((k + 1) \div 2)
                                  ELSE Deployed(deployTokenMock((k + 1) \div 2))
             O(k) == IF k % 2 = 1 THEN deployTokenMock((k + 1) \div 2) ELSE Deploy("oracleMock")
             A(q, i) == approve(IssuanceModule, i, q[i])
             Approvals(q) == [i \in 1 .. N |-> A(q, i)]
             m == {IssuanceModule, "streamingFeeModule", "navIssuanceModule"}
             first == <<deployController, deployBasicIssuanceModule>>
             last == <<Deploy("integrationRegistry"), deploySetTokenCreator, Deploy("priceOracle"),
                       Deploy("integrationRegistry"), Deploy("setValuer"),
                       Deploy("streamingFeeModule"), Deploy("navIssuanceModule"), initialize(m)>>
             i1 == initializeModule(IssuanceModule)
             is == issue(ether(1))
             tail == [is EXCEPT !.checked = TRUE]
             y == [Call("deploySetToken", "controller") EXCEPT !.modules = {IssuanceModule}]
             at == [Instruction EXCEPT !.op = "attach"]
  <1>0. \A P \in Seq(Careful) : P \in Seq(Gentle)
    <2>1. Careful \subseteq Gentle
      BY DEF Careful
    <2> QED BY <2>1, SMT
  <1>1. /\ 2 * N \in Nat /\ N \in Nat /\ Components = 1 .. N
        /\ \A i \in Components : _units[i] \in Nat
    BY EtherNat, SMT
  <1>2. \A q \in [Components -> Nat] : Approvals(q) \in Seq(Careful)
    <2> TAKE q \in [Components -> Nat]
    <2>1. \A i \in 1 .. N : A(q, i) \in Careful
      BY <1>1, GentleInstructions
    <2> HIDE DEF A
    <2> QED BY <1>1, <2>1, SMT
  <1>3. [k \in 1 .. 2 * N |-> D(k)] \in Seq(Careful) /\ [k \in 1 .. 2 * N |-> O(k)] \in Seq(Careful)
    <2>1. "oracleMock" \in Kinds
      BY DEF Kinds
    <2>2. \A k \in 1 .. 2 * N : D(k) \in Careful /\ O(k) \in Careful
      BY <2>1, HalfWay, GentleInstructions, Zenon
    <2> HIDE DEF D, O
    <2> QED BY <1>1, <2>2, SMT
  <1>4. /\ "controller" \in Kinds /\ "setTokenCreator" \in Kinds
        /\ IssuanceModule \in Kinds /\ ManageModule \in Kinds
        /\ "integrationRegistry" \in Kinds /\ "priceOracle" \in Kinds /\ "setValuer" \in Kinds
        /\ "streamingFeeModule" \in Kinds /\ "navIssuanceModule" \in Kinds
    BY DEF Kinds, IssuanceModule, ManageModule
  <1>5. /\ deployController \in Careful /\ deploySetTokenCreator \in Careful
        /\ deployBasicIssuanceModule \in Careful /\ deployComponentManageModule \in Careful
        /\ AwaitDeployed("controller") \in Careful /\ AwaitDeployed("setTokenCreator") \in Careful
        /\ AwaitDeployed(IssuanceModule) \in Careful /\ AwaitDeployed(ManageModule) \in Careful
        /\ Deploy("integrationRegistry") \in Careful /\ Deploy("priceOracle") \in Careful
        /\ Deploy("setValuer") \in Careful /\ Deploy("streamingFeeModule") \in Careful
        /\ Deploy("navIssuanceModule") \in Careful
    BY <1>4, GentleInstructions
       DEF deployController, deploySetTokenCreator, deployBasicIssuanceModule,
           deployComponentManageModule
  <1>6. /\ initialize(m) \in Careful /\ initialize({IssuanceModule, ManageModule}) \in Careful
        /\ create({IssuanceModule}) \in Careful /\ create({IssuanceModule, ManageModule}) \in Careful
    <2>1. m \in SUBSET Kinds /\ {IssuanceModule, ManageModule} \in SUBSET Kinds
      BY <1>4
    <2> HIDE DEF m
    <2> QED BY <2>1, GentleInstructions
  <1>7. /\ i1 \in Careful /\ initializeModule(ManageModule) \in Careful /\ is \in Gentle
        /\ tail \in Careful /\ y \in Careful /\ at \in Careful
        /\ redeem(ether(1)) \in Careful /\ approveController \in Careful
        /\ AwaitReceipt \in Careful /\ getCreatedSetTokenAddress \in Careful
    BY GentleInstructions
  <1> HIDE DEF m
  <1>8. Script01 \in Seq(Careful)
    <2>1. Script01 = [k \in 1 .. 2 * N |-> D(k)]
      BY DEF Script01, DeployTokens, ForEachComponent
    <2> QED BY <1>3, <2>1
  <1>9. Script02 \in Seq(Careful) /\ Script03 \in Seq(Careful) /\ Script05 \in Seq(Careful)
    BY <1>5, <1>6, <1>7 DEF Script02, Script03, Script05
  <1>10. Script04 \in Seq(Gentle)
    <2>1. _units \in [Components -> Nat]
      BY <1>1 DEF _units
    <2>2. Script04 = (<<AwaitDeployed(IssuanceModule)>> \o Approvals(_units)) \o <<is>>
      BY DEF Script04, ApproveUnits
    <2>3. <<AwaitDeployed(IssuanceModule)>> \in Seq(Gentle) /\ <<is>> \in Seq(Gentle)
      <3>1. AwaitDeployed(IssuanceModule) \in Gentle
        BY <1>5 DEF Careful
      <3> QED BY <1>7, <3>1
    <2>4. Approvals(_units) \in Seq(Gentle)
      <3>1. Approvals(_units) \in Seq(Careful)
        BY <1>2, <2>1
      <3> HIDE DEF Approvals
      <3> QED BY <1>0, <3>1
    <2> HIDE DEF Approvals, is
    <2>5. <<AwaitDeployed(IssuanceModule)>> \o Approvals(_units) \in Seq(Gentle)
      BY <2>3, <2>4, ConcatProperties
    <2> QED BY <2>2, <2>3, <2>5, ConcatProperties
  <1>11. FixtureInitialize \in Seq(Careful)
    <2> DEFINE q == [i \in Components |-> INITIAL_BALANCE]
               mocks == [k \in 1 .. 2 * N |-> O(k)]
               allow == [i \in 1 .. N |-> approve(IssuanceModule, i, INITIAL_BALANCE)]
    <2>1. q \in [Components -> Nat] /\ allow = Approvals(q)
      BY <1>1, RunsAssumption
    <2>2. mocks \in Seq(Careful) /\ allow \in Seq(Careful)
      BY <1>2, <1>3, <2>1
    <2>3. FixtureInitialize = (first \o (mocks \o allow)) \o last
      BY DEF FixtureInitialize, initializeStandardComponents, ForEachComponent, m
    <2>4. first \in Seq(Careful) /\ last \in Seq(Careful)
      BY <1>5, <1>6
    <2> HIDE DEF first, last, mocks, allow
    <2>5. mocks \o allow \in Seq(Careful)
      BY <2>2, ConcatProperties
    <2>6. first \o (mocks \o allow) \in Seq(Careful)
      BY <2>4, <2>5, ConcatProperties
    <2> QED BY <2>3, <2>4, <2>6, ConcatProperties
  <1>12. FixtureUnregistered \in Seq(Careful)
    <2>1. FixtureUnregistered = (FixtureInitialize \o <<y, at>>) \o <<i1>>
      BY DEF FixtureUnregistered, createNonControllerEnabledSetToken
    <2>2. <<y, at>> \in Seq(Careful) /\ <<i1>> \in Seq(Careful)
      BY <1>7
    <2> HIDE DEF y, at, i1
    <2>3. FixtureInitialize \o <<y, at>> \in Seq(Careful)
      BY <1>11, <2>2, ConcatProperties
    <2> QED BY <2>1, <2>2, <2>3, ConcatProperties
  <1>13. FixtureIssues \in Seq(Careful)
    <2> DEFINE q == [i \in Components |-> MAX_UINT_256]
               allow == [i \in 1 .. N |-> approve(IssuanceModule, i, MAX_UINT_256)]
    <2>1. q \in [Components -> Nat] /\ allow = Approvals(q)
      BY <1>1, AllowanceAssumption
    <2>2. allow \in Seq(Careful)
      BY <1>2, <2>1
    <2>3. FixtureIssues = ((FixtureInitialize \o createSetToken) \o <<i1>>) \o (allow \o <<tail>>)
      BY DEF FixtureIssues, approveAndIssueSetToken
    <2>4. createSetToken \in Seq(Careful) /\ <<i1>> \in Seq(Careful) /\ <<tail>> \in Seq(Careful)
      BY <1>6, <1>7 DEF createSetToken
    <2> HIDE DEF allow, i1, tail
    <2>5. FixtureInitialize \o createSetToken \in Seq(Careful) /\ allow \o <<tail>> \in Seq(Careful)
      BY <1>11, <2>2, <2>4, ConcatProperties
    <2>6. (FixtureInitialize \o createSetToken) \o <<i1>> \in Seq(Careful)
      BY <2>4, <2>5, ConcatProperties
    <2> QED BY <2>3, <2>5, <2>6, ConcatProperties
  <1>14. /\ Program("01") = Script01 /\ Program("02") = Script02 /\ Program("03") = Script03
         /\ Program("04") = Script04 /\ Program("05") = Script05
         /\ Program("fixture") = FixtureIssues /\ Program("unregistered") = FixtureUnregistered
    BY DEF Program
  <1>15. script # "04" => Program(script) \in Seq(Careful)
    BY <1>8, <1>9, <1>12, <1>13, <1>14 DEF ScriptNames, Steps
  <1> QED BY <1>0, <1>10, <1>14, <1>15

-----------------------------------------------------------------------------
(* Script 11, from the first initialization on: the k-th of its instructions *)
(* finds the chain of State11(ch, k, s), where s is the Set that it reads    *)

\* Neither issued nor edited.
Untouched(S) == ~Handled(S) /\ S.storage.totalSupply = 0

\* The last Set of the chain, strangers' copies included.
Registered11(ch, s) ==
    /\ DOMAIN ch.sets = 1 .. s /\ s \in ch.controllers[1].sets
    /\ \A x \in DOMAIN ch.sets \ {s} : Untouched(ch.sets[x])
    /\ {<<IssuanceModule, 1>>, <<ManageModule, 1>>} \subseteq ch.controllers[1].modules

Modules11(T, k) ==
    /\ T.stack = 1 /\ T.tokens = 1
    /\ <<IssuanceModule, 1>> \in IF k <= 1 THEN T.pending ELSE T.initialized
    /\ <<ManageModule, 1>> \in IF k <= 2 THEN T.pending ELSE T.initialized
    /\ T.isLocked <=> k \in {4, 8, 9, 10}

\* The second component: how often it is listed, its unit and what the Set holds.
Second(T, listed, unit, held) ==
    /\ Occurrences(T.storage.components, 2) = listed
    /\ T.storage.virtualUnit[2] = ether(unit) /\ T.balance[2] = ether(held)

\* The books of the Set, given the wallets and the allowances.
Account11(T, wallet, allowance, k) ==
    /\ k <= 8 => ~Handled(T)
    /\ k <= 5 => /\ T.storage.totalSupply = 0
                 /\ \A c \in Components : /\ T.balance[c] = 0 /\ wallet[1][c] = INITIAL_BALANCE
                                          /\ allowance[<<IssuanceModule, 1>>][1][c] = _units[c]
    /\ k >= 6 => T.storage.totalSupply = ether(1)
    /\ k \in 6 .. 8 => \A c \in Components : T.balance[c] = _units[c]
    /\ k \in 6 .. 12 => wallet[1][2] = INITIAL_BALANCE - ether(2)
    /\ k >= 9 => T.storage.virtualUnit[1] = halfEther
    /\ k = 9 => Second(T, 1, 2, 2)
    /\ k \in 10 .. 12 => Occurrences(T.storage.components, 2) = 0 /\ T.balance[2] = 0
    /\ k = 12 => allowance[<<ManageModule, 1>>][1][2] = ether(1)
    /\ k \in 13 .. 14 => Second(T, 1, 1, 1) /\ wallet[1][2] = INITIAL_BALANCE - ether(3)
    /\ k = 14 => allowance[<<ManageModule, 1>>][1][2] = ether(3)
    /\ k >= 15 => Second(T, 2, 3, 4)

State11(ch, k, s) ==
    /\ Registered11(ch, s) /\ Modules11(ch.sets[s], k)
    /\ Account11(ch.sets[s], ch.wallet, ch.allowance, k)

\* A transaction of the script to its Set.
To11(t, fn, kind, token, quantity, s) ==
    /\ t.fn = fn /\ t.kind = kind /\ t.stack = 1 /\ t.set = s /\ t.tokens = 1
    /\ t.token = token /\ t.quantity = quantity

LEMMA Fields11 ==
    ASSUME NEW s \in SetIds, NEW ch, ChainInv(ch), NEW k \in Nat, State11(ch, k, s)
    PROVE  /\ s \in DOMAIN ch.sets /\ ch.sets[s] \in Sound /\ s \in SetIds /\ 1 \in Runs
           /\ Known(ch, s) /\ 1 \in Components /\ 2 \in Components
           /\ \A c \in Components : _units[c] = ether(c)
           /\ k <= 8 => Pristine(ch)
  <1>1. s \in DOMAIN ch.sets /\ ch.sets[s] \in Sound /\ s \in ch.controllers[1].sets
    <2>1. s \in DOMAIN ch.sets /\ s \in ch.controllers[1].sets
      BY SetIdsShown DEF State11, Registered11
    <2> QED BY <2>1, ChainFields, ElementOfSeq, LenProperties
  <1>2. 1 \in Runs /\ s \in SetIds
    BY RunCounts, SetIdsShown, SMT
  <1>3. 1 \in Components /\ 2 \in Components
    BY ComponentsAssumption, SMT
  <1>4. k <= 8 => Pristine(ch)
    <2>1. ether(0) = 0 /\ 0 \in Nat /\ 1 \in Nat
      BY PreciseUnitAssumption, SMT DEF ether
    <2>2. k <= 5 \/ k >= 6
      BY SMT
    <2>3. ASSUME k <= 8 PROVE Plainly(ch.sets[s])
      BY <2>1, <2>2, <2>3 DEF State11, Account11, Plainly
    <2>4. \A x \in DOMAIN ch.sets \ {s} : Plainly(ch.sets[x])
      BY <2>1 DEF State11, Registered11, Untouched, Plainly
    <2> QED BY <2>3, <2>4 DEF Pristine
  <1> QED BY <1>1, <1>2, <1>3, <1>4 DEF Known, _units

\* Another record for the Set.
Rewritten(ch, n, s, S) == n.sets = [ch.sets EXCEPT ![s] = S] /\ n.controllers = ch.controllers

\* It leaves the others alone.
LEMMA Stays11 ==
    ASSUME NEW s \in SetIds, NEW ch, NEW n, NEW S, Registered11(ch, s), Rewritten(ch, n, s, S)
    PROVE  Registered11(n, s) /\ n.sets[s] = S
  <1>1. s \in DOMAIN ch.sets /\ DOMAIN n.sets = DOMAIN ch.sets
    BY SetIdsShown DEF Registered11, Rewritten
  <1>2. n.sets[s] = S /\ \A x \in DOMAIN ch.sets \ {s} : n.sets[x] = ch.sets[x]
    BY <1>1 DEF Rewritten
  <1> QED BY <1>1, <1>2 DEF Registered11, Rewritten

\* Its module may act on the Set.
LEMMA Valid11 ==
    ASSUME NEW s \in SetIds, NEW ch, NEW k \in Nat, State11(ch, k, s), NEW t, t.set = s, t.stack = 1,
           \/ t.kind = IssuanceModule /\ k >= 2
           \/ t.kind = ManageModule /\ k >= 3
    PROVE  ValidAndInitialized(ch, t)
  <1>1. /\ s \in ch.controllers[1].sets /\ ch.sets[s].stack = 1
        /\ <<t.kind, 1>> \in ch.controllers[1].modules
    BY DEF State11, Registered11, Modules11
  <1>2. ~(k <= 1 /\ t.kind = IssuanceModule) /\ ~(k <= 2 /\ t.kind = ManageModule)
    BY SMT DEF IssuanceModule, ManageModule
  <1>3. <<t.kind, 1>> \in ch.sets[s].initialized
    BY <1>2 DEF State11, Modules11
  <1> QED BY <1>1, <1>3 DEF ValidAndInitialized, ValidSet, Module

\* What a transaction of the script, which succeeds, leads to.
Leads11(ch, t, n, k, s) == Succeeds(ch, t) /\ State11(n, k + 1, s) /\ LaunchStep(ch, n)

LEMMA Initialize11 ==
    ASSUME NEW s \in SetIds, NEW ch, ChainInv(ch), NEW k \in {1, 2}, State11(ch, k, s), NEW t \in Tx,
           To11(t, "initializeModule", IF k = 1 THEN IssuanceModule ELSE ManageModule, 0, 0, s),
           NEW n, n = Execute(ch, t)
    PROVE  Leads11(ch, t, n, k, s)
  <1> DEFINE T == ch.sets[s]
             m == Module(t)
             S == Initialized(T, m)
  <1>1. /\ t.set = s /\ t.stack = 1 /\ t.fn = "initializeModule"
        /\ m = IF k = 1 THEN <<IssuanceModule, 1>> ELSE <<ManageModule, 1>>
    BY DEF To11, Module
  <1>2. T \in Sound /\ s \in DOMAIN ch.sets /\ k \in Nat /\ Pristine(ch) /\ s \in SetIds /\ Known(ch, s)
        /\ Plainly(T)
    BY Fields11 DEF Pristine
  <1>3. Succeeds(ch, t)
    BY <1>1 DEF Succeeds, CanInitializeModule, ValidSet, State11, Registered11, Modules11
  <1>4. n = InitializeModule(ch, t)
    BY <1>1, <1>3 DEF Execute, Effect
  <1>5. Shows(n, ch.controllers, [ch.sets EXCEPT ![t.set] = Initialized(ch.sets[t.set], m)],
              ch.wallet, ch.allowance)
    BY <1>4, InitializeModuleShown
  <1>6. /\ n.sets = [ch.sets EXCEPT ![s] = S] /\ n.controllers = ch.controllers
        /\ n.wallet = ch.wallet /\ n.allowance = ch.allowance
    BY <1>1, <1>5 DEF Shows
  <1>0. S = Initialized(T, m) /\ Registered11(ch, s)
    BY DEF State11
  <1>12. Module(t) = m
    OBVIOUS
  <1> HIDE DEF S, m
  <1>7. /\ S.storage = T.storage /\ S.balance = T.balance /\ S.stack = T.stack
        /\ S.tokens = T.tokens /\ S.initialized = T.initialized \cup {m} /\ S.pending = T.pending \ {m}
        /\ S.isLocked = T.isLocked
    BY <1>0, <1>2, ModuleMoved
  <1>8. Registered11(n, s) /\ n.sets[s] = S
    <2>1. Rewritten(ch, n, s, S)
      BY <1>6 DEF Rewritten
    <2> QED BY <1>0, <2>1, Stays11
  <1>9. Modules11(S, k + 1)
    BY <1>1, <1>7 DEF State11, Modules11, IssuanceModule, ManageModule
  <1>10. Account11(S, n.wallet, n.allowance, k + 1)
    <2>1. Account11(T, ch.wallet, ch.allowance, k)
      BY DEF State11
    <2> QED BY <1>6, <1>7, <2>1 DEF Account11, Handled
  <1>11. LaunchStep(ch, n)
    BY <1>2, <1>6, <1>0, OpenStep
  <1> QED BY <1>3, <1>8, <1>9, <1>10, <1>11 DEF Leads11, State11

LEMMA Lock11 ==
    ASSUME NEW s \in SetIds, NEW ch, ChainInv(ch), NEW k \in {3, 4, 7, 10}, State11(ch, k, s), NEW t \in Tx,
           To11(t, IF k \in {3, 7} THEN "lockSetToken" ELSE "unlockSetToken", ManageModule, 0, 0, s),
           NEW n, n = Execute(ch, t)
    PROVE  Leads11(ch, t, n, k, s)
  <1> DEFINE T == ch.sets[s]
             b == (k \in {3, 7})
             S == Locked(T, b)
  <1>1. /\ t.set = s /\ t.stack = 1 /\ t.kind = ManageModule
        /\ t.fn = IF b THEN "lockSetToken" ELSE "unlockSetToken"
    BY DEF To11
  <1>2. T \in Sound /\ k \in Nat /\ k >= 3 /\ s \in DOMAIN ch.sets
    BY Fields11
  <1>3. ValidAndInitialized(ch, t) /\ (T.isLocked <=> ~b)
    BY <1>1, <1>2, Valid11 DEF State11, Modules11
  <1>4. Succeeds(ch, t)
    BY <1>1, <1>3 DEF Succeeds, CanLock, CanUnlock
  <1>5. n = IF b THEN Lock(ch, t) ELSE Unlock(ch, t)
    BY <1>1, <1>4 DEF Execute, Effect
  <1>6. Shows(n, ch.controllers, [ch.sets EXCEPT ![t.set] = Locked(ch.sets[t.set], b)],
              ch.wallet, ch.allowance)
    <2>1. CASE b
      <3>1. Shows(n, ch.controllers, [ch.sets EXCEPT ![t.set] = Locked(ch.sets[t.set], TRUE)],
                  ch.wallet, ch.allowance)
        BY <1>5, <2>1, LockShown
      <3> QED BY <2>1, <3>1
    <2>2. CASE ~b
      <3>1. Shows(n, ch.controllers, [ch.sets EXCEPT ![t.set] = Locked(ch.sets[t.set], FALSE)],
                  ch.wallet, ch.allowance)
        BY <1>5, <2>2, LockShown
      <3>2. b = FALSE
        BY <2>2
      <3> QED BY <3>1, <3>2
    <2> QED BY <2>1, <2>2
  <1>7. /\ n.sets = [ch.sets EXCEPT ![s] = S] /\ n.controllers = ch.controllers
        /\ n.wallet = ch.wallet /\ n.allowance = ch.allowance
    BY <1>1, <1>6 DEF Shows
  <1>8. /\ S.storage = T.storage /\ S.balance = T.balance /\ S.stack = T.stack
        /\ S.tokens = T.tokens /\ S.initialized = T.initialized /\ S.pending = T.pending
        /\ S.isLocked = b
    BY <1>2, ModuleMoved
  <1> HIDE DEF S
  <1>9. Registered11(n, s) /\ n.sets[s] = S
    <2>1. Registered11(ch, s)
      BY DEF State11
    <2>2. Rewritten(ch, n, s, S)
      BY <1>7 DEF Rewritten
    <2> QED BY <2>1, <2>2, Stays11
  <1>10. Modules11(S, k + 1)
    <2>1. Modules11(T, k) /\ k + 1 > 2 /\ k > 2 /\ (k + 1 \in {4, 8, 9, 10} <=> b)
      BY DEF State11
    <2> HIDE DEF b
    <2> QED BY <1>8, <2>1 DEF Modules11
  <1>11. Account11(S, n.wallet, n.allowance, k + 1)
    <2>1. Account11(T, ch.wallet, ch.allowance, k)
      BY DEF State11
    <2> QED BY <1>7, <1>8, <2>1 DEF Account11, Handled, Second
  <1>12. LaunchStep(ch, n)
    <2>1. t.fn \in Idle
      BY <1>1 DEF Idle
    <2> QED BY <2>1, IdleStep DEF LaunchStep
  <1> QED BY <1>4, <1>9, <1>10, <1>11, <1>12 DEF Leads11, State11

\* The mocks mint enough for script 11, and for an issuance by every run.
LEMMA EnoughMinted ==
    /\ INITIAL_BALANCE \in Nat
    /\ \A c \in Components : /\ c \in Nat /\ _units[c] = ether(c)
                             /\ _units[c] \in Nat /\ _units[c] <= ether(N)
                             /\ _units[c] <= INITIAL_BALANCE
    /\ ether(N) \in Nat /\ ether(2) + ether(1) + ether(3) <= INITIAL_BALANCE
    /\ ether(2) <= ether(N)
    /\ Cardinality(Runs) * ether(N) + ether(4) <= INITIAL_BALANCE
  <1>1. N \in Nat \ {0, 1} /\ Components = 1 .. N
    BY ComponentsAssumption DEF N
  <1>2. /\ ether(N) \in Nat /\ ether(1) \in Nat /\ ether(2) \in Nat /\ ether(3) \in Nat /\ ether(4) \in Nat
        /\ ether(1) + ether(1) = ether(1 + 1) /\ ether(2) + ether(1) = ether(2 + 1)
        /\ ether(3) + ether(1) = ether(3 + 1)
    BY <1>1, EtherFacts
  <1>3. Cardinality(Runs) \in Nat \ {0}
    BY RunCounts, SetIdsShown, SMT
  <1>4. ether(N) <= Cardinality(Runs) * ether(N)
    <2>1. \A r \in Nat \ {0} : \A x \in Nat : x <= r * x
      <3> TAKE r \in Nat \ {0}
      <3> TAKE x \in Nat
      <3>1. x * 1 <= x * r
        BY ProductMonotone, SMT
      <3> QED BY <3>1, SMT
    <2> QED BY <1>2, <1>3, <2>1
  <1>5. /\ INITIAL_BALANCE \in Nat /\ Cardinality(Runs) * ether(N) + ether(4) <= INITIAL_BALANCE
    BY RunsAssumption, BalanceAssumption, <1>2, <1>3, SMT
  <1>6. ASSUME NEW c \in Components
        PROVE  /\ c \in Nat /\ _units[c] = ether(c) /\ _units[c] \in Nat /\ _units[c] <= ether(N)
    <2>1. c \in Nat /\ c <= N
      BY <1>1, SMT
    <2> QED BY <1>1, <2>1, EtherFacts DEF _units
  <1>7. ether(2) <= ether(N)
    BY <1>1, EtherFacts, SMT
  <1> DEFINE m == Cardinality(Runs) * ether(N)
  <1>8. m \in Nat
    BY <1>2, <1>3, SMT
  <1>9. m + ether(4) <= INITIAL_BALANCE /\ ether(N) <= m
    BY <1>4, <1>5
  <1> HIDE DEF m
  <1>10. ether(N) <= INITIAL_BALANCE /\ ether(2) + ether(1) + ether(3) <= INITIAL_BALANCE
    BY <1>2, <1>5, <1>7, <1>8, <1>9, SMT
  <1>11. \A c \in Components : _units[c] <= INITIAL_BALANCE
    BY <1>2, <1>5, <1>6, <1>10, SMT
  <1> QED BY <1>2, <1>5, <1>6, <1>7, <1>10, <1>11

LEMMA Approve11 ==
    ASSUME NEW s \in SetIds, NEW ch, ChainInv(ch), NEW k \in {11, 13}, State11(ch, k, s), NEW t \in Tx,
           To11(t, "approve", ManageModule, 2, ether(IF k = 11 THEN 1 ELSE 3), s),
           NEW n, n = Execute(ch, t)
    PROVE  Leads11(ch, t, n, k, s)
  <1> DEFINE T == ch.sets[s]
             q == t.quantity
             A == [ch.allowance EXCEPT ![Module(t)][t.tokens][t.token] = q]
  <1>1. /\ t.tokens = 1 /\ t.token = 2 /\ t.fn = "approve" /\ Module(t) = <<ManageModule, 1>>
        /\ q = ether(IF k = 11 THEN 1 ELSE 3)
    BY DEF To11, Module
  <1>2. Succeeds(ch, t) /\ n = Approve(ch, t)
    BY <1>1 DEF Succeeds, Execute, Effect
  <1>3. Shows(n, ch.controllers, ch.sets, ch.wallet, A)
    BY <1>2, ApproveShown
  <1>4. n.controllers = ch.controllers /\ n.sets = ch.sets /\ n.wallet = ch.wallet /\ n.allowance = A
    BY <1>3 DEF Shows
  <1>5. A[<<ManageModule, 1>>][1][2] = q
    <2>1. ch.allowance \in [{IssuanceModule, ManageModule} \X Runs -> [Runs -> [Components -> Int]]]
      BY ChainFields
    <2>2. <<ManageModule, 1>> \in {IssuanceModule, ManageModule} \X Runs /\ 1 \in Runs /\ 2 \in Components
      BY Fields11
    <2> HIDE DEF q
    <2> QED BY <1>1, <2>1, <2>2
  <1> HIDE DEF A
  <1>6. Registered11(n, s) /\ n.sets[s] = T
    BY <1>4 DEF State11, Registered11
  <1>7. Modules11(T, k + 1)
    BY DEF State11, Modules11
  <1>8. Account11(T, n.wallet, n.allowance, k + 1)
    <2>1. Account11(T, ch.wallet, ch.allowance, k)
      BY DEF State11
    <2> QED BY <1>1, <1>4, <1>5, <2>1 DEF Account11
  <1>9. LaunchStep(ch, n)
    <2>1. t.fn \in Idle
      BY <1>1 DEF Idle
    <2> QED BY <2>1, IdleStep DEF LaunchStep
  <1> QED BY <1>2, <1>6, <1>7, <1>8, <1>9 DEF Leads11, State11

\* setToken.approve changes nothing.
LEMMA Nothing11 ==
    ASSUME NEW s \in SetIds, NEW ch, ChainInv(ch), State11(ch, 15, s),
           NEW t \in Tx, t.fn = "approveController", NEW n, n = Execute(ch, t)
    PROVE  Leads11(ch, t, n, 15, s)
  <1>1. Succeeds(ch, t) /\ n = ch
    BY DEF Succeeds, Execute, Effect
  <1>2. LaunchStep(ch, n)
    BY <1>1 DEF LaunchStep, Still, SameToken
  <1>3. State11(ch, 16, s)
    <2>1. Modules11(ch.sets[s], 15) /\ Account11(ch.sets[s], ch.wallet, ch.allowance, 15)
      BY DEF State11
    <2>2. Modules11(ch.sets[s], 16)
      BY <2>1 DEF Modules11
    <2>3. Account11(ch.sets[s], ch.wallet, ch.allowance, 16)
      BY <2>1 DEF Account11
    <2> QED BY <2>2, <2>3 DEF State11
  <1> QED BY <1>1, <1>2, <1>3 DEF Leads11

\* The first and only issuance.
LEMMA Issue11 ==
    ASSUME NEW s \in SetIds, NEW ch, ChainInv(ch), State11(ch, 5, s), NEW t \in Tx,
           To11(t, "issue", IssuanceModule, 0, ether(1), s), NEW n, n = Execute(ch, t)
    PROVE  Leads11(ch, t, n, 5, s)
  <1> DEFINE T == ch.sets[s]
             st == Mint(T.storage, t.quantity)
             S == TokensIn(T, TakenAll(ch, t), st)
             W == Debited(ch.wallet, T.tokens, TakenAll(ch, t))
             A == Allowed(ch, t, TakenAll(ch, t))
  <1>1. /\ t.set = s /\ t.stack = 1 /\ t.kind = IssuanceModule /\ t.fn = "issue"
        /\ t.quantity = ether(1) /\ Module(t) = <<IssuanceModule, 1>>
    BY DEF To11, Module
  <1>2. /\ T \in Sound /\ s \in DOMAIN ch.sets /\ Pristine(ch) /\ 1 \in Runs /\ 2 \in Components
        /\ \A c \in Components : _units[c] = ether(c)
    BY Fields11
  <1>3. /\ ~Handled(T) /\ T.storage.totalSupply = 0 /\ T.tokens = 1 /\ T.isLocked = FALSE
        /\ \A c \in Components : /\ T.balance[c] = 0 /\ ch.wallet[1][c] = INITIAL_BALANCE
                                 /\ ch.allowance[<<IssuanceModule, 1>>][1][c] = _units[c]
        /\ Modules11(T, 5)
    <2>1. T.isLocked \in BOOLEAN
      BY <1>2, SoundFields
    <2> QED BY <2>1 DEF State11, Account11, Modules11
  <1>4. \A c \in Components : Taken(ch, t, c) = _units[c]
    BY <1>1, <1>2, <1>3, PlainAmounts
  <1>5. TakenAll(ch, t) = _units
    BY <1>4 DEF TakenAll, _units
  <1>6. \A c \in Components : _units[c] \in Nat /\ _units[c] <= INITIAL_BALANCE
    BY EnoughMinted
  <1>7. Succeeds(ch, t)
    <2>1. ValidAndInitialized(ch, t)
      BY <1>1, Valid11
    <2>2. ether(1) > 0
      BY EtherFacts, SMT
    <2>3. \A c \in Components : Spendable(ch, t, c, Taken(ch, t, c))
      BY <1>1, <1>3, <1>4, <1>6 DEF Spendable
    <2> QED BY <1>1, <1>3, <2>1, <2>2, <2>3 DEF Succeeds, CanIssue
  <1>8. n = Issue(ch, t)
    BY <1>1, <1>7 DEF Execute, Effect
  <1>9. Shows(n, ch.controllers, [ch.sets EXCEPT ![t.set] = TokensIn(ch.sets[t.set], TakenAll(ch, t),
                                                              Mint(ch.sets[t.set].storage, t.quantity))],
              Debited(ch.wallet, ch.sets[t.set].tokens, TakenAll(ch, t)), A)
    BY <1>1, <1>2, <1>8, IssueShown
  <1>10. /\ n.sets = [ch.sets EXCEPT ![s] = S] /\ n.controllers = ch.controllers /\ n.wallet = W
    BY <1>1, <1>9 DEF Shows
  <1>11. Replaced(S, T, st) /\ S.balance = More(T.balance, _units)
    BY <1>2, <1>5, TokensMoved
  <1>12. /\ st.virtualUnit = T.storage.virtualUnit /\ st.components = T.storage.components
         /\ st.totalSupply = 0 + ether(1)
    BY <1>1, <1>2, <1>3, SoundFields, TxFields, SupplyMoved
  <1>13. W[1][2] = INITIAL_BALANCE - ether(2)
    <2>1. 1 \in DOMAIN ch.wallet
      BY <1>2, ChainFields
    <2> QED BY <1>2, <1>3, <1>5, <2>1 DEF Debited
  <1> HIDE DEF S, st, W, A
  <1>14. Registered11(n, s) /\ n.sets[s] = S
    <2>1. Registered11(ch, s)
      BY DEF State11
    <2>2. Rewritten(ch, n, s, S)
      BY <1>10 DEF Rewritten
    <2> QED BY <2>1, <2>2, Stays11
  <1>15. Modules11(S, 6)
    BY <1>3, <1>11 DEF Modules11, Replaced
  <1>16. Account11(S, n.wallet, n.allowance, 6)
    <2>1. ether(1) \in Nat
      BY EtherFacts
    <2>2. S.storage.totalSupply = ether(1)
      BY <1>11, <1>12, <2>1 DEF Replaced
    <2>3. \A c \in Components : S.balance[c] = _units[c]
      BY <1>3, <1>6, <1>11 DEF More
    <2>4. ~Handled(S)
      BY <1>3, <1>11, <1>12 DEF Handled, Replaced
    <2> QED BY <1>10, <1>13, <2>2, <2>3, <2>4 DEF Account11
  <1>17. LaunchStep(ch, n)
    <2>1. Known(ch, s) /\ s \in SetIds
      BY Fields11
    <2>2. Opened(T) /\ Plainly(T)
      BY <1>2, <1>3 DEF Opened, Modules11, Pristine
    <2> QED BY <1>1, <1>2, <1>8, <2>1, <2>2, TradeStep
  <1> QED BY <1>7, <1>14, <1>15, <1>16, <1>17 DEF Leads11, State11

LEMMA PlainListed ==
    ASSUME NEW T, ~Handled(T), NEW c \in Components
    PROVE  Occurrences(T.storage.components, c) = 1
  <1> DEFINE A == [i \in Components |-> i]
  <1>1. T.storage.components = A
    BY DEF Handled
  <1>2. N \in Nat /\ Components = 1 .. N
    BY EtherNat
  <1>3. A \in Seq(Components) /\ DOMAIN A = Components /\ \A i \in Components : A[i] = i
    BY <1>2, IsASeq
  <1> HIDE DEF A
  <1>4. \A i, j \in Components : i < j => i # j
    BY <1>2, SMT
  <1>5. ~HasDuplicate(A) /\ Contains(A, c)
    BY <1>3, <1>4 DEF HasDuplicate, Contains
  <1> QED BY <1>1, <1>3, <1>5, OccurrencesUnique

LEMMA ListedIsComponent ==
    ASSUME NEW st, NEW c, Occurrences(st.components, c) # 0
    PROVE  IsComponent(st, c)
  <1>1. {i \in DOMAIN st.components : st.components[i] = c} = {} => Occurrences(st.components, c) = 0
    BY FS_EmptySet DEF Occurrences
  <1> QED BY <1>1 DEF IsComponent, Contains

\* The fields that the manager's edits of a storage change.
LEMMA EditShown ==
    ASSUME NEW st, Unscaled(st), NEW c \in Components, NEW u \in Nat
    PROVE  /\ EditDefaultPositionUnit(st, c, u).virtualUnit = [st.virtualUnit EXCEPT ![c] = u]
           /\ EditDefaultPositionUnit(st, c, u).components = st.components
           /\ EditDefaultPositionUnit(st, c, u).totalSupply = st.totalSupply
           /\ Added(st, c, u).virtualUnit = [st.virtualUnit EXCEPT ![c] = u]
           /\ Added(st, c, u).components = Append(st.components, c)
           /\ Added(st, c, u).totalSupply = st.totalSupply
  <1>1. st \in Storage
    BY DEF Unscaled
  <1>2. \A x : Unscaled(x) => /\ EditDefaultPositionUnit(x, c, u).virtualUnit = [x.virtualUnit EXCEPT ![c] = u]
                              /\ EditDefaultPositionUnit(x, c, u).components = x.components
                              /\ EditDefaultPositionUnit(x, c, u).totalSupply = x.totalSupply
    <2> TAKE x
    <2> HAVE Unscaled(x)
    <2>1. x \in Storage
      BY DEF Unscaled
    <2>2. EditDefaultPositionUnit(x, c, u).virtualUnit = [x.virtualUnit EXCEPT ![c] = u]
      BY EditsUnscaled
    <2>3. /\ EditDefaultPositionUnit(x, c, u).components = x.components
          /\ EditDefaultPositionUnit(x, c, u).totalSupply = x.totalSupply
      BY <2>1 DEF EditDefaultPositionUnit, Storage
    <2> QED BY <2>2, <2>3
  <1>3. /\ AddComponent(st, c).virtualUnit = st.virtualUnit
        /\ AddComponent(st, c).components = Append(st.components, c)
        /\ AddComponent(st, c).totalSupply = st.totalSupply
    BY <1>1 DEF AddComponent, Storage
  <1>4. Unscaled(AddComponent(st, c))
    BY EditsUnscaled
  <1> QED BY <1>2, <1>3, <1>4 DEF Added

LEMMA RemovalShown ==
    ASSUME NEW st \in Storage, NEW c
    PROVE  /\ RemoveComponent(st, c).virtualUnit = st.virtualUnit
           /\ RemoveComponent(st, c).components = Remove(st.components, c)
           /\ RemoveComponent(st, c).totalSupply = st.totalSupply
  BY DEF RemoveComponent, Storage

\* A Set that is open, or edited, is edited.
LEMMA EditStep ==
    ASSUME NEW ch, ChainInv(ch), NEW s \in DOMAIN ch.sets, NEW S, NEW n,
           n.sets = [ch.sets EXCEPT ![s] = S], n.controllers = ch.controllers,
           s \in SetIds, Known(ch, s), Opened(ch.sets[s]), Handled(S),
           S.storage.totalSupply = ch.sets[s].storage.totalSupply
    PROVE  LaunchStep(ch, n)
  <1> DEFINE T == ch.sets[s]
  <1>1. StageOf(T) \in {"open", "edited"} /\ StageOf(S) = "edited" /\ SupplyOf(S) = SupplyOf(T)
    BY DEF StageOf, SupplyOf
  <1>2. SetMove(T, S)
    BY <1>1 DEF SetMove
  <1> QED BY <1>2, OneTokenMoves

LEMMA HalfEther ==
    /\ halfEther \in Nat /\ halfEther < ether(1) /\ halfEther # ether(1)
    /\ \A T : T.storage.virtualUnit[1] = halfEther => Handled(T)
  <1>1. PRECISE_UNIT \in Nat \ {0} /\ ether(1) = PRECISE_UNIT
    BY EtherFacts
  <1>2. halfEther \in Nat /\ halfEther < ether(1)
    <2>1. \A x \in Nat \ {0} : x \div 2 \in Nat /\ x \div 2 < x
      BY SMT
    <2> QED BY <1>1, <2>1 DEF halfEther
  <1>3. _units[1] = ether(1)
    <2>1. 1 \in Components
      BY ComponentsAssumption, SMT
    <2> QED BY <2>1, EnoughMinted
  <1>4. halfEther # ether(1)
    BY <1>1, <1>2, SMT
  <1> QED BY <1>2, <1>3, <1>4 DEF Handled

\* Half of the first component is taken out, then all of the second.
LEMMA Remove11 ==
    ASSUME NEW s \in SetIds, NEW ch, ChainInv(ch), NEW k \in {8, 9}, State11(ch, k, s), NEW t \in Tx,
           k = 8 => To11(t, "removeFromSetToken", ManageModule, 1, halfEther, s),
           k = 9 => To11(t, "removeFromSetToken", ManageModule, 2, ether(2), s),
           NEW n, n = Execute(ch, t)
    PROVE  Leads11(ch, t, n, k, s)
  <1> DEFINE T == ch.sets[s]
             st == T.storage
             S == RemovedFrom(T, t.token, t.quantity)
             new == Removed(st, t.token, t.quantity)
             B == [T.balance EXCEPT ![t.token] = @ - t.quantity]
  <1>1. /\ t.set = s /\ t.stack = 1 /\ t.kind = ManageModule /\ t.fn = "removeFromSetToken"
        /\ t.token = (IF k = 8 THEN 1 ELSE 2) /\ t.quantity = (IF k = 8 THEN halfEther ELSE ether(2))
    BY DEF To11
  <1>2. /\ T \in Sound /\ st \in Storage /\ Unscaled(st) /\ T.balance \in [Components -> Nat]
        /\ s \in DOMAIN ch.sets /\ 1 \in Components /\ 2 \in Components /\ k \in Nat
        /\ s \in SetIds /\ Known(ch, s) /\ \A c \in Components : _units[c] = ether(c)
    BY Fields11, SoundFields
  <1>3. Account11(T, ch.wallet, ch.allowance, k) /\ Modules11(T, k) /\ Registered11(ch, s)
    BY DEF State11
  <1>4. /\ ether(1) \in Nat /\ ether(2) \in Nat /\ halfEther \in Nat /\ halfEther <= ether(1)
        /\ halfEther # ether(1) /\ t.token \in Components /\ t.quantity \in Nat
    BY <1>1, <1>2, EtherFacts, HalfEther, SMT
  <1>5. k = 8 => /\ st.virtualUnit = _units /\ st.components = [i \in Components |-> i]
                 /\ T.balance[1] = ether(1) /\ T.balance[2] = ether(2)
    BY <1>2, <1>3 DEF Account11, Handled
  <1>6. Occurrences(st.components, 2) = 1
    <2>1. CASE k = 8
      <3>1. 2 \in Components /\ ~Handled(T)
        BY <1>2, <1>3, <2>1 DEF Account11
      <3> QED BY <3>1, <1>2, PlainListed
    <2>2. CASE k = 9
      BY <1>3, <2>2 DEF Account11, Second
    <2> QED BY <2>1, <2>2
  <1>7. /\ st.virtualUnit[t.token] = (IF k = 8 THEN ether(1) ELSE ether(2))
        /\ T.balance[t.token] = (IF k = 8 THEN ether(1) ELSE ether(2))
    BY <1>1, <1>2, <1>3, <1>5 DEF Account11, Second
  <1>8. DefaultPositionRealUnit(st, t.token) = (IF k = 8 THEN ether(1) ELSE ether(2))
    BY <1>2, <1>4, <1>7, UnscaledUnits
  <1>9. IsComponent(st, t.token)
    <2>1. CASE k = 8
      <3>1. Occurrences(st.components, 1) = 1
        BY <1>2, <1>3, <2>1, PlainListed DEF Account11
      <3> QED BY <1>1, <2>1, <3>1, ListedIsComponent
    <2>2. CASE k = 9
      BY <1>1, <1>6, <2>2, ListedIsComponent
    <2> QED BY <2>1, <2>2
  <1>10. Storage_(ch, t) = st
    BY <1>1 DEF Storage_
  <1>11. Succeeds(ch, t)
    <2>1. ValidAndInitialized(ch, t)
      BY <1>1, <1>2, Valid11
    <2>2. CanConvert(st, t.quantity)
      BY <1>2, <1>4, UnscaledConversions, SMT DEF CanConvert
    <2>3. /\ t.quantity <= DefaultPositionRealUnit(st, t.token)
          /\ t.quantity <= ch.sets[t.set].balance[t.token]
      BY <1>1, <1>4, <1>7, <1>8
    <2>4. CanRemoveFromSetToken(ch, t)
      BY <1>9, <1>10, <2>1, <2>2, <2>3 DEF CanRemoveFromSetToken
    <2> QED BY <1>1, <2>4 DEF Succeeds
  <1>12. n = RemoveFromSetToken(ch, t)
    BY <1>1, <1>11 DEF Execute, Effect
  <1>13. Shows(n, ch.controllers,
               [ch.sets EXCEPT ![t.set] = RemovedFrom(ch.sets[t.set], t.token, t.quantity)],
               ch.wallet, ch.allowance)
    BY <1>1, <1>2, <1>12, RemoveShown
  <1>14. /\ n.sets = [ch.sets EXCEPT ![s] = S] /\ n.controllers = ch.controllers
         /\ n.wallet = ch.wallet /\ n.allowance = ch.allowance
    BY <1>1, <1>13 DEF Shows
  <1>15. Replaced(S, T, new) /\ S.balance = B
    <2> HIDE DEF new, B
    <2>1. S = [T EXCEPT !.balance = B, !.storage = new]
      BY DEF RemovedFrom, new, B
    <2> QED BY <1>2, <2>1 DEF Sound, Replaced
  <1>16. k = 8 => /\ new.virtualUnit = [st.virtualUnit EXCEPT ![1] = halfEther]
                  /\ new.components = st.components /\ new.totalSupply = st.totalSupply
    <2>1. k = 8 => new = EditDefaultPositionUnit(st, 1, halfEther)
      BY <1>1, <1>4, <1>8 DEF Removed
    <2> HIDE DEF st, new
    <2>2. Unscaled(st) /\ 1 \in Components /\ halfEther \in Nat
      BY <1>2, <1>4
    <2>3. /\ EditDefaultPositionUnit(st, 1, halfEther).virtualUnit = [st.virtualUnit EXCEPT ![1] = halfEther]
          /\ EditDefaultPositionUnit(st, 1, halfEther).components = st.components
          /\ EditDefaultPositionUnit(st, 1, halfEther).totalSupply = st.totalSupply
      BY <2>2, EditShown
    <2> QED BY <2>1, <2>3
  <1>17. k = 9 => /\ new.virtualUnit = st.virtualUnit
                  /\ new.components = Remove(st.components, 2) /\ new.totalSupply = st.totalSupply
    <2>1. k = 9 => new = RemoveComponent(st, 2)
      BY <1>1, <1>8 DEF Removed
    <2> HIDE DEF new
    <2> QED BY <1>2, <2>1, RemovalShown
  <1>18. /\ k = 8 => B[2] = ether(2)
         /\ k = 9 => B[2] = 0
    BY <1>1, <1>2, <1>4, <1>5, <1>7, SMT
  <1>19. new.virtualUnit[1] = halfEther /\ new.totalSupply = ether(1)
    <2>1. st.totalSupply = ether(1) /\ (k = 9 => st.virtualUnit[1] = halfEther)
      BY <1>3 DEF Account11
    <2>2. st.virtualUnit \in [Components -> Int]
      BY <1>2, StorageFields
    <2> QED BY <1>2, <1>16, <1>17, <2>1, <2>2
  <1>20. /\ k = 8 => Occurrences(new.components, 2) = 1 /\ new.virtualUnit[2] = ether(2)
         /\ k = 9 => Occurrences(new.components, 2) = 0
    <2> HIDE DEF new
    <2>1. k = 8 => new.virtualUnit[2] = ether(2)
      <3>1. st.virtualUnit \in [Components -> Int]
        BY <1>2, StorageFields
      <3> QED BY <1>2, <1>5, <1>16, <3>1
    <2>2. k = 9 => Occurrences(new.components, 2) = 1 - 1
      <3>1. st.components \in Seq(Components)
        BY <1>2, StorageFields
      <3> QED BY <1>1, <1>6, <1>9, <1>17, <3>1, OccurrencesRemove DEF IsComponent
    <2> QED BY <1>6, <1>16, <2>1, <2>2
  <1> HIDE DEF S, new, B
  <1>21. Registered11(n, s) /\ n.sets[s] = S
    <2>1. Registered11(ch, s)
      BY <1>3
    <2>2. Rewritten(ch, n, s, S)
      BY <1>14 DEF Rewritten
    <2> QED BY <2>1, <2>2, Stays11
  <1>22. Modules11(S, k + 1)
    BY <1>3, <1>15 DEF Modules11, Replaced
  <1>23. Account11(S, n.wallet, n.allowance, k + 1)
    <2>1. ch.wallet[1][2] = INITIAL_BALANCE - ether(2)
      BY <1>3 DEF Account11
    <2> QED BY <1>14, <1>15, <1>18, <1>19, <1>20, <2>1 DEF Account11, Second, Replaced
  <1>24. LaunchStep(ch, n)
    <2>1. Opened(T)
      BY <1>3 DEF Modules11, Opened
    <2>2. Handled(S) /\ S.storage.totalSupply = st.totalSupply
      BY <1>3, <1>15, <1>19, HalfEther DEF Replaced, Account11
    <2> QED BY <1>2, <1>14, <2>1, <2>2, EditStep
  <1> QED BY <1>11, <1>21, <1>22, <1>23, <1>24 DEF Leads11, State11

\* The second component comes back in two parts, and is listed twice.
LEMMA Add11 ==
    ASSUME NEW s \in SetIds, NEW ch, ChainInv(ch), NEW k \in {12, 14}, State11(ch, k, s), NEW t \in Tx,
           To11(t, "addToSetToken", ManageModule, 2, ether(IF k = 12 THEN 1 ELSE 3), s),
           NEW n, n = Execute(ch, t)
    PROVE  Leads11(ch, t, n, k, s)
  <1> DEFINE T == ch.sets[s]
             st == T.storage
             amount == AddedQuantity(t)
             new == Added(st, t.token, t.quantity)
             S == TokensIn(T, amount, new)
             W == Debited(ch.wallet, T.tokens, amount)
             A == Allowed(ch, t, amount)
  <1>1. /\ t.set = s /\ t.stack = 1 /\ t.kind = ManageModule /\ t.fn = "addToSetToken"
        /\ t.token = 2 /\ t.quantity = ether(IF k = 12 THEN 1 ELSE 3)
        /\ Module(t) = <<ManageModule, 1>>
    BY DEF To11, Module
  <1>2. /\ T \in Sound /\ st \in Storage /\ Unscaled(st) /\ T.balance \in [Components -> Nat]
        /\ s \in DOMAIN ch.sets /\ 1 \in Components /\ 2 \in Components /\ k \in Nat /\ 1 \in Runs
        /\ s \in SetIds /\ Known(ch, s)
    BY Fields11, SoundFields
  <1>3. Account11(T, ch.wallet, ch.allowance, k) /\ Modules11(T, k)
    BY DEF State11
  <1>4. /\ ether(1) \in Nat /\ ether(2) \in Nat /\ ether(3) \in Nat /\ ether(4) \in Nat /\ ether(1) > 0
        /\ ether(1) + ether(1) = ether(2) /\ ether(1) + ether(3) = ether(4)
        /\ ether(2) + ether(1) = ether(3) /\ t.quantity \in Nat /\ t.quantity > 0
        /\ ether(2) + ether(1) + ether(3) <= INITIAL_BALANCE /\ INITIAL_BALANCE \in Nat
        /\ ether(2) + ether(1) <= INITIAL_BALANCE
    <2>1. PRECISE_UNIT \in Nat \ {0} /\ \A j \in Nat : ether(j) = j * PRECISE_UNIT
      BY EtherFacts DEF ether
    <2>2. /\ ether(1) = PRECISE_UNIT /\ ether(2) = 2 * PRECISE_UNIT /\ ether(3) = 3 * PRECISE_UNIT
          /\ ether(4) = 4 * PRECISE_UNIT
      BY <2>1, EtherFacts
    <2>3. INITIAL_BALANCE \in Nat /\ ether(2) + ether(1) + ether(3) <= INITIAL_BALANCE
      BY EnoughMinted
    <2> QED BY <1>1, <2>1, <2>2, <2>3, SMT
  <1>5. /\ ch.wallet[1][2] = INITIAL_BALANCE - ether(IF k = 12 THEN 2 ELSE 3)
        /\ ch.allowance[<<ManageModule, 1>>][1][2] = t.quantity
        /\ T.balance[2] = (IF k = 12 THEN 0 ELSE ether(1))
        /\ Occurrences(st.components, 2) = (IF k = 12 THEN 0 ELSE 1)
        /\ st.virtualUnit[1] = halfEther /\ st.totalSupply = ether(1) /\ T.tokens = 1
    BY <1>1, <1>3 DEF Account11, Modules11, Second
  <1>6. t.quantity <= ch.wallet[1][2]
    <2>1. CASE k = 12
      <3>1. t.quantity = ether(1) /\ ch.wallet[1][2] = INITIAL_BALANCE - ether(2)
        BY <1>1, <1>5, <2>1
      <3> QED BY <1>4, <3>1, SMT
    <2>2. CASE k = 14
      <3>1. k # 12
        BY <2>2, SMT
      <3>2. t.quantity = ether(3) /\ ch.wallet[1][2] = INITIAL_BALANCE - ether(3)
        BY <1>1, <1>5, <3>1
      <3> QED BY <1>4, <3>2, SMT
    <2> QED BY <2>1, <2>2
  <1>7. Succeeds(ch, t)
    <2>1. ValidAndInitialized(ch, t)
      BY <1>1, <1>2, Valid11
    <2>2. Spendable(ch, t, t.token, t.quantity)
      BY <1>1, <1>4, <1>5, <1>6 DEF Spendable
    <2>3. CanConvert(Storage_(ch, t), t.quantity)
      BY <1>1, <1>2, <1>4, UnscaledConversions, SMT DEF CanConvert, Storage_
    <2> QED BY <1>1, <1>4, <2>1, <2>2, <2>3 DEF Succeeds, CanAddToSetToken
  <1>8. n = AddToSetToken(ch, t)
    BY <1>1, <1>7 DEF Execute, Effect
  <1>9. Shows(n, ch.controllers,
              [ch.sets EXCEPT ![t.set] = TokensIn(ch.sets[t.set], amount,
                                          Added(ch.sets[t.set].storage, t.token, t.quantity))],
              Debited(ch.wallet, ch.sets[t.set].tokens, amount), A)
    BY <1>1, <1>2, <1>8, AddShown
  <1>10. /\ n.sets = [ch.sets EXCEPT ![s] = S] /\ n.controllers = ch.controllers /\ n.wallet = W
    BY <1>1, <1>9 DEF Shows
  <1>11. Replaced(S, T, new) /\ S.balance = More(T.balance, amount)
    BY <1>2, TokensMoved
  <1>12. /\ new.virtualUnit = [st.virtualUnit EXCEPT ![2] = t.quantity]
         /\ new.components = Append(st.components, 2) /\ new.totalSupply = st.totalSupply
    <2>1. new = Added(st, 2, t.quantity)
      BY <1>1
    <2> HIDE DEF new, st
    <2>2. Unscaled(st) /\ 2 \in Components /\ t.quantity \in Nat
      BY <1>2, <1>4
    <2>3. /\ Added(st, 2, t.quantity).virtualUnit = [st.virtualUnit EXCEPT ![2] = t.quantity]
          /\ Added(st, 2, t.quantity).components = Append(st.components, 2)
          /\ Added(st, 2, t.quantity).totalSupply = st.totalSupply
      BY <2>2, EditShown
    <2> QED BY <2>1, <2>3
  <1>13. amount[2] = t.quantity
    BY <1>1, <1>2 DEF AddedQuantity
  <1> HIDE DEF amount
  <1>14. W[1][2] = ch.wallet[1][2] - t.quantity
    <2>1. 1 \in DOMAIN ch.wallet
      BY <1>2, ChainFields
    <2> QED BY <1>2, <1>5, <1>13, <2>1 DEF Debited
  <1> HIDE DEF S, new, W, A
  <1>15. /\ S.balance[2] = ether(IF k = 12 THEN 1 ELSE 4)
         /\ k = 12 => n.wallet[1][2] = INITIAL_BALANCE - ether(3)
    <2>1. S.balance[2] = T.balance[2] + t.quantity
      BY <1>2, <1>11, <1>13 DEF More
    <2>2. S.balance[2] = ether(IF k = 12 THEN 1 ELSE 4)
      BY <1>1, <1>4, <1>5, <2>1, SMT
    <2>3. k = 12 => n.wallet[1][2] = INITIAL_BALANCE - ether(2) - ether(1)
      BY <1>1, <1>5, <1>10, <1>14
    <2>4. INITIAL_BALANCE - ether(2) - ether(1) = INITIAL_BALANCE - ether(3)
      BY <1>4, SMT
    <2> QED BY <2>2, <2>3, <2>4
  <1>16. /\ S.storage.virtualUnit[2] = t.quantity /\ S.storage.virtualUnit[1] = halfEther
         /\ S.storage.totalSupply = ether(1)
    <2>1. st.virtualUnit \in [Components -> Int]
      BY <1>2, StorageFields
    <2> QED BY <1>2, <1>5, <1>11, <1>12, <2>1 DEF Replaced
  <1>17. Occurrences(S.storage.components, 2) = (IF k = 12 THEN 1 ELSE 2)
    <2>1. st.components \in Seq(Components)
      BY <1>2, StorageFields
    <2>2. Occurrences(Append(st.components, 2), 2) = Occurrences(st.components, 2) + 1
      BY <1>2, <2>1, OccurrencesAppend
    <2> QED BY <1>5, <1>11, <1>12, <2>2 DEF Replaced
  <1>18. Registered11(n, s) /\ n.sets[s] = S
    <2>1. Registered11(ch, s)
      BY DEF State11
    <2>2. Rewritten(ch, n, s, S)
      BY <1>10 DEF Rewritten
    <2> QED BY <2>1, <2>2, Stays11
  <1>19. Modules11(S, k + 1)
    BY <1>3, <1>11 DEF Modules11, Replaced
  <1>20. Account11(S, n.wallet, n.allowance, k + 1)
    <2>1. CASE k = 12
      BY <1>1, <1>15, <1>16, <1>17, <2>1 DEF Account11, Second
    <2>2. CASE k = 14
      BY <1>1, <1>15, <1>16, <1>17, <2>2 DEF Account11, Second
    <2> QED BY <2>1, <2>2
  <1>21. LaunchStep(ch, n)
    <2>1. Opened(T) /\ Handled(S)
      BY <1>3, <1>16, HalfEther DEF Modules11, Opened
    <2> QED BY <1>2, <1>5, <1>10, <1>16, <2>1, EditStep
  <1> QED BY <1>7, <1>18, <1>19, <1>20, <1>21 DEF Leads11, State11

\* The redemption asks for two listings at the unit of the last part, which is
\* more than the Set holds.
LEMMA Redeem11 ==
    ASSUME NEW s \in SetIds, NEW ch, ChainInv(ch), State11(ch, 16, s),
           NEW t \in Tx, t.fn = "redeem", t.set = s, t.quantity \in {0, ether(1)}
    PROVE  ~Succeeds(ch, t)
  <1> DEFINE T == ch.sets[s]
             u == ether(3)
             p == PreciseMul(ether(1), u)
  <1>1. /\ T \in Sound /\ s \in DOMAIN ch.sets /\ 2 \in Components /\ Second(T, 2, 3, 4)
    BY Fields11 DEF State11, Account11
  <1>2. /\ PRECISE_UNIT \in Nat \ {0} /\ ether(1) = PRECISE_UNIT /\ ether(3) = 3 * PRECISE_UNIT
        /\ ether(4) = 4 * PRECISE_UNIT /\ u \in Nat
    BY EtherFacts, SMT DEF ether
  <1>3. CASE t.quantity = 0
    BY <1>3 DEF Succeeds, CanRedeem
  <1>4. CASE t.quantity = ether(1)
    <2>1. Storage_(ch, t) = T.storage /\ Listings(ch, t, 2) = 2
      BY <1>1 DEF Storage_, Listings, Second
    <2>2. DefaultPositionRealUnit(Storage_(ch, t), 2) = u
      BY <1>1, <2>1, AmountsNat DEF Second
    <2>3. p \in Nat /\ PRECISE_UNIT * u < PRECISE_UNIT * p + PRECISE_UNIT
      BY <1>2, PreciseMulBounds
    <2> HIDE DEF u, p
    <2>4. u < p + 1
      <3>1. PRECISE_UNIT * u < PRECISE_UNIT * (p + 1)
        BY <1>2, <2>3, SMT
      <3> QED BY <1>2, <2>3, <3>1, CancelStrict, SMT
    <2>5. Paid(ch, t, 2) = 2 * p
      BY <1>4, <2>1, <2>2 DEF Paid, p
    <2>6. ~(2 * p <= ether(4))
      BY <1>2, <2>3, <2>4, SMT DEF u
    <2>7. ~(Paid(ch, t, 2) <= ch.sets[t.set].balance[2])
      BY <1>1, <2>5, <2>6 DEF Second
    <2> QED BY <1>1, <2>7 DEF Succeeds, CanRedeem
  <1> QED BY <1>3, <1>4

-----------------------------------------------------------------------------
(* Where the instructions of script 11 stand *)

\* After the deployment of the tokens; after the approvals of their units.
Deployed11 == 2 * N + 1
Approved11 == 3 * N + 14

LEMMA Joined ==
    ASSUME NEW P \in Seq(Any), NEW Q \in Seq(Any), NEW a, Len(P) = a, NEW b, Len(Q) = b,
           NEW R, R = P \o Q
    PROVE  /\ R \in Seq(Any) /\ a \in Nat /\ b \in Nat /\ Len(R) = a + b
           /\ \A k \in 1 .. a : R[k] = P[k]
           /\ \A k \in 1 .. b : R[a + k] = Q[k]
  BY Concatenated

LEMMA Pieces11 ==
    /\ DeployTokens \in Seq(Any) /\ Len(DeployTokens) = 2 * N
    /\ \A c \in Components : /\ DeployTokens[2 * c - 1] = deployTokenMock(c)
                             /\ DeployTokens[2 * c] = Deployed(deployTokenMock(c))
    /\ <<getBalances>> \in Seq(Any) /\ Len(<<getBalances>>) = 1
    /\ CoreSystem11 \in Seq(Any) /\ Len(CoreSystem11) = 10
    /\ CreateSet11 \in Seq(Any) /\ Len(CreateSet11) = 3
    /\ ApproveUnits \in Seq(Any) /\ Len(ApproveUnits) = N
    /\ \A c \in Components : ApproveUnits[c] = approve(IssuanceModule, c, _units[c])
    /\ InitializeModules11 \in Seq(Any) /\ Len(InitializeModules11) = 4
    /\ IssueSet11 \in Seq(Any) /\ Len(IssueSet11) = 2
    /\ RemoveComponents11 \in Seq(Any) /\ Len(RemoveComponents11) = 4
    /\ AddComponents11 \in Seq(Any) /\ Len(AddComponents11) = 4
    /\ RedeemSet11 \in Seq(Any) /\ Len(RedeemSet11) = 3
  <1>1. N \in Nat /\ Components = 1 .. N
    BY EtherNat
  <1>2. DeployTokens \in Seq(Any) /\ ApproveUnits \in Seq(Any)
    BY DeployTokensPlain, ApproveUnitsNarrow, SeqsOfAny
  <1>3. /\ Len(DeployTokens) = 2 * N
        /\ \A c \in Components : /\ DeployTokens[2 * c - 1] = deployTokenMock(c)
                                 /\ DeployTokens[2 * c] = Deployed(deployTokenMock(c))
    <2> DEFINE D(k) == IF k % 2 = 1 THEN deployTokenMock((k + 1) \div 2)
                                    ELSE Deployed(deployTokenMock((k + 1) \div 2))
    <2>1. DeployTokens = [k \in 1 .. 2 * N |-> D(k)]
      BY DEF DeployTokens, ForEachComponent
    <2>2. 2 * N \in Nat
      BY <1>1, SMT
    <2>3. \A c \in Components : /\ 2 * c - 1 \in 1 .. 2 * N /\ 2 * c \in 1 .. 2 * N
                                /\ (2 * c - 1) % 2 = 1 /\ (2 * c) % 2 # 1
                                /\ ((2 * c - 1) + 1) \div 2 = c /\ (2 * c + 1) \div 2 = c
      BY <1>1, SMT
    <2>4. \A c \in Components : D(2 * c - 1) = deployTokenMock(c) /\ D(2 * c) = Deployed(deployTokenMock(c))
      BY <2>3
    <2> HIDE DEF D
    <2>5. DOMAIN DeployTokens = 1 .. 2 * N /\ \A k \in 1 .. 2 * N : DeployTokens[k] = D(k)
      BY <2>1
    <2>6. Len(DeployTokens) \in Nat /\ DOMAIN DeployTokens = 1 .. Len(DeployTokens)
      BY <1>2, LenProperties
    <2>7. Len(DeployTokens) = 2 * N
      BY <2>2, <2>5, <2>6, SMT
    <2> QED BY <2>3, <2>4, <2>5, <2>7
  <1>4. /\ Len(ApproveUnits) = N
        /\ \A c \in Components : ApproveUnits[c] = approve(IssuanceModule, c, _units[c])
    <2> DEFINE A(i) == approve(IssuanceModule, i, _units[i])
    <2>1. ApproveUnits = [i \in 1 .. N |-> A(i)]
      BY DEF ApproveUnits
    <2> HIDE DEF A
    <2>2. DOMAIN ApproveUnits = 1 .. N /\ \A k \in 1 .. N : ApproveUnits[k] = A(k)
      BY <2>1
    <2>3. Len(ApproveUnits) \in Nat /\ DOMAIN ApproveUnits = 1 .. Len(ApproveUnits)
      BY <1>2, LenProperties
    <2>4. Len(ApproveUnits) = N
      BY <1>1, <2>2, <2>3, SMT
    <2> QED BY <1>1, <2>2, <2>4 DEF A
  <1>5. /\ <<getBalances>> \in Seq(Any) /\ CoreSystem11 \in Seq(Any)
        /\ IssueSet11 \in Seq(Any) /\ RemoveComponents11 \in Seq(Any)
        /\ AddComponents11 \in Seq(Any) /\ RedeemSet11 \in Seq(Any)
    BY PlainPieces, SeqsOfAny
  <1>6. CreateSet11 \in Seq(Any)
    <2>1. /\ create({IssuanceModule, ManageModule}) \in Any
          /\ AwaitReceipt \in Any /\ getCreatedSetTokenAddress \in Any
      BY CreationFields
    <2> QED BY <2>1 DEF CreateSet11
  <1>7. InitializeModules11 \in Seq(Any)
    <2>1. InitializeModules11 \in Seq(Plain)
      BY CorePlain DEF InitializeModules11
    <2> QED BY <2>1, SeqsOfAny
  <1>8. /\ Len(<<getBalances>>) = 1 /\ Len(CoreSystem11) = 10 /\ Len(CreateSet11) = 3
        /\ Len(InitializeModules11) = 4 /\ Len(IssueSet11) = 2 /\ Len(RemoveComponents11) = 4
        /\ Len(AddComponents11) = 4 /\ Len(RedeemSet11) = 3
    <2>1. Len(CoreSystem11) = 10
      BY DEF CoreSystem11
    <2>2. Len(CreateSet11) = 3
      BY DEF CreateSet11
    <2>3. Len(InitializeModules11) = 4
      BY DEF InitializeModules11
    <2>4. Len(IssueSet11) = 2
      BY DEF IssueSet11
    <2>5. Len(RemoveComponents11) = 4
      BY DEF RemoveComponents11
    <2>6. Len(AddComponents11) = 4
      BY DEF AddComponents11
    <2>7. Len(RedeemSet11) = 3
      BY DEF RedeemSet11
    <2>8. Len(<<getBalances>>) = 1
      OBVIOUS
    <2> QED BY <2>1, <2>2, <2>3, <2>4, <2>5, <2>6, <2>7, <2>8
  <1> QED BY <1>2, <1>3, <1>4, <1>5, <1>6, <1>7, <1>8

LEMMA Places11 ==
    /\ N \in Nat /\ Deployed11 \in Nat /\ Approved11 \in Nat
    /\ Script11 \in Seq(Any) /\ Len(Script11) = Approved11 + 17
    /\ CreateAt("11") = Deployed11 + 11 /\ ReadAt("11") = Deployed11 + 13
    /\ InitAt("11") = Approved11 + 1
    /\ \A c \in Components : /\ Script11[2 * c - 1] = deployTokenMock(c)
                             /\ Script11[2 * c] = Deployed(deployTokenMock(c))
    /\ Script11[Deployed11] = getBalances
    /\ \A k \in 1 .. 10 : Script11[Deployed11 + k] = CoreSystem11[k]
    /\ \A k \in 1 .. 3 : Script11[Deployed11 + 10 + k] = CreateSet11[k]
    /\ \A c \in Components : Script11[Deployed11 + 13 + c] = approve(IssuanceModule, c, _units[c])
    /\ \A k \in 1 .. 4 : Script11[Approved11 + k] = InitializeModules11[k]
    /\ \A k \in 1 .. 2 : Script11[Approved11 + 4 + k] = IssueSet11[k]
    /\ \A k \in 1 .. 4 : Script11[Approved11 + 6 + k] = RemoveComponents11[k]
    /\ \A k \in 1 .. 4 : Script11[Approved11 + 10 + k] = AddComponents11[k]
    /\ \A k \in 1 .. 3 : Script11[Approved11 + 14 + k] = RedeemSet11[k]
  <1> DEFINE P0 == DeployTokens
             P1 == P0 \o <<getBalances>>
             P2 == P1 \o CoreSystem11
             P3 == P2 \o CreateSet11
             P4 == P3 \o ApproveUnits
             P5 == P4 \o InitializeModules11
             P6 == P5 \o IssueSet11
             P7 == P6 \o RemoveComponents11
             P8 == P7 \o AddComponents11
             P9 == P8 \o RedeemSet11
  <1>1. Script11 = P9 /\ Before11 = P2 /\ Until11 = P4
    BY DEF Script11, Before11, Until11
  <1>2. /\ N \in Nat /\ Deployed11 \in Nat /\ Approved11 \in Nat /\ Components = 1 .. N
        /\ 2 * N + 1 = Deployed11 /\ 2 * N \in Nat
        /\ Deployed11 + 10 + 3 + N = Approved11
    BY EtherNat, SMT DEF Deployed11, Approved11
  <1>3. /\ P1 = P0 \o <<getBalances>> /\ P2 = P1 \o CoreSystem11 /\ P3 = P2 \o CreateSet11
        /\ P4 = P3 \o ApproveUnits /\ P5 = P4 \o InitializeModules11 /\ P6 = P5 \o IssueSet11
        /\ P7 = P6 \o RemoveComponents11 /\ P8 = P7 \o AddComponents11 /\ P9 = P8 \o RedeemSet11
        /\ P0 = DeployTokens
    OBVIOUS
  <1> HIDE DEF P0, P1, P2, P3, P4, P5, P6, P7, P8, P9
  <1> DEFINE Piece(Q, b) == Q \in Seq(Any) /\ b \in Nat /\ Len(Q) = b
  <1>p. /\ Piece(P0, 2 * N) /\ Piece(<<getBalances>>, 1) /\ Piece(CoreSystem11, 10)
        /\ Piece(CreateSet11, 3) /\ Piece(ApproveUnits, N) /\ Piece(InitializeModules11, 4)
        /\ Piece(IssueSet11, 2) /\ Piece(RemoveComponents11, 4) /\ Piece(AddComponents11, 4)
        /\ Piece(RedeemSet11, 3)
    BY <1>2, <1>3, Pieces11
  <1>j. ASSUME NEW P, NEW Q, NEW a, NEW b, NEW R, Piece(P, a), Piece(Q, b), R = P \o Q
        PROVE  Piece(R, a + b)
    <2>1. /\ P \in Seq(Any) /\ Len(P) = a /\ Q \in Seq(Any) /\ Len(Q) = b
          /\ a \in Nat /\ b \in Nat
      BY <1>j
    <2>2. R \in Seq(Any) /\ Len(R) = a + b
      BY <1>j, <2>1, Joined
    <2>3. a + b \in Nat
      BY <2>1, SMT
    <2> QED BY <2>2, <2>3
  <1> DEFINE Early(R, c) == \A k \in 1 .. c : Script11[k] = R[k]
             Later(a, Q, b) == \A k \in 1 .. b : Script11[a + k] = Q[k]
  <1>e. ASSUME NEW P, NEW Q, NEW a, NEW b, Piece(P, a), Piece(Q, b), Early(P \o Q, a + b)
        PROVE  Early(P, a) /\ Later(a, Q, b)
    <2> DEFINE R == P \o Q
    <2>1. /\ P \in Seq(Any) /\ Len(P) = a /\ Q \in Seq(Any) /\ Len(Q) = b
          /\ a \in Nat /\ b \in Nat
      BY <1>e
    <2>2. /\ \A k \in 1 .. a : R[k] = P[k]
          /\ \A k \in 1 .. b : R[a + k] = Q[k]
      BY <2>1, Joined
    <2>3. /\ \A k \in 1 .. a : k \in 1 .. a + b
          /\ \A k \in 1 .. b : a + k \in 1 .. a + b
      BY <2>1, SMT
    <2>4. \A k \in 1 .. a + b : Script11[k] = R[k]
      BY <1>e
    <2> HIDE DEF R
    <2> QED BY <2>2, <2>3, <2>4
  <1> HIDE DEF Piece, Early, Later
  <1>4. /\ 2 * N + 1 = Deployed11 /\ Deployed11 + 10 + 3 + N = Approved11
        /\ Approved11 + 4 + 2 = Approved11 + 6 /\ Approved11 + 6 + 4 = Approved11 + 10
        /\ Approved11 + 10 + 4 = Approved11 + 14 /\ Approved11 + 14 + 3 = Approved11 + 17
    BY <1>2, SMT
  <1>5. Piece(P1, Deployed11)
    <2>1. Piece(P0, 2 * N) /\ Piece(<<getBalances>>, 1) /\ P1 = P0 \o <<getBalances>>
      BY <1>3, <1>p
    <2>2. Piece(P1, 2 * N + 1)
      BY <2>1, <1>j
    <2> QED BY <1>4, <2>2
  <1>6. Piece(P2, Deployed11 + 10)
    <2>1. Piece(P1, Deployed11) /\ Piece(CoreSystem11, 10) /\ P2 = P1 \o CoreSystem11
      BY <1>3, <1>p, <1>5
    <2> QED BY <2>1, <1>j
  <1>7. Piece(P3, Deployed11 + 10 + 3)
    <2>1. Piece(P2, Deployed11 + 10) /\ Piece(CreateSet11, 3) /\ P3 = P2 \o CreateSet11
      BY <1>3, <1>p, <1>6
    <2> QED BY <2>1, <1>j
  <1>8. Piece(P4, Approved11)
    <2>1. Piece(P3, Deployed11 + 10 + 3) /\ Piece(ApproveUnits, N) /\ P4 = P3 \o ApproveUnits
      BY <1>3, <1>p, <1>7
    <2>2. Piece(P4, Deployed11 + 10 + 3 + N)
      BY <2>1, <1>j
    <2> QED BY <1>4, <2>2
  <1>9. Piece(P5, Approved11 + 4)
    <2>1. Piece(P4, Approved11) /\ Piece(InitializeModules11, 4) /\ P5 = P4 \o InitializeModules11
      BY <1>3, <1>p, <1>8
    <2> QED BY <2>1, <1>j
  <1>10. Piece(P6, Approved11 + 6)
    <2>1. Piece(P5, Approved11 + 4) /\ Piece(IssueSet11, 2) /\ P6 = P5 \o IssueSet11
      BY <1>3, <1>p, <1>9
    <2>2. Piece(P6, Approved11 + 4 + 2)
      BY <2>1, <1>j
    <2> QED BY <1>4, <2>2
  <1>11. Piece(P7, Approved11 + 10)
    <2>1. Piece(P6, Approved11 + 6) /\ Piece(RemoveComponents11, 4) /\ P7 = P6 \o RemoveComponents11
      BY <1>3, <1>p, <1>10
    <2>2. Piece(P7, Approved11 + 6 + 4)
      BY <2>1, <1>j
    <2> QED BY <1>4, <2>2
  <1>12. Piece(P8, Approved11 + 14)
    <2>1. Piece(P7, Approved11 + 10) /\ Piece(AddComponents11, 4) /\ P8 = P7 \o AddComponents11
      BY <1>3, <1>p, <1>11
    <2>2. Piece(P8, Approved11 + 10 + 4)
      BY <2>1, <1>j
    <2> QED BY <1>4, <2>2
  <1>13. Piece(P9, Approved11 + 17)
    <2>1. Piece(P8, Approved11 + 14) /\ Piece(RedeemSet11, 3) /\ P9 = P8 \o RedeemSet11
      BY <1>3, <1>p, <1>12
    <2>2. Piece(P9, Approved11 + 14 + 3)
      BY <2>1, <1>j
    <2> QED BY <1>4, <2>2
  <1>14. Early(P9, Approved11 + 17)
    BY <1>1 DEF Early
  <1>15. Early(P8, Approved11 + 14) /\ Later(Approved11 + 14, RedeemSet11, 3)
    <2>1. Piece(P8, Approved11 + 14) /\ Piece(RedeemSet11, 3)
      BY <1>p, <1>12
    <2>2. Early(P8 \o RedeemSet11, Approved11 + 14 + 3)
      BY <1>3, <1>4, <1>14
    <2> QED BY <1>e, <2>1, <2>2
  <1>16. Early(P7, Approved11 + 10) /\ Later(Approved11 + 10, AddComponents11, 4)
    <2>1. Piece(P7, Approved11 + 10) /\ Piece(AddComponents11, 4)
      BY <1>p, <1>11
    <2>2. Early(P7 \o AddComponents11, Approved11 + 10 + 4)
      BY <1>3, <1>4, <1>15
    <2> QED BY <1>e, <2>1, <2>2
  <1>17. Early(P6, Approved11 + 6) /\ Later(Approved11 + 6, RemoveComponents11, 4)
    <2>1. Piece(P6, Approved11 + 6) /\ Piece(RemoveComponents11, 4)
      BY <1>p, <1>10
    <2>2. Early(P6 \o RemoveComponents11, Approved11 + 6 + 4)
      BY <1>3, <1>4, <1>16
    <2> QED BY <1>e, <2>1, <2>2
  <1>18. Early(P5, Approved11 + 4) /\ Later(Approved11 + 4, IssueSet11, 2)
    <2>1. Piece(P5, Approved11 + 4) /\ Piece(IssueSet11, 2)
      BY <1>p, <1>9
    <2>2. Early(P5 \o IssueSet11, Approved11 + 4 + 2)
      BY <1>3, <1>4, <1>17
    <2> QED BY <1>e, <2>1, <2>2
  <1>19. Early(P4, Approved11) /\ Later(Approved11, InitializeModules11, 4)
    <2>1. Piece(P4, Approved11) /\ Piece(InitializeModules11, 4)
      BY <1>p, <1>8
    <2>2. Early(P4 \o InitializeModules11, Approved11 + 4)
      BY <1>3, <1>4, <1>18
    <2> QED BY <1>e, <2>1, <2>2
  <1>20. Early(P3, Deployed11 + 10 + 3) /\ Later(Deployed11 + 10 + 3, ApproveUnits, N)
    <2>1. Piece(P3, Deployed11 + 10 + 3) /\ Piece(ApproveUnits, N)
      BY <1>p, <1>7
    <2>2. Early(P3 \o ApproveUnits, Deployed11 + 10 + 3 + N)
      BY <1>3, <1>4, <1>19
    <2> QED BY <1>e, <2>1, <2>2
  <1>21. Early(P2, Deployed11 + 10) /\ Later(Deployed11 + 10, CreateSet11, 3)
    <2>1. Piece(P2, Deployed11 + 10) /\ Piece(CreateSet11, 3)
      BY <1>p, <1>6
    <2>2. Early(P2 \o CreateSet11, Deployed11 + 10 + 3)
      BY <1>3, <1>4, <1>20
    <2> QED BY <1>e, <2>1, <2>2
  <1>22. Early(P1, Deployed11) /\ Later(Deployed11, CoreSystem11, 10)
    <2>1. Piece(P1, Deployed11) /\ Piece(CoreSystem11, 10)
      BY <1>p, <1>5
    <2>2. Early(P1 \o CoreSystem11, Deployed11 + 10)
      BY <1>3, <1>4, <1>21
    <2> QED BY <1>e, <2>1, <2>2
  <1>23. Early(P0, 2 * N) /\ Later(2 * N, <<getBalances>>, 1)
    <2>1. Piece(P0, 2 * N) /\ Piece(<<getBalances>>, 1)
      BY <1>p
    <2>2. Early(P0 \o <<getBalances>>, 2 * N + 1)
      BY <1>3, <1>4, <1>22
    <2> QED BY <1>e, <2>1, <2>2
  <1>24. Script11[Deployed11] = getBalances
    <2>1. 1 \in 1 .. 1
      BY SMT
    <2> QED BY <1>2, <1>23, <2>1 DEF Later
  <1>25. \A c \in Components : /\ Script11[2 * c - 1] = deployTokenMock(c)
                               /\ Script11[2 * c] = Deployed(deployTokenMock(c))
    <2>1. \A c \in Components : 2 * c - 1 \in 1 .. 2 * N /\ 2 * c \in 1 .. 2 * N
      BY <1>2, SMT
    <2> QED BY <1>3, <1>23, <2>1, Pieces11 DEF Early
  <1>26. \A c \in Components : Script11[Deployed11 + 13 + c] = approve(IssuanceModule, c, _units[c])
    <2>1. \A c \in Components : Deployed11 + 13 + c = Deployed11 + 10 + 3 + c
      BY <1>2, SMT
    <2> QED BY <1>2, <1>20, <2>1, Pieces11 DEF Later
  <1>27. /\ CreateAt("11") = Deployed11 + 11 /\ ReadAt("11") = Deployed11 + 13
         /\ InitAt("11") = Approved11 + 1
    <2>1. Deployed11 + 10 + 1 = Deployed11 + 11 /\ Deployed11 + 11 + 2 = Deployed11 + 13
      BY <1>2, SMT
    <2>2. Len(Before11) = Deployed11 + 10 /\ Len(Until11) = Approved11
      BY <1>1, <1>6, <1>8 DEF Piece
    <2> QED BY <2>1, <2>2 DEF CreateAt, ReadAt, InitAt
  <1>28. Script11 \in Seq(Any) /\ Len(Script11) = Approved11 + 17
    BY <1>1, <1>13 DEF Piece
  <1> QED
    BY <1>2, <1>15, <1>16, <1>17, <1>18, <1>19, <1>21, <1>22, <1>24, <1>25, <1>26, <1>27, <1>28
    DEF Later

-----------------------------------------------------------------------------
(* The chain that the q-th instruction of script 11 finds                    *)

\* The Controller until the Set is created.
Controller11(C, q) ==
    /\ C.sets = {}
    /\ q <= Deployed11 + 9 => ~C.initialized
    /\ q >= Deployed11 + 10 => C.initialized /\ C.hasFactory /\ <<IssuanceModule, 1>> \in C.modules
    /\ q = Deployed11 + 10 => <<ManageModule, 1>> \notin C.modules
    /\ q = Deployed11 + 11 => <<ManageModule, 1>> \in C.modules

\* The Set until its first module is initialized.
New11(ch, s) ==
    /\ Registered11(ch, s) /\ Modules11(ch.sets[s], 1) /\ ~Handled(ch.sets[s])
    /\ ch.sets[s].storage.totalSupply = 0 /\ \A c \in Components : ch.sets[s].balance[c] = 0

\* The tokens deployed and the allowances given so far.
Funded11(wallet, allowance, q) ==
    \A c \in Components :
        /\ 2 * c - 1 < q => wallet[1][c] = INITIAL_BALANCE
        /\ Deployed11 + 13 + c < q => allowance[<<IssuanceModule, 1>>][1][c] = _units[c]

Phase11(ch, q, s) ==
    /\ q <= Deployed11 + 11 => ch.sets = << >> /\ s = 1 /\ Controller11(ch.controllers[1], q)
    /\ Deployed11 + 12 <= q /\ q <= Approved11 => New11(ch, s)
    /\ q <= Approved11 => Funded11(ch.wallet, ch.allowance, q)
    /\ \A k \in 1 .. 16 : q = Approved11 + k => State11(ch, k, s)
    /\ q >= Approved11 + 17 => State11(ch, 16, s)

LEMMA PhaseNumbers ==
    /\ Deployed11 \in Nat /\ Approved11 \in Nat /\ Approved11 = Deployed11 + 13 + N /\ N \in Nat
    /\ Deployed11 = 2 * N + 1 /\ N >= 2 /\ Components = 1 .. N
    /\ \A c \in Components : c \in Nat /\ c >= 1 /\ 2 * c - 1 < Deployed11
  BY EtherNat, SMT DEF Deployed11, Approved11

LEMMA PhaseOfFields ==
    ASSUME NEW s \in SetIds, NEW ch, NEW n, NEW q, Phase11(ch, q, s),
           n.sets = ch.sets, n.controllers = ch.controllers, n.wallet = ch.wallet, n.allowance = ch.allowance
    PROVE  Phase11(n, q, s)
  BY DEF Phase11, New11, State11, Registered11

\* How a chain comes to be at an instruction of each part of the script.
LEMMA Founding11 ==
    ASSUME NEW s \in SetIds, s = 1, NEW n, NEW q \in Nat, q <= Deployed11 + 11, n.sets = << >>,
           Controller11(n.controllers[1], q), Funded11(n.wallet, n.allowance, q)
    PROVE  Phase11(n, q, s)
  <1>1. q <= Approved11 /\ ~(Deployed11 + 12 <= q) /\ ~(q >= Approved11 + 17)
        /\ \A k \in 1 .. 16 : q # Approved11 + k
    BY PhaseNumbers, SMT
  <1> QED BY <1>1 DEF Phase11

LEMMA Arriving11 ==
    ASSUME NEW s \in SetIds, NEW n, NEW q \in Nat, Deployed11 + 12 <= q, q <= Approved11 + 1, New11(n, s),
           Funded11(n.wallet, n.allowance, q)
    PROVE  Phase11(n, q, s)
  <1>1. ~(q <= Deployed11 + 11) /\ ~(q >= Approved11 + 17)
        /\ \A k \in 1 .. 16 : q = Approved11 + k => k = 1
    BY PhaseNumbers, SMT
  <1>2. ASSUME q = Approved11 + 1 PROVE State11(n, 1, s)
    <2>1. \A c \in Components : 2 * c - 1 < q /\ Deployed11 + 13 + c < q
      BY <1>2, PhaseNumbers, SMT
    <2>2. \A c \in Components : /\ n.wallet[1][c] = INITIAL_BALANCE
                                /\ n.allowance[<<IssuanceModule, 1>>][1][c] = _units[c]
      BY <2>1 DEF Funded11
    <2>3. Account11(n.sets[s], n.wallet, n.allowance, 1)
      BY <2>2 DEF Account11, New11
    <2> QED BY <2>3 DEF State11, New11
  <1> QED BY <1>1, <1>2 DEF Phase11

LEMMA Launching11 ==
    ASSUME NEW s \in SetIds, NEW n, NEW k \in 1 .. 16, State11(n, k, s)
    PROVE  Phase11(n, Approved11 + k, s) /\ (k = 16 => Phase11(n, Approved11 + k + 1, s))
  <1>1. /\ ~(Approved11 + k <= Deployed11 + 11) /\ ~(Approved11 + k <= Approved11)
        /\ ~(Approved11 + k >= Approved11 + 17) /\ \A j \in 1 .. 16 : Approved11 + k = Approved11 + j => j = k
    BY PhaseNumbers, SMT
  <1>2. k = 16 => /\ ~(Approved11 + k + 1 <= Deployed11 + 11) /\ ~(Approved11 + k + 1 <= Approved11)
                  /\ \A j \in 1 .. 16 : Approved11 + k + 1 # Approved11 + j
    BY PhaseNumbers, SMT
  <1>3. Phase11(n, Approved11 + k, s)
    BY <1>1 DEF Phase11
  <1>4. k = 16 => Phase11(n, Approved11 + k + 1, s)
    BY <1>2 DEF Phase11
  <1> QED BY <1>3, <1>4

\* What such a chain is.
LEMMA Founded11 ==
    ASSUME NEW s \in SetIds, NEW ch, NEW q \in Nat, q <= Deployed11 + 11, Phase11(ch, q, s)
    PROVE  /\ ch.sets = << >> /\ s = 1 /\ Controller11(ch.controllers[1], q)
           /\ Funded11(ch.wallet, ch.allowance, q)
  BY PhaseNumbers, SMT DEF Phase11

LEMMA Waiting11 ==
    ASSUME NEW s \in SetIds, NEW ch, NEW q \in Nat, Deployed11 + 12 <= q, q <= Approved11, Phase11(ch, q, s)
    PROVE  New11(ch, s) /\ Funded11(ch.wallet, ch.allowance, q)
  BY DEF Phase11

LEMMA Launched11 ==
    ASSUME NEW s \in SetIds, NEW ch, NEW k \in 1 .. 17, Phase11(ch, Approved11 + k, s)
    PROVE  State11(ch, IF k = 17 THEN 16 ELSE k, s)
  <1>1. CASE k = 17
    <2>1. Approved11 + k >= Approved11 + 17
      BY <1>1, PhaseNumbers, SMT
    <2> QED BY <1>1, <2>1 DEF Phase11
  <1>2. CASE k # 17
    <2>1. k \in 1 .. 16
      BY <1>2, SMT
    <2> QED BY <1>2, <2>1 DEF Phase11
  <1> QED BY <1>1, <1>2

\* The supply that a balance read can see, and the number of Sets.
LEMMA Supply11 ==
    ASSUME NEW s \in SetIds, NEW ch, ChainInv(ch), NEW q \in Nat, Phase11(ch, q, s)
    PROVE  /\ \A x \in DOMAIN ch.sets : ch.sets[x].storage.totalSupply \in {0, ether(1)}
           /\ Len(ch.sets) \in {0, s}
  <1>1. CASE q <= Deployed11 + 11
    <2>1. ch.sets = << >>
      BY <1>1, Founded11
    <2> QED BY <2>1
  <1>2. ASSUME Registered11(ch, s), ch.sets[s].storage.totalSupply \in {0, ether(1)}
        PROVE  /\ \A x \in DOMAIN ch.sets : ch.sets[x].storage.totalSupply \in {0, ether(1)}
               /\ Len(ch.sets) \in {0, s}
    <2>1. /\ DOMAIN ch.sets = 1 .. s /\ s \in Nat
          /\ \A x \in DOMAIN ch.sets \ {s} : ch.sets[x].storage.totalSupply = 0
      BY <1>2, SetIdsShown DEF Registered11, Untouched
    <2>2. Len(ch.sets) \in Nat /\ DOMAIN ch.sets = 1 .. Len(ch.sets)
      BY ChainFields, LenProperties
    <2>3. Len(ch.sets) = s
      BY <2>1, <2>2, SMT
    <2> QED BY <1>2, <2>1, <2>3
  <1>3. CASE Deployed11 + 12 <= q /\ q <= Approved11
    <2>1. New11(ch, s)
      BY <1>3, Waiting11
    <2> QED BY <1>2, <2>1 DEF New11
  <1>4. CASE q > Approved11
    <2>1. \E k \in 1 .. 16 : State11(ch, k, s)
      <3>1. q >= Approved11 + 17 \/ \E k \in 1 .. 16 : q = Approved11 + k
        <4>1. q - Approved11 \in Nat /\ q = Approved11 + (q - Approved11) /\ q - Approved11 >= 1
          BY <1>4, PhaseNumbers, SMT
        <4>2. q - Approved11 \in 1 .. 16 \/ q >= Approved11 + 17
          BY <4>1, PhaseNumbers, SMT
        <4> QED BY <4>1, <4>2
      <3>2. 16 \in 1 .. 16
        BY SMT
      <3> QED BY <3>1, <3>2 DEF Phase11
    <2>2. PICK k \in 1 .. 16 : State11(ch, k, s)
      BY <2>1
    <2>3. Registered11(ch, s) /\ Account11(ch.sets[s], ch.wallet, ch.allowance, k)
      BY <2>2 DEF State11
    <2>4. k <= 5 \/ k >= 6
      BY <2>2, SMT
    <2>5. ch.sets[s].storage.totalSupply \in {0, ether(1)}
      BY <2>3, <2>4 DEF Account11
    <2> QED BY <1>2, <2>3, <2>5
  <1>5. q <= Deployed11 + 11 \/ (Deployed11 + 12 <= q /\ q <= Approved11) \/ q > Approved11
    BY PhaseNumbers, SMT
  <1> QED BY <1>1, <1>3, <1>4, <1>5

-----------------------------------------------------------------------------
(* Script 11, instruction by instruction                                     *)

\* What a transaction of the script leads to: none but the redemption reverts.
Follows11(ch, t, n, q, s) ==
    /\ Phase11(n, q + 1, s) /\ LaunchStep(ch, n)
    /\ Succeeds(ch, t) \/ t.fn = "redeem"

LEMMA Deploy11 ==
    ASSUME NEW s \in SetIds, NEW ch, ChainInv(ch), NEW q \in Nat, q <= Deployed11 + 8, Phase11(ch, q, s),
           NEW t \in Tx, t.fn = "deploy", t.run = 1,
           IF t.kind = "token" THEN t.token \in Components /\ q = 2 * t.token - 1
                               ELSE \A c \in Components : q # 2 * c - 1,
           NEW n, n = Execute(ch, t)
    PROVE  Follows11(ch, t, n, q, s)
  <1> DEFINE W == IF t.kind = "token" THEN [ch.wallet EXCEPT ![t.run][t.token] = INITIAL_BALANCE]
                                      ELSE ch.wallet
  <1>1. /\ ch.sets = << >> /\ s = 1 /\ Controller11(ch.controllers[1], q)
        /\ Funded11(ch.wallet, ch.allowance, q)
    BY Founded11, PhaseNumbers, SMT
  <1>2. n = DeployContract(ch, t) /\ Succeeds(ch, t)
    BY DEF Execute, Succeeds, Effect
  <1>3. Shows(n, ch.controllers, ch.sets, W, ch.allowance)
    BY <1>2, DeployShown
  <1>4. n.controllers = ch.controllers /\ n.sets = << >> /\ n.wallet = W /\ n.allowance = ch.allowance
    BY <1>1, <1>3 DEF Shows
  <1>5. ch.wallet \in [Runs -> [Components -> Nat]] /\ 1 \in Runs
    BY ChainFields, RunCounts, SMT
  <1>6. \A c \in Components : 2 * c - 1 < q + 1 => W[1][c] = INITIAL_BALANCE
    <2> TAKE c \in Components
    <2>1. c \in Nat /\ (2 * c - 1 < q + 1 => 2 * c - 1 < q \/ q = 2 * c - 1)
      BY PhaseNumbers, SMT
    <2>2. CASE t.kind = "token"
      <3>1. q = 2 * c - 1 => c = t.token
        BY <2>1, <2>2, PhaseNumbers, SMT
      <3>2. W[1][c] = IF c = t.token THEN INITIAL_BALANCE ELSE ch.wallet[1][c]
        BY <1>5, <2>2
      <3> QED BY <1>1, <2>1, <3>1, <3>2 DEF Funded11
    <2>3. CASE t.kind # "token"
      BY <1>1, <2>1, <2>3 DEF Funded11
    <2> QED BY <2>2, <2>3
  <1> HIDE DEF W
  <1>7. Funded11(n.wallet, n.allowance, q + 1)
    <2>1. \A c \in Components : ~(Deployed11 + 13 + c < q + 1)
      BY PhaseNumbers, SMT
    <2> QED BY <1>4, <1>6, <2>1 DEF Funded11
  <1>8. Controller11(n.controllers[1], q + 1)
    <2>1. /\ q <= Deployed11 + 9 /\ ~(q + 1 >= Deployed11 + 10)
          /\ q + 1 # Deployed11 + 10 /\ q + 1 # Deployed11 + 11
      BY PhaseNumbers, SMT
    <2> QED BY <1>1, <1>4, <2>1 DEF Controller11
  <1>9. q + 1 \in Nat /\ q + 1 <= Deployed11 + 11
    BY PhaseNumbers, SMT
  <1>10. Phase11(n, q + 1, s)
    BY <1>1, <1>4, <1>7, <1>8, <1>9, Founding11
  <1>11. LaunchStep(ch, n)
    BY IdleStep DEF Idle, LaunchStep
  <1> QED BY <1>2, <1>10, <1>11 DEF Follows11

LEMMA InitializeController11 ==
    ASSUME NEW s \in SetIds, NEW ch, ChainInv(ch), NEW q, q = Deployed11 + 9, Phase11(ch, q, s),
           NEW t \in Tx, t.fn = "initialize", t.run = 1, t.modules = {IssuanceModule},
           NEW n, n = Execute(ch, t)
    PROVE  Follows11(ch, t, n, q, s)
  <1> DEFINE C == [initialized |-> TRUE, hasFactory |-> TRUE,
                   modules |-> {<<m, t.run>> : m \in t.modules}, sets |-> {}]
             k == [ch.controllers EXCEPT ![t.run] = C]
  <1>1. q \in Nat /\ q <= Deployed11 + 11
    BY PhaseNumbers, SMT
  <1>2. /\ ch.sets = << >> /\ s = 1 /\ Controller11(ch.controllers[1], q)
        /\ Funded11(ch.wallet, ch.allowance, q)
    BY <1>1, Founded11
  <1>3. Succeeds(ch, t)
    <2>1. q <= Deployed11 + 9
      BY PhaseNumbers, SMT
    <2>2. ~ch.controllers[1].initialized
      BY <1>2, <2>1 DEF Controller11
    <2> QED BY <2>2 DEF Succeeds, CanInitializeController
  <1>4. n = [ch EXCEPT !.controllers = k]
    BY <1>3 DEF Execute, Effect, InitializeController
  <1>5. 1 \in Runs /\ ch.controllers \in [Runs -> ControllerType]
    BY ChainFields, RunCounts, SMT
  <1>6. k[1] = C
    BY <1>5
  <1>7. /\ C.initialized /\ C.hasFactory /\ C.sets = {} /\ C.modules = {<<IssuanceModule, 1>>}
    OBVIOUS
  <1> HIDE DEF C, k
  <1>8. Shows(n, k, ch.sets, ch.wallet, ch.allowance)
    BY <1>4, ControllersShown
  <1>9. n.controllers = k /\ n.sets = << >> /\ n.wallet = ch.wallet /\ n.allowance = ch.allowance
    BY <1>2, <1>8 DEF Shows
  <1>10. Controller11(n.controllers[1], q + 1)
    <2>1. ~(q + 1 <= Deployed11 + 9) /\ q + 1 # Deployed11 + 11
      BY PhaseNumbers, SMT
    <2>2. <<ManageModule, 1>> \notin {<<IssuanceModule, 1>>}
      BY DEF ManageModule, IssuanceModule
    <2> QED BY <1>6, <1>7, <1>9, <2>1, <2>2 DEF Controller11
  <1>11. Funded11(n.wallet, n.allowance, q + 1)
    <2>1. \A c \in Components : ~(Deployed11 + 13 + c < q + 1) /\ 2 * c - 1 < q
      BY PhaseNumbers, SMT
    <2> QED BY <1>2, <1>9, <2>1 DEF Funded11
  <1>12. q + 1 \in Nat /\ q + 1 <= Deployed11 + 11
    BY PhaseNumbers, SMT
  <1>13. Phase11(n, q + 1, s)
    BY <1>2, <1>9, <1>10, <1>11, <1>12, Founding11
  <1>14. LaunchStep(ch, n)
    BY IdleStep DEF Idle, LaunchStep
  <1> QED BY <1>3, <1>13, <1>14 DEF Follows11

LEMMA AddModule11 ==
    ASSUME NEW s \in SetIds, NEW ch, ChainInv(ch), NEW q, q = Deployed11 + 10, Phase11(ch, q, s),
           NEW t \in Tx, t.fn = "addModule", t.run = 1, t.kind = ManageModule,
           NEW n, n = Execute(ch, t)
    PROVE  Follows11(ch, t, n, q, s)
  <1> DEFINE C == [ch.controllers[1] EXCEPT !.modules = @ \cup {<<t.kind, 1>>}]
             k == [ch.controllers EXCEPT ![1] = C]
  <1>1. q \in Nat /\ q <= Deployed11 + 11
    BY PhaseNumbers, SMT
  <1>2. /\ ch.sets = << >> /\ s = 1 /\ Controller11(ch.controllers[1], q)
        /\ Funded11(ch.wallet, ch.allowance, q)
    BY <1>1, Founded11
  <1>3. /\ ch.controllers[1].initialized /\ ch.controllers[1].hasFactory
        /\ <<IssuanceModule, 1>> \in ch.controllers[1].modules
        /\ <<ManageModule, 1>> \notin ch.controllers[1].modules /\ ch.controllers[1].sets = {}
    <2>1. q >= Deployed11 + 10
      BY PhaseNumbers, SMT
    <2> QED BY <1>2, <2>1 DEF Controller11
  <1>4. Succeeds(ch, t)
    BY <1>3 DEF Succeeds, CanAddModule
  <1>5. 1 \in Runs /\ ch.controllers \in [Runs -> ControllerType] /\ ch.controllers[1] \in ControllerType
    <2>1. 1 \in Runs /\ ch.controllers \in [Runs -> ControllerType]
      BY ChainFields, RunCounts, SMT
    <2> QED BY <2>1
  <1>6. n = [ch EXCEPT !.controllers = k]
    BY <1>4 DEF Execute, Effect, AddModule
  <1>7. k[1] = C
    BY <1>5
  <1>8. /\ C.initialized /\ C.hasFactory /\ C.sets = {}
        /\ <<IssuanceModule, 1>> \in C.modules /\ <<ManageModule, 1>> \in C.modules
    BY <1>3, <1>5 DEF ControllerType
  <1> HIDE DEF C, k
  <1>9. Shows(n, k, ch.sets, ch.wallet, ch.allowance)
    BY <1>6, ControllersShown
  <1>10. n.controllers = k /\ n.sets = << >> /\ n.wallet = ch.wallet /\ n.allowance = ch.allowance
    BY <1>2, <1>9 DEF Shows
  <1>11. Controller11(n.controllers[1], q + 1)
    <2>1. ~(q + 1 <= Deployed11 + 9) /\ q + 1 # Deployed11 + 10
      BY PhaseNumbers, SMT
    <2> QED BY <1>7, <1>8, <1>10, <2>1 DEF Controller11
  <1>12. Funded11(n.wallet, n.allowance, q + 1)
    <2>1. \A c \in Components : ~(Deployed11 + 13 + c < q + 1) /\ 2 * c - 1 < q
      BY PhaseNumbers, SMT
    <2> QED BY <1>2, <1>10, <2>1 DEF Funded11
  <1>13. q + 1 \in Nat /\ q + 1 <= Deployed11 + 11
    BY PhaseNumbers, SMT
  <1>14. Phase11(n, q + 1, s)
    BY <1>2, <1>10, <1>11, <1>12, <1>13, Founding11
  <1>15. LaunchStep(ch, n)
    BY IdleStep DEF Idle, LaunchStep
  <1> QED BY <1>4, <1>14, <1>15 DEF Follows11

\* The creation of a Set, with at most others on the chain that nobody touched.
LEMMA Another11 ==
    ASSUME NEW ch, ChainInv(ch), NEW s \in SetIds, s = Len(ch.sets) + 1,
           \A x \in DOMAIN ch.sets : Untouched(ch.sets[x]),
           {<<IssuanceModule, 1>>, <<ManageModule, 1>>} \subseteq ch.controllers[1].modules,
           NEW t \in Tx, t.fn = "create", t.stack = 1, t.tokens = 1,
           t.modules = {<<IssuanceModule, 1>>, <<ManageModule, 1>>}, Succeeds(ch, t),
           NEW n, n = Execute(ch, t)
    PROVE  /\ New11(n, s) /\ n.wallet = ch.wallet /\ n.allowance = ch.allowance
           /\ LaunchStep(ch, n)
  <1> DEFINE T == NewSetToken(t)
             k == Register(ch.controllers, t.stack, Len(ch.sets) + 1)
  <1>1. n = Create(ch, t)
    BY DEF Execute, Effect
  <1>2. Shows(n, k, Append(ch.sets, T), ch.wallet, ch.allowance)
    BY <1>1, CreateShown
  <1>3. k = Register(ch.controllers, 1, s)
    OBVIOUS
  <1>4. s \in k[1].sets /\ k[1].modules = ch.controllers[1].modules
    <2> HIDE DEF k
    <2>1. 1 \in Runs /\ s \in Int /\ ch.controllers \in [Runs -> ControllerType]
      BY ChainFields, RunCounts, SetIdsShown, SMT
    <2>2. k[1].sets = ch.controllers[1].sets \cup {s} /\ k[1].modules = ch.controllers[1].modules
      BY <1>3, <2>1, Registered
    <2> QED BY <2>2
  <1>5. /\ T.stack = 1 /\ T.tokens = 1 /\ T.pending = t.modules /\ T.isLocked = FALSE
        /\ \A c \in Components : T.balance[c] = 0
        /\ T.storage.totalSupply = 0 /\ ~Handled(T)
    <2>1. /\ T.stack = t.stack /\ T.tokens = t.tokens /\ T.pending = t.modules
          /\ T.isLocked = FALSE /\ T.balance = [c \in Components |-> 0]
          /\ T.storage.totalSupply = 0 /\ Plainly(T)
      BY NewSetTokenShown
    <2> HIDE DEF T
    <2>2. ~Handled(T)
      BY <2>1 DEF Plainly
    <2>3. \A c \in Components : T.balance[c] = 0
      BY <2>1
    <2> QED BY <2>1, <2>2, <2>3
  <1> HIDE DEF T, k
  <1>6. n.controllers = k /\ n.sets = Append(ch.sets, T) /\ n.wallet = ch.wallet /\ n.allowance = ch.allowance
    BY <1>2 DEF Shows
  <1>7. /\ DOMAIN n.sets = 1 .. s /\ n.sets[s] = T
        /\ \A x \in DOMAIN n.sets \ {s} : x \in DOMAIN ch.sets /\ n.sets[x] = ch.sets[x]
    <2>1. ch.sets \in Seq(Sound) /\ Len(ch.sets) \in Nat /\ DOMAIN ch.sets = 1 .. Len(ch.sets)
      BY ChainFields, LenProperties
    <2> QED BY <1>6, <2>1
  <1>8. New11(n, s)
    <2>1. Registered11(n, s)
      BY <1>4, <1>6, <1>7 DEF Registered11
    <2>2. Modules11(T, 1)
      BY <1>5 DEF Modules11
    <2> QED BY <1>5, <1>7, <2>1, <2>2 DEF New11
  <1>9. LaunchStep(ch, n)
    <2>1. n.sets = Append(ch.sets, NewSetToken(t))
      BY <1>6 DEF T
    <2>2. n.controllers = Register(ch.controllers, t.stack, Len(ch.sets) + 1)
      BY <1>6 DEF k
    <2> QED BY <2>1, <2>2, CreationStep
  <1> QED BY <1>6, <1>8, <1>9

LEMMA Create11 ==
    ASSUME NEW s \in SetIds, NEW ch, ChainInv(ch), NEW q, q = Deployed11 + 11, Phase11(ch, q, s),
           NEW t \in Tx, t.fn = "create", t.stack = 1, t.tokens = 1,
           t.modules = {<<IssuanceModule, 1>>, <<ManageModule, 1>>},
           NEW n, n = Execute(ch, t)
    PROVE  Follows11(ch, t, n, q, s)
  <1>1. q \in Nat /\ q <= Deployed11 + 11 /\ q >= Deployed11 + 10
    BY PhaseNumbers, SMT
  <1>2. /\ ch.sets = << >> /\ s = 1 /\ Controller11(ch.controllers[1], q)
        /\ Funded11(ch.wallet, ch.allowance, q)
    BY <1>1, Founded11
  <1>3. /\ ch.controllers[1].initialized /\ ch.controllers[1].hasFactory
        /\ <<IssuanceModule, 1>> \in ch.controllers[1].modules
        /\ <<ManageModule, 1>> \in ch.controllers[1].modules
    BY <1>1, <1>2 DEF Controller11
  <1>4. Succeeds(ch, t)
    BY <1>3 DEF Succeeds, CanCreate
  <1>5. s = Len(ch.sets) + 1 /\ \A x \in DOMAIN ch.sets : Untouched(ch.sets[x])
    BY <1>2
  <1>6. /\ New11(n, s) /\ n.wallet = ch.wallet /\ n.allowance = ch.allowance
        /\ LaunchStep(ch, n)
    BY <1>3, <1>4, <1>5, Another11
  <1>7. Funded11(n.wallet, n.allowance, q + 1)
    <2>1. \A c \in Components : ~(Deployed11 + 13 + c < q + 1) /\ 2 * c - 1 < q
      BY PhaseNumbers, SMT
    <2> QED BY <1>2, <1>6, <2>1 DEF Funded11
  <1>8. q + 1 \in Nat /\ Deployed11 + 12 <= q + 1 /\ q + 1 <= Approved11 + 1
    BY PhaseNumbers, SMT
  <1>9. Phase11(n, q + 1, s)
    BY <1>6, <1>7, <1>8, Arriving11
  <1> QED BY <1>4, <1>6, <1>9 DEF Follows11

\* A stranger's copy, before the script reads the address, takes the place of its Set.
LEMMA Copy11 ==
    ASSUME NEW s \in SetIds, s + 1 \in SetIds, NEW ch, ChainInv(ch),
           NEW q, q = Deployed11 + 13, Phase11(ch, q, s),
           NEW t \in Tx, t.fn = "create", t.stack = 1, t.tokens = 1,
           t.modules = {<<IssuanceModule, 1>>, <<ManageModule, 1>>}, Succeeds(ch, t),
           NEW n, n = Execute(ch, t)
    PROVE  Phase11(n, q, s + 1) /\ LaunchStep(ch, n)
  <1>1. /\ q \in Nat /\ Deployed11 + 12 <= q /\ q <= Approved11 /\ q <= Approved11 + 1
        /\ ~(q <= Deployed11 + 11)
    BY PhaseNumbers, SMT
  <1>2. New11(ch, s) /\ Funded11(ch.wallet, ch.allowance, q)
    BY <1>1, Waiting11
  <1>3. /\ {<<IssuanceModule, 1>>, <<ManageModule, 1>>} \subseteq ch.controllers[1].modules
        /\ \A x \in DOMAIN ch.sets : Untouched(ch.sets[x])
    BY <1>2 DEF New11, Registered11, Untouched
  <1>4. s + 1 = Len(ch.sets) + 1
    <2>1. DOMAIN ch.sets = 1 .. s /\ s \in Nat
      BY <1>2, SetIdsShown DEF New11, Registered11
    <2>2. Len(ch.sets) \in Nat /\ DOMAIN ch.sets = 1 .. Len(ch.sets)
      BY ChainFields, LenProperties
    <2> QED BY <2>1, <2>2, SMT
  <1>5. /\ New11(n, s + 1) /\ n.wallet = ch.wallet /\ n.allowance = ch.allowance
        /\ LaunchStep(ch, n)
    BY <1>3, <1>4, Another11
  <1>6. Phase11(n, q, s + 1)
    BY <1>1, <1>2, <1>5, Arriving11
  <1> QED BY <1>5, <1>6

LEMMA ApproveUnits11 ==
    ASSUME NEW s \in SetIds, NEW ch, ChainInv(ch),
           NEW c \in Components, NEW q, q = Deployed11 + 13 + c, Phase11(ch, q, s),
           NEW t \in Tx, t.fn = "approve", t.kind = IssuanceModule, t.stack = 1, t.tokens = 1,
           t.token = c, t.quantity = _units[c], NEW n, n = Execute(ch, t)
    PROVE  Follows11(ch, t, n, q, s)
  <1> DEFINE A == [ch.allowance EXCEPT ![Module(t)][t.tokens][t.token] = t.quantity]
  <1>1. q \in Nat /\ Deployed11 + 12 <= q /\ q <= Approved11
    BY PhaseNumbers, SMT
  <1>2. New11(ch, s) /\ Funded11(ch.wallet, ch.allowance, q)
    BY <1>1, Waiting11
  <1>3. n = Approve(ch, t) /\ Succeeds(ch, t)
    BY DEF Execute, Succeeds, Effect
  <1>4. Shows(n, ch.controllers, ch.sets, ch.wallet, A)
    BY <1>3, ApproveShown
  <1>5. n.controllers = ch.controllers /\ n.sets = ch.sets /\ n.wallet = ch.wallet /\ n.allowance = A
    BY <1>4 DEF Shows
  <1>6. \A x \in Components : A[<<IssuanceModule, 1>>][1][x] =
            IF x = c THEN _units[c] ELSE ch.allowance[<<IssuanceModule, 1>>][1][x]
    <2>1. ch.allowance \in [{IssuanceModule, ManageModule} \X Runs -> [Runs -> [Components -> Int]]]
      BY ChainFields
    <2>2. <<IssuanceModule, 1>> \in {IssuanceModule, ManageModule} \X Runs /\ 1 \in Runs
      BY RunCounts, SMT
    <2>3. Module(t) = <<IssuanceModule, 1>>
      BY DEF Module
    <2> QED BY <2>1, <2>2, <2>3
  <1> HIDE DEF A
  <1>7. Funded11(n.wallet, n.allowance, q + 1)
    <2>1. \A x \in Components : /\ 2 * x - 1 < q
                                /\ Deployed11 + 13 + x < q + 1 => x = c \/ Deployed11 + 13 + x < q
      BY PhaseNumbers, SMT
    <2> QED BY <1>2, <1>5, <1>6, <2>1 DEF Funded11
  <1>8. New11(n, s)
    BY <1>2, <1>5 DEF New11, Registered11
  <1>9. q + 1 \in Nat /\ Deployed11 + 12 <= q + 1 /\ q + 1 <= Approved11 + 1
    BY PhaseNumbers, SMT
  <1>10. Phase11(n, q + 1, s)
    BY <1>7, <1>8, <1>9, Arriving11
  <1>11. LaunchStep(ch, n)
    BY IdleStep DEF Idle, LaunchStep
  <1> QED BY <1>3, <1>10, <1>11 DEF Follows11

-----------------------------------------------------------------------------
(* What each instruction of script 11 is                                     *)

LEMMA CoreReads ==
    /\ \A k \in {1, 3, 5, 7} : \E kind \in Kinds \ {"token"} :
            Reads(CoreSystem11[k], "deploy", "deploy", kind, 0, 0, {}, FALSE)
    /\ \A k \in {2, 4, 6, 8} : CoreSystem11[k].op = "deployed"
    /\ Reads(CoreSystem11[9], "call", "initialize", "controller", 0, 0, {IssuanceModule}, TRUE)
    /\ Reads(CoreSystem11[10], "call", "addModule", ManageModule, 0, 0, {}, TRUE)
  <1>1. /\ CoreSystem11[1] = Deploy("controller") /\ CoreSystem11[3] = Deploy("setTokenCreator")
        /\ CoreSystem11[5] = Deploy(IssuanceModule) /\ CoreSystem11[7] = Deploy(ManageModule)
    BY DEF CoreSystem11, deployController, deploySetTokenCreator, deployBasicIssuanceModule,
           deployComponentManageModule
  <1>2. /\ CoreSystem11[2] = AwaitDeployed("controller") /\ CoreSystem11[4] = AwaitDeployed("setTokenCreator")
        /\ CoreSystem11[6] = AwaitDeployed(IssuanceModule) /\ CoreSystem11[8] = AwaitDeployed(ManageModule)
    BY DEF CoreSystem11
  <1>3. /\ CoreSystem11[9] = initialize({IssuanceModule})
        /\ CoreSystem11[10] = Call("addModule", ManageModule)
    BY DEF CoreSystem11
  <1>4. {"controller", "setTokenCreator", IssuanceModule, ManageModule} \subseteq Kinds \ {"token"}
    BY DEF Kinds, IssuanceModule, ManageModule
  <1>5. \A kind \in Kinds \ {"token"} :
            /\ Reads(Deploy(kind), "deploy", "deploy", kind, 0, 0, {}, FALSE)
            /\ AwaitDeployed(kind).op = "deployed"
    BY DeployReads DEF Reads
  <1>6. \A k \in {1, 3, 5, 7} : \E kind \in Kinds \ {"token"} : CoreSystem11[k] = Deploy(kind)
    BY <1>1, <1>4
  <1>7. \A k \in {2, 4, 6, 8} : \E kind \in Kinds \ {"token"} : CoreSystem11[k] = AwaitDeployed(kind)
    BY <1>2, <1>4
  <1>8. /\ Reads(CoreSystem11[9], "call", "initialize", "controller", 0, 0, {IssuanceModule}, TRUE)
        /\ Reads(CoreSystem11[10], "call", "addModule", ManageModule, 0, 0, {}, TRUE)
    BY <1>3, CallsRead
  <1>9. \A k \in {1, 3, 5, 7} :
            \E kind \in Kinds \ {"token"} : Reads(CoreSystem11[k], "deploy", "deploy", kind, 0, 0, {}, FALSE)
    BY <1>5, <1>6
  <1>10. \A k \in {2, 4, 6, 8} : CoreSystem11[k].op = "deployed"
    BY <1>5, <1>7
  <1> QED BY <1>8, <1>9, <1>10

LEMMA CreateReads ==
    /\ Reads(CreateSet11[1], "call", "create", "setTokenCreator", 0, 0, {IssuanceModule, ManageModule}, TRUE)
    /\ CreateSet11[2].op = "wait" /\ CreateSet11[3].op = "getCreated"
  <1>1. /\ CreateSet11[1] = create({IssuanceModule, ManageModule})
        /\ CreateSet11[2] = AwaitReceipt /\ CreateSet11[3] = getCreatedSetTokenAddress
    BY DEF CreateSet11
  <1>2. AwaitReceipt.op = "wait" /\ getCreatedSetTokenAddress.op = "getCreated"
    BY CreationFields
  <1>3. Reads(create({IssuanceModule, ManageModule}), "call", "create", "setTokenCreator", 0, 0,
              {IssuanceModule, ManageModule}, TRUE)
    BY CallsRead
  <1> QED BY <1>1, <1>2, <1>3

\* A call, leaving aside whether it is dry-run.
Asks(i, fn, kind, token, quantity) ==
    /\ i.op = "call" /\ i.fn = fn /\ i.kind = kind /\ i.token = token /\ i.quantity = quantity
    /\ i.modules = {}

\* The instructions after the approvals.
IsAct11(i, k) ==
    /\ k = 1 => Asks(i, "initializeModule", IssuanceModule, 0, 0)
    /\ k = 2 => Asks(i, "initializeModule", ManageModule, 0, 0)
    /\ k = 3 => Asks(i, "lockSetToken", ManageModule, 0, 0)
    /\ k = 4 => Asks(i, "unlockSetToken", ManageModule, 0, 0)
    /\ k = 5 => Asks(i, "issue", IssuanceModule, 0, ether(1))
    /\ k = 7 => Asks(i, "lockSetToken", ManageModule, 0, 0)
    /\ k = 8 => Asks(i, "removeFromSetToken", ManageModule, 1, halfEther)
    /\ k = 9 => Asks(i, "removeFromSetToken", ManageModule, 2, ether(2))
    /\ k = 10 => Asks(i, "unlockSetToken", ManageModule, 0, 0)
    /\ k = 11 => Asks(i, "approve", ManageModule, 2, ether(1))
    /\ k = 12 => Asks(i, "addToSetToken", ManageModule, 2, ether(1))
    /\ k = 13 => Asks(i, "approve", ManageModule, 2, ether(3))
    /\ k = 14 => Asks(i, "addToSetToken", ManageModule, 2, ether(3))
    /\ k = 15 => Asks(i, "approveController", "controller", 0, 0)
    /\ k = 16 => Asks(i, "redeem", IssuanceModule, 0, Owned)
    /\ k = 6 \/ k = 17 => i.op = "balanceOf"

LEMMA PiecesAct ==
    /\ \A k \in 1 .. 4 : IsAct11(InitializeModules11[k], k)
    /\ \A k \in 1 .. 2 : IsAct11(IssueSet11[k], 4 + k)
    /\ \A k \in 1 .. 4 : IsAct11(RemoveComponents11[k], 6 + k)
    /\ \A k \in 1 .. 4 : IsAct11(AddComponents11[k], 10 + k)
    /\ \A k \in 1 .. 3 : IsAct11(RedeemSet11[k], 14 + k)
  <1>1. IssuanceModule \in Kinds /\ ManageModule \in Kinds
    BY DEF Kinds, IssuanceModule, ManageModule
  <1>2. ReadBalance.op = "balanceOf"
    BY DEF ReadBalance, Instruction
  <1>3. /\ IsAct11(initializeModule(IssuanceModule), 1)
        /\ IsAct11(initializeModule(ManageModule), 2)
        /\ IsAct11(lockSetToken, 3)
        /\ IsAct11(unlockSetToken, 4)
    <2>1. IsAct11(initializeModule(IssuanceModule), 1)
      <3>1. Asks(initializeModule(IssuanceModule), "initializeModule", IssuanceModule, 0, 0)
        BY <1>1, CallsRead DEF Reads, Asks
      <3> QED BY <3>1, SMT DEF IsAct11
    <2>2. IsAct11(initializeModule(ManageModule), 2)
      <3>1. Asks(initializeModule(ManageModule), "initializeModule", ManageModule, 0, 0)
        BY <1>1, CallsRead DEF Reads, Asks
      <3> QED BY <3>1, SMT DEF IsAct11
    <2>3. IsAct11(lockSetToken, 3)
      <3>1. Asks(lockSetToken, "lockSetToken", ManageModule, 0, 0)
        BY <1>1, CallsRead DEF Reads, Asks
      <3> QED BY <3>1, SMT DEF IsAct11
    <2>4. IsAct11(unlockSetToken, 4)
      <3>1. Asks(unlockSetToken, "unlockSetToken", ManageModule, 0, 0)
        BY <1>1, CallsRead DEF Reads, Asks
      <3> QED BY <3>1, SMT DEF IsAct11
    <2> QED BY <2>1, <2>2, <2>3, <2>4
  <1>4. /\ IsAct11(issue(ether(1)), 5)
        /\ IsAct11(ReadBalance, 6)
    <2>1. IsAct11(issue(ether(1)), 5)
      <3>1. Asks(issue(ether(1)), "issue", IssuanceModule, 0, ether(1))
        BY <1>1, CallsRead DEF Reads, Asks
      <3> QED BY <3>1, SMT DEF IsAct11
    <2>2. IsAct11(ReadBalance, 6)
      BY <1>2, SMT DEF IsAct11
    <2> QED BY <2>1, <2>2
  <1>5. /\ IsAct11(lockSetToken, 7)
        /\ IsAct11(removeFromSetToken(1, halfEther), 8)
        /\ IsAct11(removeFromSetToken(2, ether(2)), 9)
        /\ IsAct11(unlockSetToken, 10)
    <2>1. IsAct11(lockSetToken, 7)
      <3>1. Asks(lockSetToken, "lockSetToken", ManageModule, 0, 0)
        BY <1>1, CallsRead DEF Reads, Asks
      <3> QED BY <3>1, SMT DEF IsAct11
    <2>2. IsAct11(removeFromSetToken(1, halfEther), 8)
      <3>1. Asks(removeFromSetToken(1, halfEther), "removeFromSetToken", ManageModule, 1, halfEther)
        BY <1>1, CallsRead DEF Reads, Asks
      <3> QED BY <3>1, SMT DEF IsAct11
    <2>3. IsAct11(removeFromSetToken(2, ether(2)), 9)
      <3>1. Asks(removeFromSetToken(2, ether(2)), "removeFromSetToken", ManageModule, 2, ether(2))
        BY <1>1, CallsRead DEF Reads, Asks
      <3> QED BY <3>1, SMT DEF IsAct11
    <2>4. IsAct11(unlockSetToken, 10)
      <3>1. Asks(unlockSetToken, "unlockSetToken", ManageModule, 0, 0)
        BY <1>1, CallsRead DEF Reads, Asks
      <3> QED BY <3>1, SMT DEF IsAct11
    <2> QED BY <2>1, <2>2, <2>3, <2>4
  <1>6. /\ IsAct11(approve(ManageModule, 2, ether(1)), 11)
        /\ IsAct11(addToSetToken(2, ether(1)), 12)
        /\ IsAct11(approve(ManageModule, 2, ether(3)), 13)
        /\ IsAct11(addToSetToken(2, ether(3)), 14)
    <2>1. IsAct11(approve(ManageModule, 2, ether(1)), 11)
      <3>1. Asks(approve(ManageModule, 2, ether(1)), "approve", ManageModule, 2, ether(1))
        BY <1>1, CallsRead DEF Reads, Asks
      <3> QED BY <3>1, SMT DEF IsAct11
    <2>2. IsAct11(addToSetToken(2, ether(1)), 12)
      <3>1. Asks(addToSetToken(2, ether(1)), "addToSetToken", ManageModule, 2, ether(1))
        BY <1>1, CallsRead DEF Reads, Asks
      <3> QED BY <3>1, SMT DEF IsAct11
    <2>3. IsAct11(approve(ManageModule, 2, ether(3)), 13)
      <3>1. Asks(approve(ManageModule, 2, ether(3)), "approve", ManageModule, 2, ether(3))
        BY <1>1, CallsRead DEF Reads, Asks
      <3> QED BY <3>1, SMT DEF IsAct11
    <2>4. IsAct11(addToSetToken(2, ether(3)), 14)
      <3>1. Asks(addToSetToken(2, ether(3)), "addToSetToken", ManageModule, 2, ether(3))
        BY <1>1, CallsRead DEF Reads, Asks
      <3> QED BY <3>1, SMT DEF IsAct11
    <2> QED BY <2>1, <2>2, <2>3, <2>4
  <1>7. /\ IsAct11(approveController, 15)
        /\ IsAct11(redeem(Owned), 16)
        /\ IsAct11(ReadBalance, 17)
    <2>1. IsAct11(approveController, 15)
      <3>1. Asks(approveController, "approveController", "controller", 0, 0)
        BY <1>1, CallsRead DEF Reads, Asks
      <3> QED BY <3>1, SMT DEF IsAct11
    <2>2. IsAct11(redeem(Owned), 16)
      <3>1. Asks(redeem(Owned), "redeem", IssuanceModule, 0, Owned)
        BY <1>1, CallsRead DEF Reads, Asks
      <3> QED BY <3>1, SMT DEF IsAct11
    <2>3. IsAct11(ReadBalance, 17)
      BY <1>2, SMT DEF IsAct11
    <2> QED BY <2>1, <2>2, <2>3
  <1>8. /\ 4 + 1 = 5 /\ 4 + 2 = 6 /\ 6 + 1 = 7 /\ 6 + 2 = 8 /\ 6 + 3 = 9 /\ 6 + 4 = 10
        /\ 10 + 1 = 11 /\ 10 + 2 = 12 /\ 10 + 3 = 13 /\ 10 + 4 = 14
        /\ 14 + 1 = 15 /\ 14 + 2 = 16 /\ 14 + 3 = 17
        /\ 1 .. 4 = {1, 2, 3, 4} /\ 1 .. 3 = {1, 2, 3} /\ 1 .. 2 = {1, 2}
    BY SMT
  <1> HIDE DEF IsAct11
  <1>9. \A k \in {1, 2, 3, 4} : IsAct11(InitializeModules11[k], k)
    BY <1>3 DEF InitializeModules11
  <1>10. IsAct11(IssueSet11[1], 5) /\ IsAct11(IssueSet11[2], 6)
    BY <1>4 DEF IssueSet11
  <1>11. /\ IsAct11(RemoveComponents11[1], 7) /\ IsAct11(RemoveComponents11[2], 8)
         /\ IsAct11(RemoveComponents11[3], 9) /\ IsAct11(RemoveComponents11[4], 10)
    BY <1>5 DEF RemoveComponents11
  <1>12. /\ IsAct11(AddComponents11[1], 11) /\ IsAct11(AddComponents11[2], 12)
         /\ IsAct11(AddComponents11[3], 13) /\ IsAct11(AddComponents11[4], 14)
    BY <1>6 DEF AddComponents11
  <1>13. IsAct11(RedeemSet11[1], 15) /\ IsAct11(RedeemSet11[2], 16) /\ IsAct11(RedeemSet11[3], 17)
    BY <1>7 DEF RedeemSet11
  <1> QED BY <1>8, <1>9, <1>10, <1>11, <1>12, <1>13

LEMMA Acts11 ==
    ASSUME NEW k \in 1 .. 17
    PROVE  IsAct11(Script11[Approved11 + k], k)
  <1>1. CASE k \in 1 .. 4
    BY <1>1, Places11, PiecesAct
  <1>2. CASE k \in 5 .. 6
    <2>1. k - 4 \in 1 .. 2 /\ 4 + (k - 4) = k /\ Approved11 + 4 + (k - 4) = Approved11 + k
      BY <1>2, Places11, SMT
    <2>2. Script11[Approved11 + 4 + (k - 4)] = IssueSet11[k - 4]
      BY <2>1, Places11
    <2>3. IsAct11(IssueSet11[k - 4], 4 + (k - 4))
      BY <2>1, PiecesAct
    <2> QED BY <2>1, <2>2, <2>3
  <1>3. CASE k \in 7 .. 10
    <2>1. k - 6 \in 1 .. 4 /\ 6 + (k - 6) = k /\ Approved11 + 6 + (k - 6) = Approved11 + k
      BY <1>3, Places11, SMT
    <2>2. Script11[Approved11 + 6 + (k - 6)] = RemoveComponents11[k - 6]
      BY <2>1, Places11
    <2>3. IsAct11(RemoveComponents11[k - 6], 6 + (k - 6))
      BY <2>1, PiecesAct
    <2> QED BY <2>1, <2>2, <2>3
  <1>4. CASE k \in 11 .. 14
    <2>1. k - 10 \in 1 .. 4 /\ 10 + (k - 10) = k /\ Approved11 + 10 + (k - 10) = Approved11 + k
      BY <1>4, Places11, SMT
    <2>2. Script11[Approved11 + 10 + (k - 10)] = AddComponents11[k - 10]
      BY <2>1, Places11
    <2>3. IsAct11(AddComponents11[k - 10], 10 + (k - 10))
      BY <2>1, PiecesAct
    <2> QED BY <2>1, <2>2, <2>3
  <1>5. CASE k \in 15 .. 17
    <2>1. k - 14 \in 1 .. 3 /\ 14 + (k - 14) = k /\ Approved11 + 14 + (k - 14) = Approved11 + k
      BY <1>5, Places11, SMT
    <2>2. Script11[Approved11 + 14 + (k - 14)] = RedeemSet11[k - 14]
      BY <2>1, Places11
    <2>3. IsAct11(RedeemSet11[k - 14], 14 + (k - 14))
      BY <2>1, PiecesAct
    <2> QED BY <2>1, <2>2, <2>3
  <1>6. k \in 1 .. 4 \/ k \in 5 .. 6 \/ k \in 7 .. 10 \/ k \in 11 .. 14 \/ k \in 15 .. 17
    BY SMT
  <1> QED BY <1>1, <1>2, <1>3, <1>4, <1>5, <1>6

\* Every instruction has a place.
LEMMA Where11 ==
    ASSUME NEW q \in 1 .. Len(Script11)
    PROVE  \/ \E c \in Components : q = 2 * c - 1 \/ q = 2 * c
           \/ q = Deployed11
           \/ \E k \in 1 .. 10 : q = Deployed11 + k
           \/ \E k \in 1 .. 3 : q = Deployed11 + 10 + k
           \/ \E c \in Components : q = Deployed11 + 13 + c
           \/ \E k \in 1 .. 17 : q = Approved11 + k
  <1>1. q \in Nat /\ q >= 1 /\ q <= Approved11 + 17
    BY Places11, SMT
  <1>2. CASE q < Deployed11
    <2>1. (q + 1) \div 2 \in Components /\ (q = 2 * ((q + 1) \div 2) - 1 \/ q = 2 * ((q + 1) \div 2))
      BY <1>1, <1>2, PhaseNumbers, SMT
    <2> QED BY <2>1
  <1>3. CASE q > Deployed11 /\ q <= Deployed11 + 10
    <2>1. q - Deployed11 \in 1 .. 10 /\ q = Deployed11 + (q - Deployed11)
      BY <1>1, <1>3, PhaseNumbers, SMT
    <2> QED BY <2>1
  <1>4. CASE q > Deployed11 + 10 /\ q <= Deployed11 + 13
    <2>1. q - (Deployed11 + 10) \in 1 .. 3 /\ q = Deployed11 + 10 + (q - (Deployed11 + 10))
      BY <1>1, <1>4, PhaseNumbers, SMT
    <2> QED BY <2>1
  <1>5. CASE q > Deployed11 + 13 /\ q <= Approved11
    <2>1. q - (Deployed11 + 13) \in Components /\ q = Deployed11 + 13 + (q - (Deployed11 + 13))
      BY <1>1, <1>5, PhaseNumbers, SMT
    <2> QED BY <2>1
  <1>6. CASE q > Approved11
    <2>1. q - Approved11 \in 1 .. 17 /\ q = Approved11 + (q - Approved11)
      BY <1>1, <1>6, PhaseNumbers, SMT
    <2> QED BY <2>1
  <1>7. \/ q < Deployed11 \/ q = Deployed11 \/ (q > Deployed11 /\ q <= Deployed11 + 10)
        \/ (q > Deployed11 + 10 /\ q <= Deployed11 + 13)
        \/ (q > Deployed11 + 13 /\ q <= Approved11) \/ q > Approved11
    BY <1>1, PhaseNumbers, SMT
  <1> QED BY <1>2, <1>3, <1>4, <1>5, <1>6, <1>7

-----------------------------------------------------------------------------
(* A transaction that script 11 sends at its q-th instruction                *)

Sent11(t, q, s) ==
    LET i == Script11[q]
    IN  /\ q \in 1 .. Len(Script11) /\ i.op \in {"call", "deploy"}
        /\ t.fn = i.fn /\ t.kind = i.kind /\ t.token = i.token /\ t.run = 1 /\ t.stack = 1
        /\ t.quantity = i.quantity \/ (i.quantity = Owned /\ t.quantity \in {0, ether(1)})
        /\ t.modules = IF t.fn = "initialize" THEN i.modules ELSE {<<m, 1>> : m \in i.modules}
        /\ Deployed11 < q => t.tokens = 1
        /\ Approved11 < q => t.set = s

LEMMA Acting11 ==
    ASSUME NEW s \in SetIds, NEW k \in 1 .. 16, k # 6, NEW ch, ChainInv(ch), Phase11(ch, Approved11 + k, s),
           NEW t \in Tx, Sent11(t, Approved11 + k, s), NEW n, n = Execute(ch, t)
    PROVE  Follows11(ch, t, n, Approved11 + k, s)
  <1> DEFINE i == Script11[Approved11 + k]
  <1>1. State11(ch, k, s)
    <2>1. k \in 1 .. 17 /\ k # 17
      BY SMT
    <2> QED BY <2>1, Launched11
  <1>2. IsAct11(i, k)
    <2>1. k \in 1 .. 17
      BY SMT
    <2> QED BY <2>1, Acts11
  <1>3. /\ t.fn = i.fn /\ t.kind = i.kind /\ t.token = i.token /\ t.stack = 1 /\ t.set = s /\ t.tokens = 1
        /\ t.quantity = i.quantity \/ (i.quantity = Owned /\ t.quantity \in {0, ether(1)})
    <2>1. Approved11 < Approved11 + k /\ Deployed11 < Approved11 + k
      BY PhaseNumbers, SMT
    <2> QED BY <2>1 DEF Sent11
  <1> HIDE DEF i
  <1>4. ASSUME NEW fn, NEW kind, NEW token, NEW quantity \in Nat, Asks(i, fn, kind, token, quantity)
        PROVE  To11(t, fn, kind, token, quantity, s)
    <2>1. quantity # Owned
      BY SMT DEF Owned
    <2> QED BY <1>3, <1>4, <2>1 DEF Asks, To11
  <1>5. ASSUME Leads11(ch, t, n, k, s) PROVE Follows11(ch, t, n, Approved11 + k, s)
    <2>1. State11(n, k + 1, s) /\ LaunchStep(ch, n) /\ Succeeds(ch, t)
      BY <1>5 DEF Leads11
    <2>2. CASE k # 16
      <3>1. k + 1 \in 1 .. 16 /\ Approved11 + (k + 1) = Approved11 + k + 1
        BY <2>2, PhaseNumbers, SMT
      <3>2. Phase11(n, Approved11 + (k + 1), s)
        BY <2>1, <3>1, Launching11
      <3> QED BY <2>1, <3>1, <3>2 DEF Follows11
    <2>3. CASE k = 16
      <3>1. State11(n, 16, s)
        <4>1. State11(n, 17, s)
          BY <2>1, <2>3
        <4>2. /\ Registered11(n, s) /\ Modules11(n.sets[s], 17)
              /\ Account11(n.sets[s], n.wallet, n.allowance, 17)
          BY <4>1 DEF State11
        <4>3. Modules11(n.sets[s], 16)
          BY <4>2, SMT DEF Modules11
        <4>4. Account11(n.sets[s], n.wallet, n.allowance, 16)
          BY <4>2, SMT DEF Account11
        <4> QED BY <4>2, <4>3, <4>4 DEF State11
      <3>2. Phase11(n, Approved11 + k + 1, s)
        BY <2>3, <3>1, Launching11
      <3> QED BY <2>1, <3>2 DEF Follows11
    <2> QED BY <2>2, <2>3
  <1>6. 0 \in Nat /\ ether(1) \in Nat /\ ether(2) \in Nat /\ ether(3) \in Nat /\ halfEther \in Nat
    BY EtherFacts, HalfEther
  <1>7. CASE k \in {1, 2}
    <2>1. To11(t, "initializeModule", IF k = 1 THEN IssuanceModule ELSE ManageModule, 0, 0, s)
      <3>1. CASE k = 1
        <4>1. Asks(i, "initializeModule", IssuanceModule, 0, 0)
          BY <1>2, <3>1 DEF IsAct11
        <4> QED BY <1>4, <1>6, <3>1, <4>1
      <3>2. CASE k = 2
        <4>1. Asks(i, "initializeModule", ManageModule, 0, 0)
          BY <1>2, <3>2 DEF IsAct11
        <4> QED BY <1>4, <1>6, <3>2, <4>1
      <3> QED BY <1>7, <3>1, <3>2
    <2> QED BY <1>1, <1>5, <1>7, <2>1, Initialize11
  <1>8. CASE k \in {3, 4, 7, 10}
    <2>1. To11(t, IF k \in {3, 7} THEN "lockSetToken" ELSE "unlockSetToken", ManageModule, 0, 0, s)
      <3>1. CASE k \in {3, 7}
        <4>1. Asks(i, "lockSetToken", ManageModule, 0, 0)
          BY <1>2, <3>1 DEF IsAct11
        <4> QED BY <1>4, <1>6, <3>1, <4>1
      <3>2. CASE k \in {4, 10}
        <4>1. Asks(i, "unlockSetToken", ManageModule, 0, 0)
          BY <1>2, <3>2 DEF IsAct11
        <4>2. k \notin {3, 7}
          BY <3>2
        <4> QED BY <1>4, <1>6, <4>1, <4>2
      <3> QED BY <1>8, <3>1, <3>2
    <2> QED BY <1>1, <1>5, <1>8, <2>1, Lock11
  <1>9. CASE k = 5
    <2>1. Asks(i, "issue", IssuanceModule, 0, ether(1))
      BY <1>2, <1>9 DEF IsAct11
    <2>2. To11(t, "issue", IssuanceModule, 0, ether(1), s)
      BY <1>4, <1>6, <2>1
    <2>3. Leads11(ch, t, n, 5, s)
      BY <1>1, <1>9, <2>2, Issue11
    <2> QED BY <1>5, <1>9, <2>3
  <1>10. CASE k \in {8, 9}
    <2>1. k = 8 => To11(t, "removeFromSetToken", ManageModule, 1, halfEther, s)
      <3>1. k = 8 => Asks(i, "removeFromSetToken", ManageModule, 1, halfEther)
        BY <1>2 DEF IsAct11
      <3> QED BY <1>4, <1>6, <3>1
    <2>2. k = 9 => To11(t, "removeFromSetToken", ManageModule, 2, ether(2), s)
      <3>1. k = 9 => Asks(i, "removeFromSetToken", ManageModule, 2, ether(2))
        BY <1>2 DEF IsAct11
      <3> QED BY <1>4, <1>6, <3>1
    <2> QED BY <1>1, <1>5, <1>10, <2>1, <2>2, Remove11
  <1>11. CASE k \in {11, 13}
    <2>1. To11(t, "approve", ManageModule, 2, ether(IF k = 11 THEN 1 ELSE 3), s)
      <3>1. CASE k = 11
        <4>1. Asks(i, "approve", ManageModule, 2, ether(1))
          BY <1>2, <3>1 DEF IsAct11
        <4> QED BY <1>4, <1>6, <3>1, <4>1
      <3>2. CASE k = 13
        <4>1. Asks(i, "approve", ManageModule, 2, ether(3))
          BY <1>2, <3>2 DEF IsAct11
        <4> QED BY <1>4, <1>6, <3>2, <4>1
      <3> QED BY <1>11, <3>1, <3>2
    <2> QED BY <1>1, <1>5, <1>11, <2>1, Approve11
  <1>12. CASE k \in {12, 14}
    <2>1. To11(t, "addToSetToken", ManageModule, 2, ether(IF k = 12 THEN 1 ELSE 3), s)
      <3>1. CASE k = 12
        <4>1. Asks(i, "addToSetToken", ManageModule, 2, ether(1))
          BY <1>2, <3>1 DEF IsAct11
        <4> QED BY <1>4, <1>6, <3>1, <4>1
      <3>2. CASE k = 14
        <4>1. Asks(i, "addToSetToken", ManageModule, 2, ether(3))
          BY <1>2, <3>2 DEF IsAct11
        <4> QED BY <1>4, <1>6, <3>2, <4>1
      <3> QED BY <1>12, <3>1, <3>2
    <2> QED BY <1>1, <1>5, <1>12, <2>1, Add11
  <1>13. CASE k = 15
    <2>1. Asks(i, "approveController", "controller", 0, 0)
      BY <1>2, <1>13 DEF IsAct11
    <2>2. t.fn = "approveController"
      BY <1>3, <2>1 DEF Asks
    <2>3. Leads11(ch, t, n, 15, s)
      BY <1>1, <1>13, <2>2, Nothing11
    <2> QED BY <1>5, <1>13, <2>3
  <1>14. CASE k = 16
    <2>1. Asks(i, "redeem", IssuanceModule, 0, Owned)
      BY <1>2, <1>14 DEF IsAct11
    <2>2. t.fn = "redeem" /\ t.quantity \in {0, ether(1)}
      <3>1. t.quantity \in Nat /\ Owned \notin Nat
        BY TxFields, SMT DEF Owned
      <3> QED BY <1>3, <2>1, <3>1 DEF Asks
    <2>3. ~Succeeds(ch, t)
      BY <1>1, <1>3, <1>14, <2>2, Redeem11
    <2>4. n = [ch EXCEPT !.reverted = @ \cup {t}]
      BY <2>3 DEF Execute
    <2>5. /\ n.sets = ch.sets /\ n.controllers = ch.controllers
          /\ n.wallet = ch.wallet /\ n.allowance = ch.allowance
      BY <2>4
    <2>6. LaunchStep(ch, n)
      BY <2>3, IdleStep DEF LaunchStep
    <2>7. Phase11(ch, Approved11 + k + 1, s)
      BY <1>1, <1>14, Launching11
    <2>8. Phase11(n, Approved11 + k + 1, s)
      BY <2>5, <2>7, PhaseOfFields
    <2> QED BY <2>2, <2>6, <2>8 DEF Follows11
  <1>15. \/ k \in {1, 2} \/ k \in {3, 4, 7, 10} \/ k = 5 \/ k \in {8, 9} \/ k \in {11, 13}
         \/ k \in {12, 14} \/ k = 15 \/ k = 16
    BY SMT
  <1> QED BY <1>7, <1>8, <1>9, <1>10, <1>11, <1>12, <1>13, <1>14, <1>15

\* Every transaction of the script, when it is mined.
LEMMA Step11 ==
    ASSUME NEW s \in SetIds, NEW q, NEW ch, ChainInv(ch), Phase11(ch, q, s),
           NEW t \in Tx, Sent11(t, q, s), NEW n, n = Execute(ch, t)
    PROVE  Follows11(ch, t, n, q, s)
  <1> DEFINE i == Script11[q]
  <1>1. /\ q \in 1 .. Len(Script11) /\ i.op \in {"call", "deploy"}
        /\ t.fn = i.fn /\ t.kind = i.kind /\ t.token = i.token /\ t.run = 1 /\ t.stack = 1
        /\ t.quantity = i.quantity \/ (i.quantity = Owned /\ t.quantity \in {0, ether(1)})
        /\ t.modules = IF t.fn = "initialize" THEN i.modules ELSE {<<m, 1>> : m \in i.modules}
        /\ Deployed11 < q => t.tokens = 1
    BY DEF Sent11
  <1>2. q \in Nat
    <2>1. q \in 1 .. Len(Script11) /\ Len(Script11) \in Nat
      BY <1>1, Places11, LenProperties
    <2> QED BY <2>1, SMT
  <1> HIDE DEF i
  <1>3. ASSUME NEW c \in Components, q = 2 * c - 1 PROVE Follows11(ch, t, n, q, s)
    <2>1. i = deployTokenMock(c)
      BY <1>3, Places11 DEF i
    <2>2. i.fn = "deploy" /\ i.kind = "token" /\ i.token = c
      BY <2>1, TokenMockReads DEF Reads
    <2>3. q <= Deployed11 + 8
      BY <1>3, PhaseNumbers, SMT
    <2> QED BY <1>1, <1>2, <1>3, <2>2, <2>3, Deploy11
  <1>4. ASSUME NEW c \in Components, q = 2 * c PROVE FALSE
    <2>1. i = Deployed(deployTokenMock(c))
      BY <1>4, Places11 DEF i
    <2>2. i.op = "deployed"
      BY <2>1, TokenMockReads DEF Reads
    <2> QED BY <1>1, <2>2
  <1>5. q # Deployed11
    <2>1. q = Deployed11 => i.op = "getBalances"
      <3>1. getBalances.op = "getBalances"
        BY DEF getBalances, Instruction
      <3> QED BY <3>1, Places11 DEF i
    <2> QED BY <1>1, <2>1
  <1>6. ASSUME NEW k \in 1 .. 10, q = Deployed11 + k PROVE Follows11(ch, t, n, q, s)
    <2>1. i = CoreSystem11[k]
      BY <1>6, Places11 DEF i
    <2>2. CASE k \in {1, 3, 5, 7}
      <3>1. PICK kind \in Kinds \ {"token"} : Reads(i, "deploy", "deploy", kind, 0, 0, {}, FALSE)
        BY <2>1, <2>2, CoreReads
      <3>2. t.fn = "deploy" /\ t.kind # "token"
        BY <1>1, <3>1 DEF Reads
      <3>3. q <= Deployed11 + 8 /\ \A c \in Components : q # 2 * c - 1
        BY <1>6, <2>2, PhaseNumbers, SMT
      <3> QED BY <1>1, <1>2, <3>2, <3>3, Deploy11
    <2>3. CASE k \in {2, 4, 6, 8}
      <3>1. i.op = "deployed"
        BY <2>1, <2>3, CoreReads
      <3> QED BY <1>1, <3>1
    <2>4. CASE k = 9
      <3>1. i.fn = "initialize" /\ i.modules = {IssuanceModule}
        BY <2>1, <2>4, CoreReads DEF Reads
      <3>2. q = Deployed11 + 9 /\ t.fn = "initialize" /\ t.modules = {IssuanceModule} /\ t.run = 1
        BY <1>1, <1>6, <2>4, <3>1
      <3> QED BY <3>2, InitializeController11
    <2>5. CASE k = 10
      <3>1. i.fn = "addModule" /\ i.kind = ManageModule
        BY <2>1, <2>5, CoreReads DEF Reads
      <3>2. q = Deployed11 + 10 /\ t.fn = "addModule" /\ t.kind = ManageModule /\ t.run = 1
        BY <1>1, <1>6, <2>5, <3>1
      <3> QED BY <3>2, AddModule11
    <2>6. k \in {1, 3, 5, 7} \/ k \in {2, 4, 6, 8} \/ k = 9 \/ k = 10
      BY SMT
    <2> QED BY <2>2, <2>3, <2>4, <2>5, <2>6
  <1>7. ASSUME NEW k \in 1 .. 3, q = Deployed11 + 10 + k PROVE Follows11(ch, t, n, q, s)
    <2>1. i = CreateSet11[k]
      BY <1>7, Places11 DEF i
    <2>2. CASE k = 1
      <3>1. i.fn = "create" /\ i.modules = {IssuanceModule, ManageModule}
        BY <2>1, <2>2, CreateReads DEF Reads
      <3>2. q = Deployed11 + 11 /\ Deployed11 < q
        BY <1>7, <2>2, PhaseNumbers, SMT
      <3>3. t.fn = "create" /\ t.modules = {<<m, 1>> : m \in {IssuanceModule, ManageModule}}
            /\ t.stack = 1 /\ t.tokens = 1
        BY <1>1, <3>1, <3>2
      <3>4. t.modules = {<<IssuanceModule, 1>>, <<ManageModule, 1>>}
        BY <3>3
      <3> QED BY <3>2, <3>3, <3>4, Create11
    <2>3. CASE k # 1
      <3>1. k = 2 \/ k = 3
        BY <2>3, SMT
      <3>2. i.op \in {"wait", "getCreated"}
        BY <2>1, <3>1, CreateReads
      <3> QED BY <1>1, <3>2
    <2> QED BY <2>2, <2>3
  <1>8. ASSUME NEW c \in Components, q = Deployed11 + 13 + c PROVE Follows11(ch, t, n, q, s)
    <2>1. i = approve(IssuanceModule, c, _units[c])
      BY <1>8, Places11 DEF i
    <2>2. IssuanceModule \in Kinds
      BY DEF Kinds, IssuanceModule
    <2>3. i.fn = "approve" /\ i.kind = IssuanceModule /\ i.token = c /\ i.quantity = _units[c]
      BY <2>1, <2>2, CallsRead DEF Reads
    <2>4. _units[c] \in Nat /\ _units[c] # Owned
      <3>1. Owned \notin Nat
        BY SMT DEF Owned
      <3>2. _units[c] \in Nat
        BY EtherNat
      <3> QED BY <3>1, <3>2
    <2>5. Deployed11 < q
      BY <1>8, PhaseNumbers, SMT
    <2>6. /\ t.fn = "approve" /\ t.kind = IssuanceModule /\ t.stack = 1 /\ t.tokens = 1
          /\ t.token = c /\ t.quantity = _units[c]
      BY <1>1, <2>3, <2>4, <2>5
    <2> QED BY <1>8, <2>6, ApproveUnits11
  <1>9. ASSUME NEW k \in 1 .. 17, q = Approved11 + k PROVE Follows11(ch, t, n, q, s)
    <2>1. IsAct11(i, k)
      BY <1>9, Acts11 DEF i
    <2>2. k # 6 /\ k # 17
      BY <1>1, <2>1 DEF IsAct11
    <2>3. k \in 1 .. 16
      BY <2>2, SMT
    <2> QED BY <1>9, <2>2, <2>3, Acting11
  <1> QED BY <1>1, <1>3, <1>4, <1>5, <1>6, <1>7, <1>8, <1>9, Where11

\* An instruction that sends nothing finds what the next one does.
LEMMA Quiet11 ==
    ASSUME NEW s \in SetIds, NEW q \in 1 .. Len(Script11), Script11[q].op \notin {"call", "deploy"},
           NEW ch, Phase11(ch, q, s)
    PROVE  Phase11(ch, q + 1, s)
  <1> DEFINE i == Script11[q]
  <1>1. q \in Nat /\ i.op \notin {"call", "deploy"}
    BY Places11, SMT
  <1> HIDE DEF i
  <1>2. ASSUME q <= Deployed11 + 8, \A c \in Components : q # 2 * c - 1
        PROVE  Phase11(ch, q + 1, s)
    <2>1. /\ q <= Deployed11 + 9 /\ ~(q + 1 >= Deployed11 + 10) /\ q <= Deployed11 + 11
          /\ q + 1 # Deployed11 + 10 /\ q + 1 # Deployed11 + 11
          /\ q + 1 \in Nat /\ q + 1 <= Deployed11 + 11
          /\ \A c \in Components : /\ ~(Deployed11 + 13 + c < q + 1)
                                   /\ 2 * c - 1 < q + 1 => 2 * c - 1 < q
      BY <1>1, <1>2, PhaseNumbers, SMT
    <2>2. /\ ch.sets = << >> /\ s = 1 /\ Controller11(ch.controllers[1], q)
          /\ Funded11(ch.wallet, ch.allowance, q)
      BY <1>1, <2>1, Founded11
    <2>3. Controller11(ch.controllers[1], q + 1)
      BY <2>1, <2>2 DEF Controller11
    <2>4. Funded11(ch.wallet, ch.allowance, q + 1)
      BY <2>1, <2>2 DEF Funded11
    <2> QED BY <2>1, <2>2, <2>3, <2>4, Founding11
  <1>3. ASSUME NEW c \in Components, q = 2 * c - 1 PROVE FALSE
    <2>1. i = deployTokenMock(c)
      BY <1>3, Places11 DEF i
    <2>2. i.op = "deploy"
      BY <2>1, TokenMockReads DEF Reads
    <2> QED BY <1>1, <2>2
  <1>4. CASE q <= Deployed11 + 8
    BY <1>2, <1>3, <1>4
  <1>5. ASSUME NEW k \in 1 .. 10, q = Deployed11 + k PROVE q <= Deployed11 + 8
    <2>1. i = CoreSystem11[k]
      BY <1>5, Places11 DEF i
    <2>2. k # 9 /\ k # 10
      <3>1. CoreSystem11[9].op = "call" /\ CoreSystem11[10].op = "call"
        BY CoreReads DEF Reads
      <3> QED BY <1>1, <2>1, <3>1
    <2> QED BY <1>5, <2>2, PhaseNumbers, SMT
  <1>6. ASSUME NEW k \in 1 .. 3, q = Deployed11 + 10 + k PROVE Phase11(ch, q + 1, s)
    <2>1. i = CreateSet11[k]
      BY <1>6, Places11 DEF i
    <2>2. k # 1
      BY <1>1, <2>1, CreateReads DEF Reads
    <2>3. /\ Deployed11 + 12 <= q /\ q <= Approved11
          /\ q + 1 \in Nat /\ Deployed11 + 12 <= q + 1 /\ q + 1 <= Approved11 + 1
          /\ \A c \in Components : ~(Deployed11 + 13 + c < q + 1) /\ 2 * c - 1 < q
      BY <1>1, <1>6, <2>2, PhaseNumbers, SMT
    <2>4. New11(ch, s) /\ Funded11(ch.wallet, ch.allowance, q)
      BY <1>1, <2>3, Waiting11
    <2>5. Funded11(ch.wallet, ch.allowance, q + 1)
      BY <2>3, <2>4 DEF Funded11
    <2> QED BY <2>3, <2>4, <2>5, Arriving11
  <1>7. ASSUME NEW c \in Components, q = Deployed11 + 13 + c PROVE FALSE
    <2>1. i = approve(IssuanceModule, c, _units[c])
      BY <1>7, Places11 DEF i
    <2>2. IssuanceModule \in Kinds
      BY DEF Kinds, IssuanceModule
    <2>3. i.op = "call"
      BY <2>1, <2>2, CallsRead DEF Reads
    <2> QED BY <1>1, <2>3
  <1>8. ASSUME NEW k \in 1 .. 17, q = Approved11 + k PROVE Phase11(ch, q + 1, s)
    <2>1. IsAct11(i, k)
      BY <1>8, Acts11 DEF i
    <2>2. k = 6 \/ k = 17
      <3>1. k \in {6, 17} \/ i.op = "call"
        <4>1. k \in {1, 2, 3, 4, 5, 6, 7, 8, 9, 10, 11, 12, 13, 14, 15, 16, 17}
          BY SMT
        <4> QED BY <2>1, <4>1 DEF IsAct11, Asks
      <3> QED BY <1>1, <3>1
    <2>3. CASE k = 6
      <3>1. State11(ch, 6, s)
        <4>1. 6 \in 1 .. 17 /\ 6 # 17
          BY SMT
        <4> QED BY <1>8, <2>3, <4>1, Launched11
      <3>2. /\ Registered11(ch, s) /\ Modules11(ch.sets[s], 6)
            /\ Account11(ch.sets[s], ch.wallet, ch.allowance, 6)
        BY <3>1 DEF State11
      <3>3. Modules11(ch.sets[s], 7)
        BY <3>2, SMT DEF Modules11
      <3>4. Account11(ch.sets[s], ch.wallet, ch.allowance, 7)
        BY <3>2, SMT DEF Account11
      <3>5. State11(ch, 7, s)
        BY <3>2, <3>3, <3>4 DEF State11
      <3>6. 7 \in 1 .. 16 /\ Approved11 + 7 = q + 1
        BY <1>8, <2>3, PhaseNumbers, SMT
      <3>7. Phase11(ch, Approved11 + 7, s)
        BY <3>5, <3>6, Launching11
      <3> QED BY <3>6, <3>7
    <2>4. CASE k = 17
      <3>1. State11(ch, 16, s)
        <4>1. Phase11(ch, Approved11 + 17, s) /\ 17 \in 1 .. 17
          BY <1>8, <2>4, SMT
        <4> QED BY <4>1, Launched11
      <3>2. /\ ~(q + 1 <= Deployed11 + 11) /\ ~(q + 1 <= Approved11)
            /\ \A j \in 1 .. 16 : q + 1 # Approved11 + j
        BY <1>8, <2>4, PhaseNumbers, SMT
      <3> QED BY <3>1, <3>2 DEF Phase11
    <2> QED BY <2>2, <2>3, <2>4
  <1>9. (\E c \in Components : q = 2 * c) \/ q = Deployed11 => q <= Deployed11 + 8
    BY PhaseNumbers, SMT
  <1> QED BY <1>3, <1>4, <1>5, <1>6, <1>7, <1>8, <1>9, Where11
=============================================================================
