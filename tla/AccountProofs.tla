----------------------------- MODULE AccountProofs -----------------------------
(***************************************************************************)
(* The account contract, for any owners, keys, argument lists, policies    *)
(* and any sequence of calls.                                              *)
(***************************************************************************)
EXTENDS Account, FiniteSetTheorems, TLAPS

\* What the state before initialize looks like.
Unborn == ~Initialized => owners = {} /\ registered = {} /\ executed = {}

\* A message is executed at its nonce, and the nonce has moved on.
NoncesPast == \A m \in executed : m.nonce < nonce

Inv == TypeOK /\ Unborn /\ NoncesPast /\ NoReplay /\ ThresholdMeetable

-----------------------------------------------------------------------------
\* Amounts.

\* A non-empty finite set of integers has a largest member: the set of those
\* above it is smallest.
LEMMA Largest ==
  ASSUME NEW S \in SUBSET Int, IsFiniteSet(S), S # {}
  PROVE  \E x \in S : \A y \in S : y <= x
<1> DEFINE Above(x) == {y \in S : y > x}
           Sets == {Above(x) : x \in S}
<1>1. IsWellFoundedOn(StrictSubsetOrdering(S), FiniteSubsetsOf(S))
  BY FS_StrictSubsetOrderingWellFounded
<1>2. IsWellFoundedOn(StrictSubsetOrdering(S), SUBSET S)
  BY <1>1, FS_FiniteSubsetsOfFinite
<1>3. Sets \subseteq SUBSET S /\ Sets # {}
  OBVIOUS
<1>4. PICK A \in Sets : \A B \in Sets : <<B, A>> \notin StrictSubsetOrdering(S)
  <2> HIDE DEF Sets
  <2> QED BY <1>2, <1>3, WFMin
<1>5. PICK x \in S : A = Above(x)
  OBVIOUS
<1>6. ASSUME NEW y \in S, y > x PROVE FALSE
  <2>1. Above(y) \in Sets
    OBVIOUS
  <2>4. Above(y) \subseteq Above(x)
    <3> SUFFICES ASSUME NEW z \in S, z > y PROVE z > x
      OBVIOUS
    <3> S \subseteq Int
      OBVIOUS
    <3> QED BY <1>6
  <2>2. y \in Above(x) /\ y \notin Above(y)
    BY <1>6
  <2>3. <<Above(y), A>> \in StrictSubsetOrdering(S)
    BY <1>5, <2>4, <2>2 DEF StrictSubsetOrdering
  <2> QED BY <1>4, <2>1, <2>3
<1> QED BY <1>6

\* extract_spend_amount yields zero or a positive argument.
LEMMA SpendType ==
  ASSUME NEW args \in Args
  PROVE  SpendOf(args) \in Nat
<1>1. args \in SUBSET Int /\ IsFiniteSet(args)
  BY AccountAssumption
<1>2. CASE \E x \in args : x > 0
  <2>1. \E x \in args : x > 0 /\ \A y \in args : y <= x
    <3>1. PICK z \in args : z > 0
      BY <1>2
    <3>2. PICK x \in args : \A y \in args : y <= x
      BY <1>1, <3>1, Largest
    <3>3. x > 0
      BY <1>1, <3>1, <3>2
    <3> QED BY <3>2, <3>3
  <2> DEFINE m == CHOOSE x \in args : x > 0 /\ \A y \in args : y <= x
  <2>2. m \in args /\ m > 0
    BY <2>1
  <2>3. SpendOf(args) = m
    BY <1>2 DEF SpendOf
  <2>4. m \in Int
    BY <1>1, <2>2
  <2> HIDE DEF m
  <2> QED BY <2>2, <2>3, <2>4
<1>3. CASE ~ \E x \in args : x > 0
  BY <1>3 DEF SpendOf
<1> QED BY <1>2, <1>3

\* A spend leaves an entry an entry.
LEMMA AfterSpendType ==
  ASSUME NEW s \in Session, NEW amount \in Nat, now \in Times
  PROVE  AfterSpend(s, amount) \in Session
<1>1. s.spent \in Nat /\ SpentNow(s) + amount \in Nat
  BY DEF Session, SpentNow
<1>2. (IF WindowOver(s) THEN now ELSE s.start) \in Times
  BY DEF Session
<1> QED BY <1>1, <1>2 DEF AfterSpend, Session

LEMMA ExpiryType ==
  ASSUME NEW e \in Nat
  PROVE  NormalizeExpiry(e) \in Nat
BY AccountAssumption DEF NormalizeExpiry

-----------------------------------------------------------------------------
\* Types, nonces and thresholds.

\* The calls that leave the owners, the nonce and the messages as they are.
Settled ==
  UNCHANGED <<owner, owners, threshold, nonce, executed, replayed>>

\* A quorum leaves someone to count.
LEMMA OwnersFinite ==
  ASSUME NEW os \in SUBSET Addresses
  PROVE  /\ IsFiniteSet(os) /\ Cardinality(os) \in Nat
         /\ os # {} => Cardinality(os) >= 1
<1>1. IsFiniteSet(os)
  BY AccountAssumption, FS_Subset
<1> QED BY <1>1, FS_CardinalityType, FS_EmptySet

LEMMA NoSessionType == NoSession \in Session
<1>1. 0 \in Times
  BY AccountAssumption DEF Times
<1> QED BY <1>1 DEF NoSession, Session, Unlimited

LEMMA InitInv == Init => Inv
<1> SUFFICES ASSUME Init PROVE Inv
  OBVIOUS
<1>1. now \in Times /\ version \in 0..MaxVersion /\ nonce \in 0..MaxNonce
  BY AccountAssumption DEF Init, Times
<1>2. paid \in [Keys -> [Times -> Nat]]
  BY DEF Init, NothingPaid
<1>3. session \in [Keys -> Session]
  BY NoSessionType DEF Init
<1>4. TypeOK
  BY <1>1, <1>2, <1>3 DEF Init, TypeOK
<1> QED BY <1>4 DEF Init, Inv, Unborn, NoncesPast, NoReplay, ThresholdMeetable

LEMMA OwnerCallInv == Inv /\ OwnerCall => Inv'
<1> SUFFICES ASSUME Inv, OwnerCall PROVE Inv'
  OBVIOUS
<1> USE DEF Inv, TypeOK, ownerVars, keyVars, execVars
<1>1. ASSUME NEW a \in Addresses, Initialize(a) PROVE Inv'
  <2>1. TypeOK'
    BY <1>1, AccountAssumption DEF Initialize
  <2>2. executed' = {} /\ owners' = {} /\ owner' # None
    BY <1>1, AccountAssumption DEF Initialize, Unborn
  <2> QED
    BY <1>1, <2>1, <2>2 DEF Initialize, Initialized, Unborn, NoncesPast, NoReplay,
                            ThresholdMeetable
<1>2. ASSUME Upgrade PROVE Inv'
  <2>1. TypeOK'
    BY <1>2, AccountAssumption DEF Upgrade
  <2> QED
    BY <1>2, <2>1 DEF Upgrade, Initialized, Unborn, NoncesPast, NoReplay, ThresholdMeetable
<1>3. ASSUME NEW v \in 0..MaxVersion, Migrate(v) PROVE Inv'
  <2>1. TypeOK'
    BY <1>3 DEF Migrate
  <2> QED
    BY <1>3, <2>1 DEF Migrate, Initialized, Unborn, NoncesPast, NoReplay, ThresholdMeetable
<1>4. ASSUME NEW ms \in SUBSET Modules, SetModules(ms) PROVE Inv'
  <2>1. TypeOK'
    BY <1>4 DEF SetModules
  <2> QED
    BY <1>4, <2>1 DEF SetModules, Initialized, Unborn, NoncesPast, NoReplay,
                      ThresholdMeetable
<1>5. ASSUME NEW os \in SUBSET Addresses, NEW n \in 0..Cardinality(Addresses),
             InitializeMultiOwner(os, n)
      PROVE  Inv'
  <2>1. n \in Nat /\ Cardinality(os) \in Nat
    BY OwnersFinite, AccountAssumption, FS_CardinalityType
  <2>2. TypeOK'
    BY <1>5, <2>1 DEF InitializeMultiOwner, SetOwners
  <2> QED
    BY <1>5, <2>1, <2>2 DEF InitializeMultiOwner, SetOwners, Initialized, Unborn,
                            NoncesPast, NoReplay, ThresholdMeetable
<1>6. ASSUME NEW m \in Modules, RegisterModule(m) \/ UnregisterModule(m) PROVE Inv'
  <2>1. modules \union {m} \in SUBSET Modules /\ modules \ {m} \in SUBSET Modules
    OBVIOUS
  <2> QED BY <1>4, <1>6, <2>1 DEF RegisterModule, UnregisterModule
<1> QED BY <1>1, <1>2, <1>3, <1>5, <1>6 DEF OwnerCall

\* A change of owners made by a quorum keeps the threshold within reach.
LEMMA QuorumCallInv == Inv /\ QuorumCall => Inv'
<1> SUFFICES ASSUME Inv, QuorumCall PROVE Inv'
  OBVIOUS
<1> USE DEF Inv, TypeOK, keyVars, execVars
<1>1. PICK signers \in SUBSET Addresses :
        \/ \E a \in Addresses : AddOwner(signers, a) \/ RemoveOwner(signers, a)
        \/ \E n \in 0..Cardinality(Addresses) : SetThreshold(signers, n)
  BY DEF QuorumCall
<1>2. ASSUME NEW os \in SUBSET Addresses, NEW n \in 1..Cardinality(os),
             owners # {}, SetOwners(os, n)
      PROVE  Inv'
  <2>1. Cardinality(os) \in Nat /\ n \in Nat
    BY OwnersFinite
  <2>2. TypeOK'
    BY <1>2, <2>1 DEF SetOwners
  <2>3. ThresholdMeetable'
    BY <1>2 DEF SetOwners, ThresholdMeetable
  <2> QED BY <1>2, <2>2, <2>3 DEF SetOwners, Initialized, Unborn, NoncesPast, NoReplay
<1>3. owners # {} /\ owners \in SUBSET Addresses
  BY <1>1 DEF AddOwner, RemoveOwner, SetThreshold, Quorum
<1>4. IsFiniteSet(owners) /\ Cardinality(owners) \in Nat /\ threshold \in 1..Cardinality(owners)
  BY <1>3, OwnersFinite DEF ThresholdMeetable
<1>5. ASSUME NEW a \in Addresses, AddOwner(signers, a) PROVE Inv'
  <2>1. Cardinality(owners \union {a}) = Cardinality(owners) + 1
    BY <1>4, <1>5, FS_AddElement DEF AddOwner
  <2>2. threshold \in 1..Cardinality(owners \union {a})
    BY <1>4, <2>1
  <2> QED BY <1>2, <1>3, <1>5, <2>2 DEF AddOwner
<1>6. ASSUME NEW a \in Addresses, RemoveOwner(signers, a) PROVE Inv'
  <2>1. Cardinality(owners \ {a}) = Cardinality(owners) - 1 /\ Cardinality(owners) > 1
    BY <1>4, <1>6, FS_RemoveElement DEF RemoveOwner
  <2>2. ThresholdFor(owners \ {a}) \in 1..Cardinality(owners \ {a})
    BY <1>4, <2>1 DEF ThresholdFor
  <2> QED BY <1>2, <1>3, <1>6, <2>2 DEF RemoveOwner
<1>7. ASSUME NEW n \in 0..Cardinality(Addresses), SetThreshold(signers, n) PROVE Inv'
  BY <1>2, <1>3, <1>7 DEF SetThreshold
<1> QED BY <1>1, <1>5, <1>6, <1>7

\* What no key call and no passing of time disturbs.
LEMMA SettledInv ==
  ASSUME Inv, Settled, TypeOK',
         \/ Initialized
         \/ registered' \subseteq registered
  PROVE  Inv'
BY DEF Inv, Settled, Initialized, Unborn, NoncesPast, NoReplay, ThresholdMeetable

LEMMA KeyCallInv == Inv /\ KeyCall => Inv'
<1> SUFFICES ASSUME Inv, NEW k \in Keys, KeyCall,
                    \/ \E e \in Expiries, p \in Policies, perms \in PermissionSets,
                          any \in BOOLEAN, allowed \in SUBSET Contracts :
                         AddSessionKey(k, e, p, perms, any, allowed)
                    \/ RevokeSessionKey(k) \/ RefreshSessionKeyTtl(k)
                    \/ \E any \in BOOLEAN, allowed \in SUBSET Contracts :
                         SetAllowedContracts(k, any, allowed)
             PROVE  Inv'
  BY DEF KeyCall
<1> USE DEF Inv, TypeOK, ownerVars, execVars
<1>1. ASSUME NEW e \in Expiries, NEW p \in Policies, NEW perms \in PermissionSets,
             NEW any \in BOOLEAN, NEW allowed \in SUBSET Contracts,
             AddSessionKey(k, e, p, perms, any, allowed)
      PROVE  Inv'
  <2> DEFINE s == [expires |-> NormalizeExpiry(e), permissions |-> perms, anyContract |-> any,
                   allowed |-> allowed, perCall |-> p.perCall, limit |-> p.limit,
                   start |-> now, window |-> p.window, spent |-> 0]
  <2>1. NormalizeExpiry(e) \in Nat /\ perms \in SUBSET Permissions
    BY AccountAssumption, ExpiryType
  <2>2. p.perCall \in Int /\ p.limit \in Int /\ p.window \in Nat
    BY AccountAssumption
  <2>3. s \in Session
    BY <2>1, <2>2 DEF Session
  <2>4. session' = [session EXCEPT ![k] = s] /\ paid' = [paid EXCEPT ![k] = NothingPaid]
    BY <1>1 DEF AddSessionKey
  <2> HIDE DEF s
  <2>5. session' \in [Keys -> Session] /\ paid' \in [Keys -> [Times -> Nat]]
    BY <2>3, <2>4 DEF NothingPaid
  <2>6. TypeOK' /\ Settled /\ Initialized
    BY <1>1, <2>5 DEF AddSessionKey, Settled
  <2> QED BY <2>6, SettledInv
<1>2. ASSUME RevokeSessionKey(k) PROVE Inv'
  <2>2. session' \in [Keys -> Session]
    BY <1>2, NoSessionType DEF RevokeSessionKey
  <2>3. TypeOK' /\ Settled /\ Initialized
    BY <1>2, <2>2 DEF RevokeSessionKey, Settled
  <2> QED BY <2>3, SettledInv
<1>3. ASSUME RefreshSessionKeyTtl(k) PROVE Inv'
  <2>1. NormalizeExpiry(session[k].expires) \in Nat
    BY ExpiryType DEF Session
  <2>2. session' \in [Keys -> Session]
    <3>1. session \in [Keys -> Session]
      BY DEF TypeOK
    <3> QED BY <1>3, <2>1, <3>1 DEF RefreshSessionKeyTtl, Session
  <2>3. TypeOK' /\ Settled /\ Initialized
    BY <1>3, <2>2 DEF RefreshSessionKeyTtl, Settled
  <2> QED BY <2>3, SettledInv
<1>4. ASSUME NEW any \in BOOLEAN, NEW allowed \in SUBSET Contracts,
             SetAllowedContracts(k, any, allowed)
      PROVE  Inv'
  <2> DEFINE s == [session[k] EXCEPT !.anyContract = any, !.allowed = allowed]
  <2>3. s \in Session
    BY DEF Session
  <2>4. session' = [session EXCEPT ![k] = s]
    BY <1>4 DEF SetAllowedContracts
  <2> HIDE DEF s
  <2>1. session' \in [Keys -> Session]
    BY <2>3, <2>4
  <2>2. TypeOK' /\ Settled /\ Initialized
    BY <1>4, <2>1 DEF SetAllowedContracts, Settled
  <2> QED BY <2>2, SettledInv
<1> QED BY <1>1, <1>2, <1>3, <1>4

\* An execution consumes its nonce.
LEMMA ExecuteInv == Inv /\ Execute => Inv'
<1> SUFFICES ASSUME Inv, Execute PROVE Inv'
  OBVIOUS
<1> USE DEF Inv, TypeOK, ownerVars, keyVars
<1>1. ASSUME NEW to \in Contracts, Invoke(to), UNCHANGED <<ownerVars, keyVars, executed, replayed, now, signed>>,
             approvers' \in SUBSET Addresses
      PROVE  Inv'
  <2>1. nonce' = nonce + 1 /\ nonce' \in 0..MaxNonce
    BY <1>1, AccountAssumption DEF Invoke, NextNonce
  <2>2. TypeOK'
    BY <1>1, <2>1
  <2>3. NoncesPast'
    <3> SUFFICES ASSUME NEW m \in executed PROVE m.nonce < nonce'
      BY <1>1 DEF NoncesPast
    <3>1. m.nonce \in Nat /\ nonce \in Nat
      BY DEF Message
    <3> QED BY <2>1, <3>1 DEF NoncesPast
  <2> QED BY <1>1, <2>2, <2>3 DEF Initialized, Unborn, NoReplay, ThresholdMeetable
<1>2. ASSUME NEW to \in Contracts, ExecuteAsOwner(to) PROVE Inv'
  <2>1. approvers' \in SUBSET Addresses
    BY <1>2 DEF ExecuteAsOwner, Initialized
  <2> QED BY <1>1, <1>2, <2>1 DEF ExecuteAsOwner
<1>3. ASSUME NEW to \in Contracts, NEW signers \in SUBSET Addresses,
             ExecuteByQuorum(signers, to)
      PROVE  Inv'
  BY <1>1, <1>3 DEF ExecuteByQuorum
<1>4. ASSUME NEW m \in signed, ExecuteBySession(m) PROVE Inv'
  <2> DEFINE s == session[m.key]
             amount == SpendOf(m.args)
             b == AfterSpend(s, amount)
             p == paid[m.key]
  <2>1. m \in Message /\ s \in Session /\ amount \in Nat /\ b \in Session
    BY SpendType, AfterSpendType DEF Message
  <2>2. /\ session' = [session EXCEPT ![m.key] = b]
        /\ paid' = [paid EXCEPT ![m.key] = [p EXCEPT ![now] = p[now] + amount]]
    BY <1>4 DEF ExecuteBySession
  <2>3. nonce' = nonce + 1 /\ nonce' \in 0..MaxNonce /\ m.nonce = nonce
    BY <1>4, AccountAssumption DEF ExecuteBySession, Invoke, NextNonce, SignatureCovers
  <2> HIDE DEF b, amount
  <2>4. session' \in [Keys -> Session] /\ paid' \in [Keys -> [Times -> Nat]]
    BY <2>1, <2>2 DEF Message
  <2>5. m \notin executed
    BY <2>3 DEF NoncesPast
  <2>6. ~replayed'
    BY <1>4, <2>5 DEF ExecuteBySession, NoReplay
  <2>7. TypeOK'
    BY <1>4, <2>3, <2>4, <2>6 DEF ExecuteBySession
  <2>8. NoncesPast'
    <3> SUFFICES ASSUME NEW x \in executed \union {m} PROVE x.nonce < nonce + 1
      BY <1>4, <2>3 DEF NoncesPast, ExecuteBySession
    <3>1. x.nonce \in Nat /\ nonce \in Nat
      BY DEF Message
    <3> QED BY <2>3, <3>1 DEF NoncesPast
  <2>9. Initialized
    BY <1>4 DEF ExecuteBySession, Unborn
  <2> QED BY <1>4, <2>6, <2>7, <2>8, <2>9 DEF ExecuteBySession, Initialized, Unborn,
                                             NoReplay, ThresholdMeetable
<1> QED BY <1>2, <1>3, <1>4 DEF Execute

LEMMA TickInv == Inv /\ Tick => Inv'
<1> SUFFICES ASSUME Inv, Tick PROVE Inv'
  OBVIOUS
<1> USE DEF Inv, TypeOK, ownerVars, execVars
<1>1. now + 1 \in Times
  BY AccountAssumption DEF Tick, Times
<1>2. paid' \in [Keys -> [Times -> Nat]]
  BY <1>1 DEF Tick
<1>3. TypeOK' /\ Settled
  BY <1>1, <1>2 DEF Tick, Settled
<1> QED BY <1>3, SettledInv DEF Tick

LEMMA SignInv ==
  ASSUME Inv, NEW m, m \in Message, Sign(m)
  PROVE  Inv'
<1>1. TypeOK' /\ Settled /\ registered' = registered
  BY DEF Sign, Inv, TypeOK, Settled, ownerVars, keyVars, execVars
<1> QED BY <1>1, SettledInv

LEMMA InvInductive == Inv /\ [Next]_vars => Inv'
<1> SUFFICES ASSUME Inv, [Next]_vars PROVE Inv'
  OBVIOUS
<1>1. CASE UNCHANGED vars
  BY <1>1 DEF vars, ownerVars, keyVars, execVars, Inv, TypeOK, Initialized, Unborn, NoncesPast,
              NoReplay, ThresholdMeetable
<1>2. ASSUME NEW k \in Keys, NEW to \in Contracts, NEW args \in Args,
             NEW n \in 0..(MaxNonce - 1),
             Sign([key |-> k, to |-> to, args |-> args, nonce |-> n])
      PROVE  Inv'
  <2>1. n \in Nat
    BY AccountAssumption
  <2>2. [key |-> k, to |-> to, args |-> args, nonce |-> n] \in Message
    BY <2>1 DEF Message
  <2> QED BY <1>2, <2>2, SignInv
<1> QED BY <1>1, <1>2, OwnerCallInv, QuorumCallInv, KeyCallInv, ExecuteInv, TickInv DEF Next

LEMMA InvHolds == Spec => []Inv
BY InitInv, InvInductive, PTL DEF Spec

\* Every entry, message and sum keeps its type (the contract's storage).
THEOREM TypeCorrect == Spec => []TypeOK
<1>1. Inv => TypeOK
  BY DEF Inv
<1> QED BY <1>1, InvHolds, PTL

\* No signed message is executed twice (execute).
THEOREM MessagesOnce == Spec => []NoReplay
<1>1. Inv => NoReplay
  BY DEF Inv
<1> QED BY <1>1, InvHolds, PTL

\* The owners can always reach the threshold (remove_owner, set_threshold).
THEOREM QuorumExists == Spec => []ThresholdMeetable
<1>1. Inv => ThresholdMeetable
  BY DEF Inv
<1> QED BY <1>1, InvHolds, PTL

-----------------------------------------------------------------------------
\* Spending.

\* What p has paid before t.
Before(p, t) == IF t = 0 THEN 0 ELSE p[t - 1]

Rising(p) == \A t, u \in 0..now : t <= u => p[t] <= p[u]

\* An entry s agrees with what its key has paid, p: the sum it carries is what
\* was paid since its window began, nothing has been paid at this instant if
\* the window is over, and no stretch as long as the window that ends where
\* it began saw more than the limit.
Accounted(s, p) ==
  s.limit # Unlimited =>
    /\ s.limit > 0 /\ s.spent <= s.limit
    /\ s.spent = p[now] - Before(p, s.start)
    /\ WindowOver(s) => p[now] = Before(p, now)
    /\ \A t \in 0..s.start :
         s.start <= t + s.window => Before(p, s.start) - Before(p, t) <= s.limit

Books ==
  \A k \in Keys :
    /\ Rising(paid[k])
    /\ k \in registered => session[k].start <= now /\ Accounted(session[k], paid[k])

BooksInv == TypeOK /\ Books

\* The parts of an entry that spending is about.
SameLimits(s, r) ==
  s.limit = r.limit /\ s.spent = r.spent /\ s.start = r.start /\ s.window = r.window

\* A call that spends nothing, registers nothing and keeps the limits.
LEMMA BooksFrame ==
  ASSUME Books, UNCHANGED <<paid, now>>, registered' \subseteq registered,
         \A k \in registered' : SameLimits(session'[k], session[k])
  PROVE  Books'
BY DEF Books, Rising, Accounted, SameLimits, Before, WindowOver

\* Numbers of the state.
LEMMA SpendNumbers ==
  ASSUME TypeOK, NEW k \in Keys
  PROVE  /\ now \in Nat /\ now \in Times /\ MaxTime \in Nat
         /\ session[k] \in Session
         /\ session[k].start \in Nat /\ session[k].window \in Nat /\ session[k].spent \in Nat
         /\ session[k].limit \in Int
         /\ paid[k] \in [Times -> Nat]
         /\ \A t \in Times : paid[k][t] \in Nat
         /\ \A t \in Times : Before(paid[k], t) \in Nat
<1>1. now \in Nat /\ now \in Times /\ MaxTime \in Nat
  BY AccountAssumption DEF TypeOK, Times
<1>2. paid[k] \in [Times -> Nat] /\ \A t \in Times : paid[k][t] \in Nat
  BY DEF TypeOK
<1>3. ASSUME NEW t \in Times PROVE Before(paid[k], t) \in Nat
  <2>1. t # 0 => t - 1 \in Times
    BY <1>1 DEF Times
  <2> QED BY <1>2, <2>1 DEF Before
<1>4. session[k] \in Session
  BY DEF TypeOK
<1>5. session[k].start \in Nat /\ session[k].window \in Nat /\ session[k].spent \in Nat
      /\ session[k].limit \in Int
  BY <1>1, <1>4 DEF Session, Times
<1> QED BY <1>1, <1>2, <1>3, <1>4, <1>5

LEMMA InitBooks == Init => Books
<1> SUFFICES ASSUME Init PROVE Books
  OBVIOUS
<1>1. 0..0 \subseteq Times /\ now = 0
  BY AccountAssumption DEF Times, Init
<1> QED BY <1>1 DEF Init, Books, Rising, NothingPaid

\* A new key has paid nothing.
LEMMA AddKeyBooks ==
  ASSUME BooksInv,
         NEW k \in Keys, NEW e \in Expiries, NEW p \in Policies,
         NEW perms \in PermissionSets, NEW any \in BOOLEAN, NEW allowed \in SUBSET Contracts,
         AddSessionKey(k, e, p, perms, any, allowed)
  PROVE  Books'
<1>1. now \in Nat /\ now \in Times /\ MaxTime \in Nat
  BY SpendNumbers DEF BooksInv
<1>2. /\ session'[k].limit = p.limit /\ session'[k].start = now
      /\ session'[k].window = p.window /\ session'[k].spent = 0
      /\ now' = now /\ paid'[k] = NothingPaid
  BY DEF AddSessionKey, BooksInv, TypeOK
<1>3. p.limit \in Int /\ p.window \in Nat /\ (p.limit # Unlimited => p.limit > 0)
  BY AccountAssumption DEF AddSessionKey, ValidSpendPolicy
<1>4. \A t \in 0..now : NothingPaid[t] = 0 /\ Before(NothingPaid, t) = 0
  <2> SUFFICES ASSUME NEW t \in 0..now
               PROVE  NothingPaid[t] = 0 /\ Before(NothingPaid, t) = 0
    OBVIOUS
  <2>1. t \in Times /\ (t # 0 => t - 1 \in Times)
    BY <1>1 DEF Times
  <2> QED BY <2>1 DEF NothingPaid, Before
<1>5. now \in 0..now
  BY <1>1
<1>6. Rising(paid[k])' /\ session'[k].start <= now'
  BY <1>1, <1>2, <1>4 DEF Rising
<1>7. Accounted(session[k], paid[k])'
  BY <1>1, <1>2, <1>3, <1>4, <1>5 DEF Accounted, WindowOver
<1>8. ASSUME NEW j \in Keys, j # k
      PROVE  session'[j] = session[j] /\ paid'[j] = paid[j] /\ (j \in registered' => j \in registered)
  BY <1>8 DEF AddSessionKey, BooksInv, TypeOK
<1>9. ASSUME NEW j \in Keys, j # k
      PROVE  Rising(paid[j])' /\ (j \in registered' => session'[j].start <= now' /\ Accounted(session[j], paid[j])')
  BY <1>2, <1>8, <1>9 DEF BooksInv, Books, Rising, Accounted, WindowOver
<1> QED BY <1>6, <1>7, <1>9 DEF Books

\* The instant that begins has seen no payment.
LEMMA TickBooks ==
  ASSUME BooksInv, Tick
  PROVE  Books'
<1> SUFFICES ASSUME NEW k \in Keys
             PROVE  /\ Rising(paid[k])'
                    /\ k \in registered' => session'[k].start <= now' /\ Accounted(session[k], paid[k])'
  BY DEF Books
<1> DEFINE p == paid[k]
           q == paid'[k]
<1>1. now' = now + 1 /\ now + 1 \in Times /\ session' = session /\ registered' = registered
  BY SpendNumbers DEF Tick, BooksInv, Times
<1>2. q = [p EXCEPT ![now + 1] = p[now]]
  BY DEF Tick
<1>3. now \in Nat /\ 0..(now + 1) \subseteq Times /\ \A t \in Times : p[t] \in Nat /\ Before(p, t) \in Nat
  BY <1>1, SpendNumbers DEF BooksInv, Times
<1>4. q[now + 1] = p[now] /\ \A t \in 0..now : q[t] = p[t]
  BY <1>1, <1>2, <1>3, SpendNumbers DEF BooksInv
<1>5. \A t \in 0..(now + 1) : Before(q, t) = IF t = now + 1 THEN p[now] ELSE Before(p, t)
  BY <1>3, <1>4 DEF Before
<1> HIDE DEF q, p
<1>6. Rising(p)
  BY DEF BooksInv, Books, p
<1>7. \A t, u \in 0..(now + 1) : t <= u => q[t] <= q[u]
  <2> SUFFICES ASSUME NEW t \in 0..(now + 1), NEW u \in 0..(now + 1), t <= u
               PROVE  q[t] <= q[u]
    OBVIOUS
  <2>1. p[now] \in Nat /\ now \in 0..now
    BY <1>3
  <2>2. CASE u \in 0..now
    BY <1>3, <1>4, <1>6, <2>2 DEF Rising
  <2>3. CASE u = now + 1 /\ t = now + 1
    BY <1>4, <2>1, <2>3
  <2>4. CASE u = now + 1 /\ t \in 0..now
    BY <1>3, <1>4, <1>6, <2>1, <2>4 DEF Rising
  <2> QED BY <1>3, <2>2, <2>3, <2>4
<1>8. ASSUME k \in registered
      PROVE  session'[k].start <= now' /\ Accounted(session[k], paid[k])'
  <2> DEFINE s == session[k]
  <2>1. s.start \in Nat /\ s.window \in Nat /\ s.spent \in Nat /\ s.limit \in Int
    BY SpendNumbers DEF BooksInv
  <2>2. s.start <= now /\ Accounted(s, p)
    BY <1>8 DEF BooksInv, Books, p
  <2>3. session'[k] = s
    BY <1>1
  <2> HIDE DEF s
  <2>4. s.start <= now'
    BY <1>1, <1>3, <2>1, <2>2
  <2>5. ASSUME s.limit # Unlimited
        PROVE  /\ s.limit > 0 /\ s.spent <= s.limit
               /\ s.spent = q[now + 1] - Before(q, s.start)
               /\ q[now + 1] = Before(q, now + 1)
               /\ \A t \in 0..s.start :
                    s.start <= t + s.window => Before(q, s.start) - Before(q, t) <= s.limit
    <3>1. s.start \in 0..now
      BY <1>3, <2>1, <2>2
    <3>2. \A t \in 0..s.start : t \in 0..now /\ Before(q, t) = Before(p, t)
      BY <1>3, <1>5, <2>1, <2>2
    <3>3. Before(q, s.start) = Before(p, s.start)
      BY <2>1, <3>2
    <3> QED BY <1>3, <1>4, <1>5, <2>2, <2>5, <3>2, <3>3 DEF Accounted
  <2> QED BY <1>1, <2>3, <2>4, <2>5 DEF Accounted, q
<1> QED BY <1>1, <1>7, <1>8 DEF Rising, q

\* A payment: it stays within what the window leaves, or opens a new window.
LEMMA SessionBooks ==
  ASSUME BooksInv, NEW m \in signed, ExecuteBySession(m)
  PROVE  Books'
<1> DEFINE k == m.key
           s == session[k]
           p == paid[k]
           amount == SpendOf(m.args)
           r == AfterSpend(s, amount)
           q == [p EXCEPT ![now] = p[now] + amount]
<1>1. k \in Keys /\ k \in registered /\ amount \in Nat
  BY SpendType DEF BooksInv, TypeOK, Message, ExecuteBySession
<1>2. /\ now \in Nat /\ now \in Times /\ 0..now \subseteq Times /\ s \in Session
      /\ s.start \in Nat /\ s.window \in Nat /\ s.spent \in Nat /\ s.limit \in Int
      /\ p \in [Times -> Nat] /\ \A t \in Times : p[t] \in Nat /\ Before(p, t) \in Nat
  BY <1>1, SpendNumbers DEF BooksInv, Times
<1>3. s.start <= now /\ Accounted(s, p) /\ Rising(p)
  BY <1>1 DEF BooksInv, Books
<1>4. /\ session' = [session EXCEPT ![k] = r] /\ paid' = [paid EXCEPT ![k] = q]
      /\ registered' = registered /\ now' = now
      /\ WithinSpendLimits(s, amount)
  BY DEF ExecuteBySession
<1>5. session'[k] = r /\ paid'[k] = q
  BY <1>1, <1>4 DEF BooksInv, TypeOK
<1>6. r.limit = s.limit /\ r.window = s.window
  BY <1>2 DEF AfterSpend, Session
<1>7. amount = 0 \/ s.limit = Unlimited => r = s
  BY DEF AfterSpend
<1>8. amount # 0 /\ s.limit # Unlimited =>
        /\ r.spent = SpentNow(s) + amount /\ r.spent <= s.limit
        /\ r.start = IF WindowOver(s) THEN now ELSE s.start
  BY <1>1, <1>2, <1>4 DEF AfterSpend, Session, WithinSpendLimits
<1>9. q[now] = p[now] + amount /\ \A t \in 0..now : t # now => q[t] = p[t]
  BY <1>2
<1>10. \A t \in 0..now : Before(q, t) = Before(p, t)
  BY <1>2, <1>9 DEF Before
<1> HIDE DEF k, s, p, amount, r, q
<1>11. Rising(q)
  BY <1>1, <1>2, <1>3, <1>9 DEF Rising
<1>12. r.start <= now
  BY <1>2, <1>3, <1>7, <1>8, <1>6, <1>1
<1>13. Accounted(r, q)
  <2> SUFFICES ASSUME s.limit # Unlimited
               PROVE  /\ r.limit > 0 /\ r.spent <= r.limit
                      /\ r.spent = q[now] - Before(q, r.start)
                      /\ WindowOver(r) => q[now] = Before(q, now)
                      /\ \A t \in 0..r.start :
                           r.start <= t + r.window => Before(q, r.start) - Before(q, t) <= r.limit
    BY <1>6 DEF Accounted
  <2>1. /\ s.limit > 0 /\ s.spent <= s.limit /\ s.spent = p[now] - Before(p, s.start)
        /\ WindowOver(s) => p[now] = Before(p, now)
        /\ \A t \in 0..s.start :
             s.start <= t + s.window => Before(p, s.start) - Before(p, t) <= s.limit
    BY <1>3 DEF Accounted
  <2>2. now \in 0..now /\ s.start \in 0..now /\ 0..s.start \subseteq 0..now
    BY <1>2, <1>3
  <2>3. CASE amount = 0
    BY <1>2, <1>7, <1>9, <1>10, <2>1, <2>2, <2>3
  <2>4. CASE amount # 0 /\ ~WindowOver(s)
    <3>1. r.start = s.start /\ r.spent = s.spent + amount /\ r.spent <= s.limit
      BY <1>8, <2>4 DEF SpentNow
    <3>2. ~WindowOver(r)
      BY <1>6, <2>4, <3>1 DEF WindowOver
    <3> QED BY <1>1, <1>2, <1>6, <1>9, <1>10, <2>1, <2>2, <3>1, <3>2
  <2>5. CASE amount # 0 /\ WindowOver(s)
    <3>1. r.start = now /\ r.spent = amount /\ r.spent <= s.limit
      BY <1>1, <1>8, <2>5 DEF SpentNow
    <3>2. ~WindowOver(r)
      BY <1>2, <1>6, <3>1 DEF WindowOver
    <3>3. ASSUME NEW t \in 0..now, now <= t + s.window
          PROVE  Before(p, now) - Before(p, t) <= s.limit
      <4>1. t > s.start /\ t - 1 \in 0..now /\ t - 1 >= s.start
        BY <1>2, <2>5, <3>3 DEF WindowOver
      <4>2. Before(p, t) = p[t - 1]
        BY <1>2, <4>1 DEF Before
      <4>3. Before(p, s.start) <= p[t - 1]
        <5>1. CASE s.start = 0
          BY <1>2, <4>1, <5>1 DEF Before
        <5>2. CASE s.start # 0
          <6>1. s.start - 1 \in 0..now /\ s.start - 1 <= t - 1
            BY <1>2, <1>3, <4>1, <5>2
          <6> QED BY <1>3, <4>1, <5>2, <6>1 DEF Before, Rising
        <5> QED BY <5>1, <5>2
      <4>4. Before(p, now) = p[now]
        BY <2>1, <2>5
      <4> QED BY <1>2, <2>1, <2>2, <4>1, <4>2, <4>3, <4>4
    <3>4. q[now] = amount + Before(q, now)
      BY <1>1, <1>2, <1>9, <1>10, <2>1, <2>2, <2>5
    <3> QED BY <1>1, <1>2, <1>6, <1>10, <2>1, <2>2, <3>1, <3>2, <3>3, <3>4
  <2> QED BY <2>3, <2>4, <2>5
<1>14. ASSUME NEW j \in Keys, j # k
       PROVE  session'[j] = session[j] /\ paid'[j] = paid[j]
  BY <1>4, <1>14 DEF BooksInv, TypeOK
<1>15. ASSUME NEW j \in Keys
       PROVE  Rising(paid[j])' /\ (j \in registered' => session'[j].start <= now' /\ Accounted(session[j], paid[j])')
  <2>1. CASE j = k
    BY <1>4, <1>5, <1>11, <1>12, <1>13, <2>1 DEF Rising, Accounted, WindowOver
  <2>2. CASE j # k
    BY <1>4, <1>14, <2>2 DEF BooksInv, Books, Rising, Accounted, WindowOver
  <2> QED BY <2>1, <2>2
<1> QED BY <1>15 DEF Books

LEMMA BooksInductive == TypeOK /\ Books /\ [Next]_vars => Books'
<1> SUFFICES ASSUME BooksInv, [Next]_vars PROVE Books'
  BY DEF BooksInv
<1>1. ASSUME UNCHANGED <<keyVars, now>> PROVE Books'
  BY <1>1, BooksFrame DEF keyVars, BooksInv, SameLimits
<1>2. CASE UNCHANGED vars
  BY <1>1, <1>2 DEF vars
<1>3. CASE OwnerCall
  BY <1>1, <1>3 DEF OwnerCall, Initialize, Upgrade, Migrate, RegisterModule, UnregisterModule,
                    SetModules, InitializeMultiOwner, SetOwners
<1>4. CASE QuorumCall
  BY <1>1, <1>4 DEF QuorumCall, AddOwner, RemoveOwner, SetThreshold, SetOwners
<1>5. CASE KeyCall
  <2>1. PICK k \in Keys :
          \/ \E e \in Expiries, p \in Policies, perms \in PermissionSets,
                any \in BOOLEAN, allowed \in SUBSET Contracts :
               AddSessionKey(k, e, p, perms, any, allowed)
          \/ RevokeSessionKey(k) \/ RefreshSessionKeyTtl(k)
          \/ \E any \in BOOLEAN, allowed \in SUBSET Contracts :
               SetAllowedContracts(k, any, allowed)
    BY <1>5 DEF KeyCall
  <2>2. session \in [Keys -> Session] /\ registered \subseteq Keys
    BY DEF BooksInv, TypeOK
  <2>3. ASSUME RevokeSessionKey(k) PROVE Books'
    BY <2>2, <2>3, BooksFrame DEF RevokeSessionKey, BooksInv, SameLimits
  <2>4. ASSUME RefreshSessionKeyTtl(k) PROVE Books'
    <3>1. \A j \in registered : SameLimits(session'[j], session[j])
      BY <2>2, <2>4 DEF RefreshSessionKeyTtl, SameLimits, Session
    <3> QED BY <2>4, <3>1, BooksFrame DEF RefreshSessionKeyTtl, BooksInv
  <2>5. ASSUME NEW any \in BOOLEAN, NEW allowed \in SUBSET Contracts,
               SetAllowedContracts(k, any, allowed)
        PROVE  Books'
    <3> DEFINE b == [session[k] EXCEPT !.anyContract = any, !.allowed = allowed]
    <3>1. SameLimits(b, session[k])
      BY <2>2 DEF SameLimits, Session
    <3>2. session' = [session EXCEPT ![k] = b]
      BY <2>5 DEF SetAllowedContracts
    <3> HIDE DEF b
    <3>3. \A j \in registered : SameLimits(session'[j], session[j])
      BY <2>2, <3>1, <3>2 DEF SameLimits
    <3> QED BY <2>5, <3>3, BooksFrame DEF SetAllowedContracts, BooksInv
  <2> QED BY <2>1, <2>3, <2>4, <2>5, AddKeyBooks
<1>6. CASE Execute
  <2>1. ASSUME NEW to \in Contracts, ExecuteAsOwner(to) PROVE Books'
    BY <1>1, <2>1 DEF ExecuteAsOwner
  <2>2. ASSUME NEW to \in Contracts, NEW signers \in SUBSET Addresses,
               ExecuteByQuorum(signers, to)
        PROVE  Books'
    BY <1>1, <2>2 DEF ExecuteByQuorum
  <2> QED BY <1>6, <2>1, <2>2, SessionBooks DEF Execute
<1>7. CASE Tick
  BY <1>7, TickBooks
<1>8. CASE \E k \in Keys, to \in Contracts, args \in Args, n \in 0..(MaxNonce - 1) :
             Sign([key |-> k, to |-> to, args |-> args, nonce |-> n])
  BY <1>1, <1>8 DEF Sign
<1> QED BY <1>2, <1>3, <1>4, <1>5, <1>6, <1>7, <1>8 DEF Next

LEMMA BooksHold == Spec => []BooksInv
BY InitBooks, BooksInductive, TypeCorrect, PTL DEF Spec, BooksInv

\* An entry's sum is what its key has spent in the current window, within the
\* limit (check_spend_limits, apply_spend_usage).
THEOREM WindowsAddUp == Spec => []WindowSpend
<1>1. BooksInv => WindowSpend
  BY DEF BooksInv, TypeOK, Books, Accounted, WindowSpend, PaidFrom, Before
<1> QED BY <1>1, BooksHold, PTL

\* No stretch as long as a key's window sees more than twice its limit: what
\* was spent before the current window began and what was spent in it are
\* each within the limit.
THEOREM SlidingBound == Spec => []SlidingSpend
<1>1. BooksInv => SlidingSpend
  <2> SUFFICES ASSUME BooksInv, NEW k \in registered, NEW t \in 0..now,
                      session[k].limit # Unlimited, now <= t + session[k].window
               PROVE  PaidFrom(k, t) <= 2 * session[k].limit
    BY DEF SlidingSpend
  <2> DEFINE s == session[k]
             p == paid[k]
  <2>1. k \in Keys
    BY DEF BooksInv, TypeOK
  <2>2. /\ now \in Nat /\ 0..now \subseteq Times
        /\ s.start \in Nat /\ s.window \in Nat /\ s.spent \in Nat /\ s.limit \in Int
        /\ \A u \in Times : p[u] \in Nat /\ Before(p, u) \in Nat
    BY <2>1, SpendNumbers DEF BooksInv, Times
  <2>3. s.start <= now /\ Accounted(s, p) /\ Rising(p)
    BY <2>1 DEF BooksInv, Books
  <2>4. PaidFrom(k, t) = p[now] - Before(p, t)
    BY DEF PaidFrom, Before
  <2>5. s.limit # Unlimited /\ now <= t + s.window
    OBVIOUS
  <2> HIDE DEF s, p
  <2>6. s.limit > 0 /\ s.spent <= s.limit /\ s.spent = p[now] - Before(p, s.start)
    BY <2>3, <2>5 DEF Accounted
  <2>7. s.start \in Times /\ t \in Times /\ now \in Times
    BY <2>2, <2>3
  <2>8. CASE t <= s.start
    <3>1. t \in 0..s.start /\ s.start <= t + s.window
      BY <2>2, <2>3, <2>5, <2>8
    <3>2. Before(p, s.start) - Before(p, t) <= s.limit
      BY <2>3, <2>5, <3>1 DEF Accounted
    <3> QED BY <2>2, <2>4, <2>6, <2>7, <3>2 DEF s
  <2>9. CASE t > s.start
    <3>1. t - 1 \in 0..now /\ Before(p, t) = p[t - 1]
      BY <2>2, <2>9 DEF Before
    <3>2. Before(p, s.start) <= Before(p, t)
      <4>1. CASE s.start = 0
        BY <2>2, <2>7, <4>1 DEF Before
      <4>2. CASE s.start # 0
        <5>1. s.start - 1 \in 0..now /\ s.start - 1 <= t - 1
          BY <2>2, <2>3, <2>9, <4>2
        <5> QED BY <2>3, <3>1, <4>2, <5>1 DEF Before, Rising
      <4> QED BY <4>1, <4>2
    <3> QED BY <2>2, <2>4, <2>6, <2>7, <3>2 DEF s
  <2> QED BY <2>2, <2>7, <2>8, <2>9
<1> QED BY <1>1, BooksHold, PTL
=============================================================================
