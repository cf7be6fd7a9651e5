---------------------------- MODULE ServiceProofs ----------------------------
(***************************************************************************)
(* Proofs about the escrow contract, for any set of accounts, ids, amounts  *)
(* and deadlines, and then about the life of a task in the API, for any     *)
(* number of workers, wallets, GitHub users, commits and release            *)
(* transactions.                                                            *)
(***************************************************************************)
EXTENDS BountyService, FiniteSetTheorems, TLAPS

-----------------------------------------------------------------------------
(* The escrow contract.                                                       *)

\* The contract starts with an empty, well typed storage.
LEMMA InitialRecords == Init => TypeOK /\ RecordConsistent
BY AddressesAssumption, NumbersAssumption
   DEF Init, TypeOK, Bounty, Missing, RecordConsistent

\* No call disturbs the types: balances never go negative and no field takes a
\* value the contract's struct does not allow.
LEMMA CallsKeepTypes == TypeOK /\ [Next]_chainVars => TypeOK'
<1> SUFFICES ASSUME TypeOK, [Next]_chainVars
             PROVE  TypeOK'
  OBVIOUS
<1> USE AddressesAssumption, HashesAssumption, NumbersAssumption
    DEF TypeOK, Bounty, BountyStatus, Locked, Settled
<1>1. CASE CloseLedger
  BY <1>1 DEF CloseLedger
<1>2. ASSUME NEW id \in BountyIds, NEW caller \in Accounts,
             NEW amount \in Amounts, NEW criteria \in CriteriaHashes,
             NEW deadline \in Deadlines,
             CreateBounty(id, caller, amount, criteria, deadline)
      PROVE  TypeOK'
  BY <1>2 DEF CreateBounty, Transfer
<1>3. ASSUME NEW id \in BountyIds, NEW caller \in Accounts,
             AcceptBounty(id, caller)
      PROVE  TypeOK'
  BY <1>3 DEF AcceptBounty
<1>4. ASSUME NEW id \in BountyIds, NEW caller \in Accounts,
             NEW evidence \in EvidenceHashes, ReleaseBounty(caller, id, evidence)
      PROVE  TypeOK'
  BY <1>4 DEF ReleaseBounty, Transfer
<1>5. ASSUME NEW id \in BountyIds, NEW caller \in Accounts,
             CancelOpenBounty(caller, id)
      PROVE  TypeOK'
  BY <1>5 DEF CancelOpenBounty, Transfer
<1>6. ASSUME NEW id \in BountyIds, NEW caller \in Accounts,
             RefundExpired(caller, id)
      PROVE  TypeOK'
  BY <1>6 DEF RefundExpired, Transfer
<1>7. CASE UNCHANGED chainVars
  BY <1>7 DEF chainVars
<1>8. QED
  BY <1>1, <1>2, <1>3, <1>4, <1>5, <1>6, <1>7 DEF Next

\* Every stored bounty and every balance keeps its type.
THEOREM TypeCorrect == Spec => []TypeOK
BY InitialRecords, CallsKeepTypes, PTL DEF Spec

-----------------------------------------------------------------------------
\* What the record of a bounty says about its history stays true: it holds
\* for each call because the entry points check the status they start from.
LEMMA CallsKeepRecords ==
  TypeOK /\ RecordConsistent /\ [Next]_chainVars => RecordConsistent'
<1> SUFFICES ASSUME TypeOK, RecordConsistent, [Next]_chainVars
             PROVE  RecordConsistent'
  OBVIOUS
<1> USE AddressesAssumption, HashesAssumption, NumbersAssumption
    DEF TypeOK, RecordConsistent, Bounty, BountyStatus, Locked, Settled
<1>1. CASE CloseLedger
  BY <1>1 DEF CloseLedger
<1>2. ASSUME NEW id \in BountyIds, NEW caller \in Accounts,
             NEW amount \in Amounts, NEW criteria \in CriteriaHashes,
             NEW deadline \in Deadlines,
             CreateBounty(id, caller, amount, criteria, deadline)
      PROVE  RecordConsistent'
  BY <1>2 DEF CreateBounty
<1>3. ASSUME NEW id \in BountyIds, NEW caller \in Accounts,
             AcceptBounty(id, caller)
      PROVE  RecordConsistent'
  BY <1>3 DEF AcceptBounty
<1>4. ASSUME NEW id \in BountyIds, NEW caller \in Accounts,
             NEW evidence \in EvidenceHashes, ReleaseBounty(caller, id, evidence)
      PROVE  RecordConsistent'
  BY <1>4 DEF ReleaseBounty
<1>5. ASSUME NEW id \in BountyIds, NEW caller \in Accounts,
             CancelOpenBounty(caller, id)
      PROVE  RecordConsistent'
  BY <1>5 DEF CancelOpenBounty
<1>6. ASSUME NEW id \in BountyIds, NEW caller \in Accounts,
             RefundExpired(caller, id)
      PROVE  RecordConsistent'
  BY <1>6 DEF RefundExpired
<1>7. CASE UNCHANGED chainVars
  BY <1>7 DEF chainVars
<1>8. QED
  BY <1>1, <1>2, <1>3, <1>4, <1>5, <1>6, <1>7 DEF Next

\* A developer and an evidence hash are stored exactly when they have to be.
THEOREM RecordsConsistent == Spec => []RecordConsistent
BY InitialRecords, TypeCorrect, CallsKeepRecords, PTL DEF Spec

-----------------------------------------------------------------------------
\* The token units owed for one bounty.
UnitsOf(id, amount) == {id} \X (1..amount)

\* A reward of n units is n units to count.
LEMMA UnitsCount ==
  ASSUME NEW id, NEW n \in Nat
  PROVE  IsFiniteSet(UnitsOf(id, n)) /\ Cardinality(UnitsOf(id, n)) = n
<1>1. IsFiniteSet(1..n) /\ Cardinality(1..n) = n
  BY FS_Interval
<1>2. IsFiniteSet({id}) /\ Cardinality({id}) = 1
  BY FS_Singleton
<1>3. QED
  BY <1>1, <1>2, FS_Product DEF UnitsOf

\* Adding a disjoint reward to a set of units adds its amount to the count;
\* read backwards, removing it takes the amount away.
LEMMA DisjointUnits ==
  ASSUME NEW U, IsFiniteSet(U), NEW id, NEW n \in Nat,
         U \cap UnitsOf(id, n) = {}
  PROVE  /\ IsFiniteSet(U \cup UnitsOf(id, n))
         /\ Cardinality(U \cup UnitsOf(id, n)) = Cardinality(U) + n
<1>1. IsFiniteSet(UnitsOf(id, n)) /\ Cardinality(UnitsOf(id, n)) = n
  BY UnitsCount
<1>2. Cardinality(U \cap UnitsOf(id, n)) = 0
  BY FS_EmptySet
<1>3. Cardinality(U) \in Nat
  BY FS_CardinalityType
<1>4. /\ IsFiniteSet(U \cup UnitsOf(id, n))
      /\ Cardinality(U \cup UnitsOf(id, n)) =
            Cardinality(U) + Cardinality(UnitsOf(id, n))
              - Cardinality(U \cap UnitsOf(id, n))
  BY <1>1, FS_Union
<1>5. QED
  BY <1>1, <1>2, <1>3, <1>4

\* The units of the bounties stored in `store` whose reward is still held.
UnitsIn(store) ==
    UNION {UnitsOf(i, store[i].amount) :
              i \in {j \in BountyIds : store[j].status \in Locked}}

\* Unlocking or locking one bounty changes the held units by exactly its own:
\* with `bs` the storage where `id` is locked and `as` the one where it is
\* not, and no other entry different.
LEMMA OneBountyApart ==
  ASSUME NEW as, NEW bs, NEW id \in BountyIds,
         as[id].status \notin Locked, bs[id].status \in Locked,
         \A i \in BountyIds \ {id} : as[i] = bs[i]
  PROVE  /\ UnitsIn(bs) = UnitsIn(as) \cup UnitsOf(id, bs[id].amount)
         /\ UnitsIn(as) \cap UnitsOf(id, bs[id].amount) = {}
<1> DEFINE A == {j \in BountyIds : as[j].status \in Locked}
           B == {j \in BountyIds : bs[j].status \in Locked}
<1>1. id \notin A /\ id \in B
  OBVIOUS
<1>2. \A i \in BountyIds : i # id => (i \in A <=> i \in B) /\ as[i] = bs[i]
  BY Zenon
<1>3. A \subseteq BountyIds /\ B \subseteq BountyIds
  OBVIOUS
<1>4. \A u : u \in UnitsIn(as) <=> \E i \in A : u \in UnitsOf(i, as[i].amount)
  BY DEF UnitsIn
<1>5. \A u : u \in UnitsIn(bs) <=> \E i \in B : u \in UnitsOf(i, bs[i].amount)
  BY DEF UnitsIn
<1>6. \A i, n, u : u \in UnitsOf(i, n) => u[1] = i
  BY DEF UnitsOf
<1> HIDE DEF A, B
<1>7. ASSUME NEW u
      PROVE  u \in UnitsIn(bs) <=> u \in UnitsIn(as) \cup UnitsOf(id, bs[id].amount)
  <2>1. \A i \in A : i \in B /\ as[i] = bs[i]
    BY <1>1, <1>2, <1>3
  <2>2. \A i \in B : i = id \/ (i \in A /\ as[i] = bs[i])
    BY <1>2, <1>3
  <2>3. QED
    BY <1>1, <1>4, <1>5, <2>1, <2>2
<1>8. ASSUME NEW u, u \in UnitsIn(as), u \in UnitsOf(id, bs[id].amount)
      PROVE  FALSE
  <2>1. PICK i \in A : u \in UnitsOf(i, as[i].amount)
    BY <1>4, <1>8
  <2>2. u[1] = i /\ u[1] = id
    BY <1>6, <1>8, <2>1, Zenon
  <2>3. QED
    BY <1>1, <2>1, <2>2
<1>9. QED
  BY <1>7, <1>8

-----------------------------------------------------------------------------
\* The inductive invariant behind solvency.  EscrowSolvent alone is not
\* inductive: an exit pays bounties[id].amount, which the balance covers only
\* because the record is typed and counted among the held units, and counting
\* them needs the set to be finite.
SolvencyInv ==
    /\ TypeOK
    /\ RecordConsistent
    /\ IsFiniteSet(HeldUnits)
    /\ EscrowSolvent

LEMMA HeldUnitsIsUnitsIn == HeldUnits = UnitsIn(bounties)
BY DEF HeldUnits, UnitsIn, UnitsOf

\* Locking a bounty's reward while the contract receives its amount keeps the
\* balance equal to the units held.
LEMMA LockingKeepsSolvency ==
  ASSUME SolvencyInv, NEW id \in BountyIds, bounties[id].status \notin Locked,
         bounties'[id].status \in Locked, bounties'[id].amount \in Nat,
         \A i \in BountyIds \ {id} : bounties'[i] = bounties[i],
         balance'[Contract] = balance[Contract] + bounties'[id].amount
  PROVE  IsFiniteSet(HeldUnits') /\ EscrowSolvent'
<1> DEFINE n == bounties'[id].amount
<1>1. /\ UnitsIn(bounties') = UnitsIn(bounties) \cup UnitsOf(id, n)
      /\ UnitsIn(bounties) \cap UnitsOf(id, n) = {}
  BY OneBountyApart
<1>2. /\ IsFiniteSet(UnitsIn(bounties))
      /\ balance[Contract] = Cardinality(UnitsIn(bounties))
  BY HeldUnitsIsUnitsIn DEF SolvencyInv, EscrowSolvent
<1>3. HeldUnits' = UnitsIn(bounties')
  BY DEF HeldUnits, UnitsIn, UnitsOf
<1> HIDE DEF n
<1>4. n \in Nat
  BY DEF n
<1>5. /\ IsFiniteSet(UnitsIn(bounties'))
      /\ Cardinality(UnitsIn(bounties')) = Cardinality(UnitsIn(bounties)) + n
  BY <1>1, <1>2, <1>4, DisjointUnits
<1>6. QED
  BY <1>2, <1>3, <1>5 DEF EscrowSolvent, n

\* Settling a bounty while the contract pays its amount keeps it too.
LEMMA SettlingKeepsSolvency ==
  ASSUME SolvencyInv, NEW id \in BountyIds, bounties[id].status \in Locked,
         bounties'[id].status \notin Locked,
         \A i \in BountyIds \ {id} : bounties'[i] = bounties[i],
         balance'[Contract] = balance[Contract] - bounties[id].amount
  PROVE  IsFiniteSet(HeldUnits') /\ EscrowSolvent'
<1> DEFINE n == bounties[id].amount
<1>1. /\ UnitsIn(bounties) = UnitsIn(bounties') \cup UnitsOf(id, n)
      /\ UnitsIn(bounties') \cap UnitsOf(id, n) = {}
  BY OneBountyApart
<1>2. /\ IsFiniteSet(UnitsIn(bounties))
      /\ balance[Contract] = Cardinality(UnitsIn(bounties))
  BY HeldUnitsIsUnitsIn DEF SolvencyInv, EscrowSolvent
<1>3. HeldUnits' = UnitsIn(bounties')
  BY DEF HeldUnits, UnitsIn, UnitsOf
<1>4. n \in Nat
  BY DEF SolvencyInv, TypeOK, Bounty
<1> HIDE DEF n
<1>5. IsFiniteSet(UnitsIn(bounties'))
  BY <1>1, <1>2, FS_Subset
<1>6. Cardinality(UnitsIn(bounties)) = Cardinality(UnitsIn(bounties')) + n
  BY <1>1, <1>4, <1>5, DisjointUnits
<1>7. Cardinality(UnitsIn(bounties')) \in Nat
  BY <1>5, FS_CardinalityType
<1>8. QED
  BY <1>2, <1>3, <1>4, <1>5, <1>6, <1>7 DEF EscrowSolvent, n

\* A step that leaves the contract's balance, every status and every amount
\* alone keeps solvency.
LEMMA BystandersKeepSolvency ==
  ASSUME SolvencyInv, balance'[Contract] = balance[Contract],
         \A i \in BountyIds : /\ bounties'[i].amount = bounties[i].amount
                              /\ bounties'[i].status \in Locked <=>
                                    bounties[i].status \in Locked
  PROVE  IsFiniteSet(HeldUnits') /\ EscrowSolvent'
<1>1. {i \in BountyIds : bounties'[i].status \in Locked}
        = {i \in BountyIds : bounties[i].status \in Locked}
  OBVIOUS
<1>2. UnitsIn(bounties') = UnitsIn(bounties)
  BY <1>1 DEF UnitsIn
<1>3. HeldUnits' = UnitsIn(bounties')
  BY DEF HeldUnits, UnitsIn, UnitsOf
<1>4. QED
  BY <1>2, <1>3, HeldUnitsIsUnitsIn DEF SolvencyInv, EscrowSolvent

-----------------------------------------------------------------------------
\* The contract always holds exactly the rewards of its open and assigned
\* bounties, for any number of bounties and any amounts.
THEOREM Solvent == Spec => []EscrowSolvent
<1>1. Init => SolvencyInv
  <2> SUFFICES ASSUME Init
               PROVE  IsFiniteSet(HeldUnits) /\ EscrowSolvent
    BY InitialRecords DEF SolvencyInv
  <2>1. HeldUnits = {}
    BY DEF Init, HeldUnits, Missing, Locked
  <2>2. balance[Contract] = 0
    BY DEF Init
  <2>3. QED
    BY <2>1, <2>2, FS_EmptySet DEF EscrowSolvent
<1>2. SolvencyInv /\ TypeOK' /\ RecordConsistent' /\ [Next]_chainVars => SolvencyInv'
  <2> SUFFICES ASSUME SolvencyInv, [Next]_chainVars
               PROVE  IsFiniteSet(HeldUnits') /\ EscrowSolvent'
    BY DEF SolvencyInv
  <2>t. TypeOK /\ RecordConsistent
    BY DEF SolvencyInv
  <2> USE AddressesAssumption, NumbersAssumption DEF Bounty, BountyStatus, Locked, Settled
  <2>1. CASE CloseLedger
    BY <2>1, BystandersKeepSolvency DEF CloseLedger
  <2>2. ASSUME NEW id \in BountyIds, NEW caller \in Accounts,
               NEW amount \in Amounts, NEW criteria \in CriteriaHashes,
               NEW deadline \in Deadlines,
               CreateBounty(id, caller, amount, criteria, deadline)
        PROVE  IsFiniteSet(HeldUnits') /\ EscrowSolvent'
    <3>1. /\ bounties[id].status \notin Locked
          /\ bounties'[id].status \in Locked
          /\ bounties'[id].amount = amount /\ amount \in Nat
          /\ \A i \in BountyIds \ {id} : bounties'[i] = bounties[i]
      BY <2>t, <2>2 DEF TypeOK, CreateBounty
    <3>2. balance'[Contract] = balance[Contract] + amount
      BY <2>t, <2>2 DEF TypeOK, CreateBounty, Transfer
    <3>3. QED
      BY <3>1, <3>2, LockingKeepsSolvency
  <2>3. ASSUME NEW id \in BountyIds, NEW caller \in Accounts,
               AcceptBounty(id, caller)
        PROVE  IsFiniteSet(HeldUnits') /\ EscrowSolvent'
    <3>1. \A i \in BountyIds : /\ bounties'[i].amount = bounties[i].amount
                               /\ bounties'[i].status \in Locked <=>
                                     bounties[i].status \in Locked
      BY <2>t, <2>3 DEF TypeOK, AcceptBounty
    <3>2. balance'[Contract] = balance[Contract]
      BY <2>3 DEF AcceptBounty
    <3>3. QED
      BY <3>1, <3>2, BystandersKeepSolvency
  <2>4. ASSUME NEW id \in BountyIds, NEW caller \in Accounts,
               NEW evidence \in EvidenceHashes, ReleaseBounty(caller, id, evidence)
        PROVE  IsFiniteSet(HeldUnits') /\ EscrowSolvent'
    <3>1. /\ bounties[id].status \in Locked
          /\ bounties'[id].status \notin Locked
          /\ \A i \in BountyIds \ {id} : bounties'[i] = bounties[i]
      BY <2>t, <2>4 DEF TypeOK, ReleaseBounty
    <3>2. balance'[Contract] = balance[Contract] - bounties[id].amount
      BY <2>t, <2>4 DEF TypeOK, ReleaseBounty, Transfer
    <3>3. QED
      BY <3>1, <3>2, SettlingKeepsSolvency
  <2>5. ASSUME NEW id \in BountyIds, NEW caller \in Accounts,
               CancelOpenBounty(caller, id)
        PROVE  IsFiniteSet(HeldUnits') /\ EscrowSolvent'
    <3>1. /\ bounties[id].status \in Locked
          /\ bounties'[id].status \notin Locked
          /\ \A i \in BountyIds \ {id} : bounties'[i] = bounties[i]
      BY <2>t, <2>5 DEF TypeOK, CancelOpenBounty
    <3>2. balance'[Contract] = balance[Contract] - bounties[id].amount
      BY <2>t, <2>5 DEF TypeOK, CancelOpenBounty, Transfer
    <3>3. QED
      BY <3>1, <3>2, SettlingKeepsSolvency
  <2>6. ASSUME NEW id \in BountyIds, NEW caller \in Accounts,
               RefundExpired(caller, id)
        PROVE  IsFiniteSet(HeldUnits') /\ EscrowSolvent'
    <3>1. /\ bounties[id].status \in Locked
          /\ bounties'[id].status \notin Locked
          /\ \A i \in BountyIds \ {id} : bounties'[i] = bounties[i]
      BY <2>t, <2>6 DEF TypeOK, RefundExpired
    <3>2. balance'[Contract] = balance[Contract] - bounties[id].amount
      BY <2>t, <2>6 DEF TypeOK, RefundExpired, Transfer
    <3>3. QED
      BY <3>1, <3>2, SettlingKeepsSolvency
  <2>7. CASE UNCHANGED chainVars
    BY <2>7, BystandersKeepSolvency DEF chainVars
  <2>8. QED
    BY <2>1, <2>2, <2>3, <2>4, <2>5, <2>6, <2>7 DEF Next
<1>3. SolvencyInv => EscrowSolvent
  BY DEF SolvencyInv
<1>4. QED
  BY <1>1, <1>2, <1>3, TypeCorrect, RecordsConsistent, PTL DEF Spec

\* Solvency means that no exit can trap: whatever the other bounties did, the
\* contract can pay the reward of each open or assigned one.
THEOREM EveryExitIsCovered ==
  ASSUME SolvencyInv, NEW id \in BountyIds, bounties[id].status \in Locked
  PROVE  balance[Contract] >= bounties[id].amount
<1> DEFINE n == bounties[id].amount
<1>1. UnitsOf(id, n) \subseteq HeldUnits
  BY DEF HeldUnits, UnitsOf
<1>2. n \in Nat
  BY DEF SolvencyInv, TypeOK, Bounty
<1>3. Cardinality(UnitsOf(id, n)) = n
  BY <1>2, UnitsCount
<1>4. Cardinality(UnitsOf(id, n)) <= Cardinality(HeldUnits)
  BY <1>1, FS_Subset DEF SolvencyInv
<1>5. Cardinality(HeldUnits) \in Nat
  BY FS_CardinalityType DEF SolvencyInv
<1>6. QED
  BY <1>2, <1>3, <1>4, <1>5 DEF SolvencyInv, EscrowSolvent

-----------------------------------------------------------------------------
\* The five ways one stored bounty can change in a step, with the clock and the
\* fields each leaves alone.  Every action property of a bounty follows from it.
BountyStep(id) ==
    LET old == bounties[id]
        new == bounties'[id]
        Kept == Terms(new) = Terms(old)
    IN  \/ new = old
        \/ old.status = "Missing" /\ new.status = "Open"
        \/ /\ old.status = "Open" /\ new.status = "Assigned"
           /\ Kept /\ now <= old.deadline
        \/ /\ old.status = "Assigned" /\ new.status = "Paid"
           /\ Kept /\ new.developer = old.developer /\ now <= old.deadline
        \/ /\ old.status = "Open" /\ new.status = "Cancelled"
           /\ Kept /\ new.developer = old.developer /\ now <= old.deadline
        \/ /\ old.status \in Locked /\ new.status = "Refunded"
           /\ Kept /\ new.developer = old.developer /\ now > old.deadline

\* Every step of the contract changes each bounty in one of those ways.
LEMMA EveryStepIsABountyStep ==
  TypeOK /\ [Next]_chainVars => \A id \in BountyIds : BountyStep(id)
<1> SUFFICES ASSUME TypeOK, [Next]_chainVars, NEW b \in BountyIds
             PROVE  BountyStep(b)
  OBVIOUS
<1> USE DEF TypeOK, Bounty, BountyStep, Terms, Locked
<1>1. CASE CloseLedger
  BY <1>1 DEF CloseLedger
<1>2. ASSUME NEW id \in BountyIds, NEW caller \in Accounts,
             NEW amount \in Amounts, NEW criteria \in CriteriaHashes,
             NEW deadline \in Deadlines,
             CreateBounty(id, caller, amount, criteria, deadline)
      PROVE  BountyStep(b)
  BY <1>2 DEF CreateBounty
<1>3. ASSUME NEW id \in BountyIds, NEW caller \in Accounts, AcceptBounty(id, caller)
      PROVE  BountyStep(b)
  BY <1>3 DEF AcceptBounty
<1>4. ASSUME NEW id \in BountyIds, NEW caller \in Accounts,
             NEW evidence \in EvidenceHashes, ReleaseBounty(caller, id, evidence)
      PROVE  BountyStep(b)
  BY <1>4 DEF ReleaseBounty
<1>5. ASSUME NEW id \in BountyIds, NEW caller \in Accounts, CancelOpenBounty(caller, id)
      PROVE  BountyStep(b)
  BY <1>5 DEF CancelOpenBounty
<1>6. ASSUME NEW id \in BountyIds, NEW caller \in Accounts, RefundExpired(caller, id)
      PROVE  BountyStep(b)
  BY <1>6 DEF RefundExpired
<1>7. CASE UNCHANGED chainVars
  BY <1>7 DEF chainVars
<1>8. QED
  BY <1>1, <1>2, <1>3, <1>4, <1>5, <1>6, <1>7 DEF Next

\* A bounty that was paid, cancelled or refunded never changes again.
THEOREM SettledBountiesAreFinal == Spec => SettledIsFinal
<1>1. TypeOK /\ [Next]_chainVars =>
        (\A id \in BountyIds :
            bounties[id].status \in Settled => bounties'[id] = bounties[id])
  BY EveryStepIsABountyStep DEF BountyStep, Settled, Locked
<1>2. QED
  BY <1>1, TypeCorrect, PTL DEF Spec, SettledIsFinal

\* Payouts and cancellations happen up to the deadline, refunds after it.
THEOREM DeadlineDecidesTheExit == Spec => DeadlineSeparatesExits
<1> DEFINE Split ==
      \A id \in BountyIds :
            bounties'[id].status # bounties[id].status =>
                CASE bounties'[id].status = "Refunded" -> now > bounties[id].deadline
                  [] bounties'[id].status \in {"Paid", "Cancelled"} ->
                        now <= bounties[id].deadline
                  [] OTHER -> TRUE
<1>1. TypeOK /\ [Next]_chainVars => Split
  BY EveryStepIsABountyStep DEF BountyStep, Locked
<1>2. QED
  BY <1>1, TypeCorrect, PTL DEF Spec, DeadlineSeparatesExits

\* The terms of a bounty, and its developer once there is one, never change.
THEOREM TermsNeverChange == Spec => TermsAreFrozen
<1> DEFINE Frozen ==
      \A id \in BountyIds :
            bounties[id].status # "Missing" =>
                /\ Terms(bounties'[id]) = Terms(bounties[id])
                /\ bounties[id].developer # None =>
                        bounties'[id].developer = bounties[id].developer
<1>1. TypeOK /\ RecordConsistent /\ [Next]_chainVars => Frozen
  BY EveryStepIsABountyStep DEF BountyStep, RecordConsistent
<1>2. QED
  BY <1>1, TypeCorrect, RecordsConsistent, PTL DEF Spec, TermsAreFrozen

-----------------------------------------------------------------------------
\* Replacing one bounty replaces one reward.
LEMMA RewardOfOne ==
  ASSUME TypeOK, NEW id \in BountyIds, NEW b,
         bounties' = [bounties EXCEPT ![id] = b]
  PROVE  RewardOf' = [RewardOf EXCEPT ![id] =
                        [stage |-> StageOf(b.status), owner |-> b.client,
                         payee |-> b.developer, amount |-> b.amount]]
BY DEF TypeOK, RewardOf

\* The escrow contract implements its promise: each step deposits a reward,
\* commits it to the developer who accepted, pays it, returns it, or leaves
\* money and commitments alone.
THEOREM EscrowKeepsItsPromise == Spec => KeepsPromise
<1>1. Init => Promise!PInit
  BY DEF Init, Missing, Promise!PInit, Promise!NoReward, RewardOf, StageOf, Locked
<1>2. TypeOK /\ RecordConsistent /\ [Next]_chainVars
        => [Promise!PNext]_(Promise!promiseVars)
  <2> SUFFICES ASSUME TypeOK, RecordConsistent, [Next]_chainVars
               PROVE  Promise!PNext \/ UNCHANGED <<balance, RewardOf>>
    BY DEF Promise!promiseVars
  <2> USE DEF Locked
  <2>1. CASE CloseLedger
    BY <2>1 DEF CloseLedger, RewardOf
  <2>2. ASSUME NEW id \in BountyIds, NEW caller \in Accounts,
               NEW amount \in Amounts, NEW criteria \in CriteriaHashes,
               NEW deadline \in Deadlines,
               CreateBounty(id, caller, amount, criteria, deadline)
        PROVE  Promise!PNext
    <3>1. RewardOf[id].stage = "absent"
      BY <2>2 DEF CreateBounty, RewardOf, StageOf
    <3>2. RewardOf' = [RewardOf EXCEPT ![id] =
              [stage |-> "held", owner |-> caller, payee |-> None, amount |-> amount]]
      BY <2>2, RewardOfOne DEF CreateBounty, StageOf
    <3>3. Promise!Deposit(id, caller, amount)
      BY <2>2, <3>1, <3>2 DEF CreateBounty, Transfer, Promise!Deposit, Promise!Move
    <3>4. QED
      BY <3>3 DEF Promise!PNext
  <2>3. ASSUME NEW id \in BountyIds, NEW caller \in Accounts,
               AcceptBounty(id, caller)
        PROVE  Promise!PNext
    <3>1. RewardOf[id].stage = "held" /\ RewardOf[id].payee = None
      BY <2>3 DEF AcceptBounty, RewardOf, StageOf, RecordConsistent
    <3>2. RewardOf' = [RewardOf EXCEPT ![id].payee = caller]
      BY <2>3 DEF AcceptBounty, RewardOf, StageOf, TypeOK, Bounty
    <3>3. Promise!Commit(id, caller)
      BY <2>3, <3>1, <3>2 DEF AcceptBounty, Promise!Commit
    <3>4. QED
      BY <3>3 DEF Promise!PNext
  <2>4. ASSUME NEW id \in BountyIds, NEW caller \in Accounts,
               NEW evidence \in EvidenceHashes, ReleaseBounty(caller, id, evidence)
        PROVE  Promise!PNext
    <3>1. /\ RewardOf[id].stage = "held"
          /\ RewardOf[id].payee = bounties[id].developer
          /\ RewardOf[id].amount = bounties[id].amount
      BY <2>4 DEF ReleaseBounty, RewardOf, StageOf
    <3>2. RewardOf' = [RewardOf EXCEPT ![id].stage = "paid"]
      BY <2>4 DEF ReleaseBounty, RewardOf, StageOf, TypeOK, Bounty
    <3>3. Promise!Pay(id)
      BY <2>4, <3>1, <3>2
         DEF ReleaseBounty, Transfer, Promise!Pay, Promise!Move
    <3>4. QED
      BY <3>3 DEF Promise!PNext
  <2>5. ASSUME NEW id \in BountyIds, NEW caller \in Accounts,
               CancelOpenBounty(caller, id)
        PROVE  Promise!PNext
    <3>1. /\ RewardOf[id].stage = "held"
          /\ RewardOf[id].owner = bounties[id].client
          /\ RewardOf[id].amount = bounties[id].amount
      BY <2>5 DEF CancelOpenBounty, RewardOf, StageOf
    <3>2. RewardOf' = [RewardOf EXCEPT ![id].stage = "returned"]
      BY <2>5 DEF CancelOpenBounty, RewardOf, StageOf, TypeOK, Bounty
    <3>3. Promise!Return(id)
      BY <2>5, <3>1, <3>2
         DEF CancelOpenBounty, Transfer, Promise!Return, Promise!Move
    <3>4. QED
      BY <3>3 DEF Promise!PNext
  <2>6. ASSUME NEW id \in BountyIds, NEW caller \in Accounts,
               RefundExpired(caller, id)
        PROVE  Promise!PNext
    <3>1. /\ RewardOf[id].stage = "held"
          /\ RewardOf[id].owner = bounties[id].client
          /\ RewardOf[id].amount = bounties[id].amount
      BY <2>6 DEF RefundExpired, RewardOf, StageOf
    <3>2. RewardOf' = [RewardOf EXCEPT ![id].stage = "returned"]
      BY <2>6 DEF RefundExpired, RewardOf, StageOf, TypeOK, Bounty
    <3>3. Promise!Return(id)
      BY <2>6, <3>1, <3>2
         DEF RefundExpired, Transfer, Promise!Return, Promise!Move
    <3>4. QED
      BY <3>3 DEF Promise!PNext
  <2>7. CASE UNCHANGED chainVars
    BY <2>7 DEF chainVars, RewardOf
  <2>8. QED
    BY <2>1, <2>2, <2>3, <2>4, <2>5, <2>6, <2>7 DEF Next
<1>3. QED
  BY <1>1, <1>2, TypeCorrect, RecordsConsistent, PTL
     DEF Spec, KeepsPromise, Promise!Promised

-----------------------------------------------------------------------------
(* What a request knows.  A request acts on what it read earlier, so the      *)
(* invariant says of each read what is still true of it when it is used.      *)
(* These are operators of the values they speak of, not of the variables:     *)
(* one lemma then says that a request's knowledge lasts while others act.     *)

PastDraft(aRow) == aRow.status \notin {"absent", "DRAFT"}

EscrowedBy(wallet, onChain) ==
    /\ onChain.status # "Missing"
    /\ onChain.client = wallet
    /\ onChain.amount = TaskTerms.amount
    /\ onChain.criteria_hash = TaskTerms.criteria_hash
    /\ onChain.deadline = TaskTerms.deadline

\* What was loaded has not been undone, and if the client was not known then it
\* can only have become the client on chain.
LoadKnown(r, aRow, onChain) ==
    r.step # "idle" =>
        /\ aRow.status # "absent"
        /\ r.loaded.release_tx_hash # None => aRow.release_tx_hash # None
        /\ \/ aRow.client_wallet = r.loaded.client_wallet
           \/ /\ r.loaded.client_wallet = None
              /\ onChain.status # "Missing" /\ aRow.client_wallet = onChain.client

FundingKnown(r, onChain) ==
    /\ r.step \in {"funding", "funded"} =>
            /\ r.wallet \in Accounts
            /\ r.loaded.status = "DRAFT"
            /\ r.loaded.client_wallet \in {None, r.wallet}
    /\ r.step = "funded" => EscrowedBy(r.wallet, onChain)

AssignmentKnown(r, onChain) ==
    /\ r.step \in {"assigning", "assigned"} =>
            /\ r.wallet \in Accounts /\ r.github \in Githubs
            /\ r.loaded.client_wallet \notin {None, r.wallet}
    /\ r.step = "assigned" =>
            onChain.status # "Missing" /\ onChain.developer = r.wallet

DeliveryKnown(r, aRow, passed, sent) ==
    /\ r.step \notin {"idle", "funding", "funded"} => PastDraft(aRow)
    /\ r.step \in {"verifying", "eligible", "releasing", "polling"} =>
            aRow.base_sha # None /\ aRow.developer_github # None
    /\ r.step \in {"eligible", "releasing", "polling"} =>
            r.head \in Heads /\ \E p \in passed : p.head_sha = r.head
    /\ r.step \in {"releasing", "polling"} =>
            r.evidence \in Evidence /\ r.evidence.head_sha = r.head
    /\ r.step = "polling" => r.tx \in 1..sent

Known(r, aRow, onChain, passed, sent) ==
    /\ LoadKnown(r, aRow, onChain)
    /\ FundingKnown(r, onChain)
    /\ AssignmentKnown(r, onChain)
    /\ DeliveryKnown(r, aRow, passed, sent)

\* What may become of the row, and of the bounty on chain, while a request waits.
RowGrows(a, b, onChain) ==
    /\ a.status # "absent" => b.status # "absent"
    /\ PastDraft(a) => PastDraft(b)
    /\ a.base_sha # None => b.base_sha # None
    /\ a.developer_github # None => b.developer_github # None
    /\ a.developer_wallet # None => b.developer_wallet # None
    /\ a.release_tx_hash # None => b.release_tx_hash # None
    /\ \/ b.client_wallet = a.client_wallet
       \/ /\ a.client_wallet = None
          /\ onChain.status # "Missing" /\ b.client_wallet = onChain.client

ChainGrows(c, d) ==
    /\ c.status # "Missing" =>
            /\ d.status # "Missing" /\ Terms(d) = Terms(c)
            /\ c.developer # None => d.developer = c.developer
    /\ c.status = "Paid" => d = c

LEMMA KnowledgeLasts ==
  ASSUME NEW r, NEW a, NEW b, NEW c, NEW d, NEW P, NEW Q, NEW m \in Nat, NEW n \in Nat,
         r.step # "idle" => RowGrows(a, b, d),
         ChainGrows(c, d), P \subseteq Q, m <= n,
         r.step = "assigned" => r.wallet # None,
         Known(r, a, c, P, m)
  PROVE  Known(r, b, d, Q, n)
<1> USE DEF Known, RowGrows, ChainGrows, Terms, PastDraft
<1>1. LoadKnown(r, b, d)
  BY DEF LoadKnown
<1>2. FundingKnown(r, d)
  BY DEF FundingKnown, EscrowedBy
<1>3. AssignmentKnown(r, d)
  BY DEF AssignmentKnown
<1>4. DeliveryKnown(r, b, Q, n)
  BY DEF DeliveryKnown, LoadKnown
<1>5. QED
  BY <1>1, <1>2, <1>3, <1>4

-----------------------------------------------------------------------------
RequestsInv ==
    \A w \in Workers : Known(requests[w], row, OnChain, passes, Len(releases))

\* What the row says is true on chain.
RowInv ==
    /\ row.status = "absent" => row = NoRow
    /\ row.developer_wallet # None => row.client_wallet # None /\ PastDraft(row)
    /\ row.release_tx_hash # None => row.release_tx_hash \in 1..Len(releases)
    /\ FundedTaskIsEscrowed
    /\ DeveloperAcceptedOnChain
    /\ RecordedPayoutHappened

\* At most one release succeeds, and it is the payout the chain shows; all that
\* are sent carry a head commit that passed.
PayoutInv ==
    /\ \A tx \in 1..Len(releases) :
            \E p \in passes : p.head_sha = releases[tx].evidence.head_sha
    /\ \A tx \in 1..Len(releases) :
            releases[tx].outcome = "success" =>
                /\ OnChain.status = "Paid"
                /\ OnChain.evidence_hash = releases[tx].evidence
    /\ \A s, t \in 1..Len(releases) :
            releases[s].outcome = "success" /\ releases[t].outcome = "success" => s = t
    /\ PayoutBackedByPass

\* The inductive invariant.  None of the properties is inductive alone: what a
\* commit writes is right only because of what its request read before.
ServiceInv ==
    /\ ServiceTypeOK /\ RecordConsistent
    /\ RequestsInv /\ RowInv /\ PayoutInv

-----------------------------------------------------------------------------
\* The API and the wallets reach the chain only through the contract's calls.
LEMMA ServiceCallsTheContract ==
  ServiceTypeOK /\ [ServiceNext]_vars => [Next]_chainVars
<1> SUFFICES ASSUME ServiceTypeOK, [ServiceNext]_vars
             PROVE  Next \/ UNCHANGED chainVars
  OBVIOUS
<1>1. CASE \E wallet \in Accounts : CreateTask(wallet)
  BY <1>1 DEF CreateTask
<1>2. ASSUME NEW w \in Workers, RequestStep(w)
      PROVE  UNCHANGED chainVars
  BY <1>2 DEF RequestStep, RequestFunding, RequestAssignment, RequestSubmission,
              RequestVerification, ReadFundedBounty, CommitFunding, ReadAssignedBounty,
              CommitAssignment, CommitSubmission, CommitVerdict, ReloadForPayout,
              SendRelease, CommitPayout, Abandon
<1>3. ASSUME NEW tx \in 1..Len(releases), LandRelease(tx)
      PROVE  Next
  <2>1. releases[tx] \in Release
    BY DEF ServiceTypeOK
  <2>2. releases[tx].evidence \in EvidenceHashes
    BY <2>1, EvidenceAssumption DEF Release
  <2>3. Task \in BountyIds /\ Verifier \in Accounts
    BY TaskAssumption, AddressesAssumption
  <2>4. QED
    BY <1>3, <2>2, <2>3 DEF LandRelease, Next
<1>4. ASSUME NEW tx \in 1..Len(releases), RejectRelease(tx) \/ ExpireRelease(tx)
      PROVE  UNCHANGED chainVars
  BY <1>4 DEF RejectRelease, ExpireRelease
<1>5. CASE WalletStep
  BY <1>5, TaskAssumption DEF WalletStep, Next
<1>6. CASE UNCHANGED vars
  BY <1>6 DEF vars, chainVars
<1>7. QED
  BY <1>1, <1>2, <1>3, <1>4, <1>5, <1>6 DEF ServiceNext, NetworkStep

\* Whatever the contract does, what is known of the task's bounty remains.
LEMMA BountyGrows ==
  ASSUME TypeOK, RecordConsistent, [Next]_chainVars
  PROVE  ChainGrows(OnChain, OnChain')
<1>1. BountyStep(Task) /\ Task \in BountyIds
  BY EveryStepIsABountyStep, TaskAssumption
<1>2. QED
  BY <1>1 DEF BountyStep, ChainGrows, OnChain, Terms, RecordConsistent, Locked

-----------------------------------------------------------------------------
(* Types. *)

\* A flush writes values of the session or keeps what is stored.
LEMMA FlushKeepsTypes ==
  ASSUME row \in Row, NEW loaded \in Row, NEW mine \in Row, Flush(loaded, mine)
  PROVE  row' \in Row
BY DEF Flush, Row

\* What is started, and what stays when a request ends.
LEMMA RequestsKeepTypes ==
  ASSUME requests \in [Workers -> Request], NEW w \in Workers, NEW r \in Request,
         requests' = [requests EXCEPT ![w] = r]
  PROVE  requests' \in [Workers -> Request]
OBVIOUS

LEMMA IdleIsARequest == Idle \in Request /\ NoRow \in Row
BY DEF Idle, NoRow, Request, Row, Steps

\* What the service keeps of its own.
OwnTypes ==
    /\ row \in Row
    /\ has_submission \in BOOLEAN
    /\ passes \in SUBSET Evidence
    /\ requests \in [Workers -> Request]
    /\ releases \in Seq(Release)
    /\ Len(releases) <= MaxReleases

LEMMA StepsKeepTypes ==
  ASSUME ServiceTypeOK, RequestsInv, NEW w \in Workers, RequestStep(w)
  PROVE  OwnTypes'
<1> DEFINE r == requests[w]
<1>t. /\ row \in Row /\ has_submission \in BOOLEAN /\ passes \in SUBSET Evidence
      /\ requests \in [Workers -> Request] /\ releases \in Seq(Release)
      /\ Len(releases) <= MaxReleases /\ r \in Request /\ Idle \in Request
  BY IdleIsARequest DEF ServiceTypeOK
<1>k. Known(r, row, OnChain, passes, Len(releases))
  BY DEF RequestsInv
<1> USE DEF OwnTypes
<1>1. ASSUME NEW wallet \in Accounts, RequestFunding(w, wallet)
      PROVE  OwnTypes'
  <2>1. [Idle EXCEPT !.step = "funding", !.loaded = row, !.wallet = wallet] \in Request
    BY <1>t DEF Idle, Request, Steps
  <2>2. QED
    BY <1>t, <1>1, <2>1, RequestsKeepTypes DEF RequestFunding, Start
<1>2. ASSUME NEW wallet \in Accounts, NEW github \in Githubs,
             RequestAssignment(w, wallet, github)
      PROVE  OwnTypes'
  <2>1. [Idle EXCEPT !.step = "assigning", !.loaded = row,
                     !.wallet = wallet, !.github = github] \in Request
    BY <1>t DEF Idle, Request, Steps
  <2>2. QED
    BY <1>t, <1>2, <2>1, RequestsKeepTypes DEF RequestAssignment, Start
<1>3. ASSUME NEW wallet \in Accounts,
             RequestSubmission(w, wallet) \/ RequestVerification(w, wallet)
      PROVE  OwnTypes'
  <2>1. /\ [Idle EXCEPT !.step = "submitting", !.loaded = row] \in Request
        /\ [Idle EXCEPT !.step = "verifying", !.loaded = row] \in Request
    BY <1>t DEF Idle, Request, Steps
  <2>2. QED
    BY <1>t, <1>3, <2>1, RequestsKeepTypes
       DEF RequestSubmission, RequestVerification, Start
<1>4. CASE ReadFundedBounty(w) \/ ReadAssignedBounty(w)
  <2>1. /\ [r EXCEPT !.step = "funded"] \in Request
        /\ [r EXCEPT !.step = "assigned"] \in Request
    BY <1>t DEF Request, Steps
  <2>2. QED
    BY <1>t, <1>4, <2>1, RequestsKeepTypes DEF ReadFundedBounty, ReadAssignedBounty
<1>5. ASSUME NEW sha \in BaseShas, CommitFunding(w, sha)
      PROVE  OwnTypes'
  <2>1. r.wallet \in Accounts /\ r.loaded \in Row
    BY <1>t, <1>k, <1>5 DEF CommitFunding, At, Known, FundingKnown, Request
  <2>2. [r.loaded EXCEPT !.client_wallet = r.wallet, !.base_sha = sha,
                         !.status = "OPEN_FUNDED"] \in Row
    BY <2>1 DEF Row, RowStatuses
  <2>3. row' \in Row
    BY <1>t, <1>5, <2>1, <2>2, FlushKeepsTypes DEF CommitFunding
  <2>4. QED
    BY <1>t, <1>5, <2>3, RequestsKeepTypes DEF CommitFunding, Finish
<1>6. CASE CommitAssignment(w)
  <2>1. r.wallet \in Accounts /\ r.github \in Githubs /\ r.loaded \in Row
    BY <1>t, <1>k, <1>6 DEF CommitAssignment, At, Known, AssignmentKnown, Request
  <2>2. [r.loaded EXCEPT !.developer_wallet = r.wallet, !.developer_github = r.github,
                         !.status = "ASSIGNED"] \in Row
    BY <2>1 DEF Row, RowStatuses
  <2>3. row' \in Row
    BY <1>t, <1>6, <2>1, <2>2, FlushKeepsTypes DEF CommitAssignment
  <2>4. QED
    BY <1>t, <1>6, <2>3, RequestsKeepTypes DEF CommitAssignment, Finish
<1>7. ASSUME NEW inspection \in Inspection, CommitSubmission(w, inspection)
      PROVE  OwnTypes'
  <2>1. [r.loaded EXCEPT !.status = "SUBMITTED"] \in Row /\ r.loaded \in Row
    BY <1>t DEF Row, RowStatuses, VERIFIABLE_STATUSES, Request
  <2>2. row' \in Row
    BY <1>t, <1>7, <2>1, FlushKeepsTypes DEF CommitSubmission
  <2>3. QED
    BY <1>t, <1>7, <2>2, RequestsKeepTypes DEF CommitSubmission, Finish
<1>8. ASSUME NEW inspection \in Inspection, CommitVerdict(w, inspection)
      PROVE  OwnTypes'
  <2> DEFINE verdict == Verdict(inspection, r.loaded)
  <2>1. verdict \in {"PASS", "FAIL", "PENDING"}
    BY <1>8 DEF Verdict, VerdictOfChecks, Inspection
  <2> HIDE DEF verdict
  <2>2. BOUNTY_STATUS_BY_VERIFICATION[verdict] \in VERIFIABLE_STATUSES
    BY <2>1 DEF BOUNTY_STATUS_BY_VERIFICATION, VERIFIABLE_STATUSES
  <2>3. /\ r.loaded \in Row
        /\ [r.loaded EXCEPT !.status = BOUNTY_STATUS_BY_VERIFICATION[verdict]] \in Row
    BY <1>t, <2>2 DEF Row, RowStatuses, Request
  <2>4. row' \in Row
    BY <1>t, <1>8, <2>3, FlushKeepsTypes DEF CommitVerdict, verdict
  <2>5. passes' \in SUBSET Evidence
    BY <1>t, <1>8 DEF CommitVerdict, Evidence, Inspection
  <2>6. [r EXCEPT !.step = "eligible", !.head = inspection.head_sha] \in Request
    BY <1>t, <1>8 DEF Request, Steps, Inspection
  <2>7. requests' \in [Workers -> Request]
    BY <1>t, <1>8, <2>6, RequestsKeepTypes DEF CommitVerdict, Finish
  <2>8. QED
    BY <1>t, <1>8, <2>4, <2>5, <2>7 DEF CommitVerdict
<1>9. CASE ReloadForPayout(w)
  <2>1. /\ row.base_sha \in BaseShas /\ row.developer_github \in Githubs
        /\ r.head \in Heads
    BY <1>t, <1>k, <1>9 DEF ReloadForPayout, At, Known, DeliveryKnown, Row
  <2>2. [base_sha |-> row.base_sha, developer_github |-> row.developer_github,
         head_sha |-> r.head] \in Evidence
    BY <2>1 DEF Evidence
  <2>3. [r EXCEPT !.step = "releasing", !.loaded = row,
                  !.evidence = [base_sha |-> row.base_sha,
                                developer_github |-> row.developer_github,
                                head_sha |-> r.head]] \in Request
    BY <1>t, <2>2 DEF Request, Steps
  <2>4. QED
    BY <1>t, <1>9, <2>3, RequestsKeepTypes DEF ReloadForPayout
<1>10. CASE SendRelease(w)
  <2>1. r.evidence \in Evidence
    BY <1>k, <1>10 DEF SendRelease, At, Known, DeliveryKnown
  <2>2. [evidence |-> r.evidence, outcome |-> "pending"] \in Release
    BY <2>1 DEF Release, Outcomes
  <2>3. Len(releases) + 1 \in 1..MaxReleases
    BY <1>t, <1>10, TaskAssumption DEF SendRelease
  <2>4. [r EXCEPT !.step = "polling", !.tx = Len(releases) + 1] \in Request
    BY <1>t, <2>3 DEF Request, Steps
  <2>5. releases' \in Seq(Release) /\ Len(releases') <= MaxReleases
    BY <1>t, <1>10, <2>2, <2>3 DEF SendRelease
  <2>6. requests' \in [Workers -> Request]
    BY <1>t, <1>10, <2>4, RequestsKeepTypes DEF SendRelease
  <2>7. QED
    BY <1>t, <1>10, <2>5, <2>6 DEF SendRelease
<1>11. CASE CommitPayout(w)
  <2>1. r.tx \in 1..MaxReleases /\ r.loaded \in Row
    BY <1>t, <1>k, <1>11, TaskAssumption
       DEF CommitPayout, At, Known, DeliveryKnown, Request
  <2>2. [r.loaded EXCEPT !.release_tx_hash = r.tx, !.status = "PAID"] \in Row
    BY <2>1 DEF Row, RowStatuses
  <2>3. row' \in Row
    BY <1>t, <1>11, <2>1, <2>2, FlushKeepsTypes DEF CommitPayout
  <2>4. QED
    BY <1>t, <1>11, <2>3, RequestsKeepTypes DEF CommitPayout, Finish
<1>12. CASE Abandon(w)
  BY <1>t, <1>12, RequestsKeepTypes DEF Abandon, Finish
<1>13. QED
  BY <1>1, <1>2, <1>3, <1>4, <1>5, <1>6, <1>7, <1>8, <1>9, <1>10, <1>11, <1>12
     DEF RequestStep

\* The other steps: a task is created, the network settles a release, a wallet
\* calls the contract.
LEMMA OtherStepsKeepTypes ==
  ASSUME ServiceTypeOK,
         \/ \E wallet \in Accounts : CreateTask(wallet)
         \/ NetworkStep \/ WalletStep \/ UNCHANGED vars
  PROVE  OwnTypes'
<1>t. /\ row \in Row /\ has_submission \in BOOLEAN /\ passes \in SUBSET Evidence
      /\ requests \in [Workers -> Request] /\ releases \in Seq(Release)
      /\ Len(releases) <= MaxReleases
  BY DEF ServiceTypeOK
<1>1. ASSUME NEW wallet \in Accounts, CreateTask(wallet)
      PROVE  OwnTypes'
  <2>1. row' \in Row
    BY <1>1, IdleIsARequest DEF CreateTask, Row, RowStatuses
  <2>2. QED
    BY <1>t, <1>1, <2>1 DEF CreateTask, OwnTypes
<1>2. ASSUME NEW tx \in 1..Len(releases),
             LandRelease(tx) \/ RejectRelease(tx) \/ ExpireRelease(tx)
      PROVE  OwnTypes'
  <2>1. PICK o \in Outcomes : releases' = [releases EXCEPT ![tx].outcome = o]
    BY <1>2 DEF LandRelease, RejectRelease, ExpireRelease, Outcomes
  <2> DEFINE settled == [releases[tx] EXCEPT !.outcome = o]
  <2>2. releases[tx] \in Release
    BY <1>t
  <2>3. settled \in Release /\ releases' = [releases EXCEPT ![tx] = settled]
    BY <2>1, <2>2 DEF Release
  <2> HIDE DEF settled
  <2>4. releases' \in Seq(Release) /\ Len(releases') = Len(releases)
    BY <1>t, <2>3
  <2>5. QED
    BY <1>t, <1>2, <2>4 DEF OwnTypes, LandRelease, RejectRelease, ExpireRelease
<1>3. CASE WalletStep \/ UNCHANGED vars
  BY <1>t, <1>3 DEF OwnTypes, WalletStep, serviceVars, vars
<1>4. QED
  BY <1>1, <1>2, <1>3 DEF NetworkStep

\* Together with the contract's own types.
LEMMA ServiceKeepsTypes ==
  ServiceInv /\ [ServiceNext]_vars => ServiceTypeOK' /\ RecordConsistent'
<1> SUFFICES ASSUME ServiceInv, [ServiceNext]_vars
             PROVE  ServiceTypeOK' /\ RecordConsistent'
  OBVIOUS
<1>1. ServiceTypeOK /\ RequestsInv /\ TypeOK /\ RecordConsistent
  BY DEF ServiceInv, ServiceTypeOK
<1>2. [Next]_chainVars
  BY <1>1, ServiceCallsTheContract
<1>3. TypeOK' /\ RecordConsistent'
  BY <1>1, <1>2, CallsKeepTypes, CallsKeepRecords
<1>4. OwnTypes'
  BY <1>1, StepsKeepTypes, OtherStepsKeepTypes DEF ServiceNext
<1>5. QED
  BY <1>3, <1>4 DEF ServiceTypeOK, OwnTypes

-----------------------------------------------------------------------------
(* What a request's own step does to what it knows and to what others know. *)

\* Nothing is claimed of a worker without a request.
LEMMA IdleKnows ==
  ASSUME NEW a, NEW c, NEW P, NEW n
  PROVE  Known(Idle, a, c, P, n)
BY DEF Known, LoadKnown, FundingKnown, AssignmentKnown, DeliveryKnown, Idle

Advances(w) ==
    /\ RowGrows(row, row', OnChain)
    /\ passes \subseteq passes'
    /\ Len(releases) <= Len(releases')
    /\ \A v \in Workers \ {w} : requests'[v] = requests[v]
    /\ Known(requests'[w], row', OnChain, passes', Len(releases'))

\* Each step leaves its request knowing what its next step relies on, and takes
\* nothing from the row that another request has seen.
LEMMA StepsAdvance ==
  ASSUME ServiceInv, NEW w \in Workers, RequestStep(w)
  PROVE  Advances(w)
<1> DEFINE r == requests[w]
<1>t. /\ row \in Row /\ requests \in [Workers -> Request] /\ r \in Request
      /\ releases \in Seq(Release) /\ Len(releases) \in Nat
      /\ None \notin Githubs /\ None \notin BaseShas /\ None \notin Accounts
  BY TaskAssumption, AddressesAssumption DEF ServiceInv, ServiceTypeOK
<1>k. Known(r, row, OnChain, passes, Len(releases)) /\ RowInv
  BY DEF ServiceInv, RequestsInv
<1>g. row' = row => RowGrows(row, row', OnChain)
  BY DEF RowGrows
<1>f. Finish(w) => /\ requests'[w] = Idle
                   /\ \A v \in Workers \ {w} : requests'[v] = requests[v]
  BY <1>t DEF Finish
<1> USE DEF Advances
<1>1. ASSUME NEW wallet \in Accounts, RequestFunding(w, wallet)
      PROVE  Advances(w)
  <2>1. requests'[w] = [Idle EXCEPT !.step = "funding", !.loaded = row, !.wallet = wallet]
    BY <1>t, <1>1 DEF RequestFunding, Start
  <2>2. Known(requests'[w], row', OnChain, passes', Len(releases'))
    BY <1>t, <1>1, <2>1 DEF RequestFunding, Known, LoadKnown, FundingKnown,
                            AssignmentKnown, DeliveryKnown, Idle
  <2>3. QED
    BY <1>t, <1>g, <1>1, <2>2 DEF RequestFunding, Start
<1>2. ASSUME NEW wallet \in Accounts, NEW github \in Githubs,
             RequestAssignment(w, wallet, github)
      PROVE  Advances(w)
  <2>1. requests'[w] = [Idle EXCEPT !.step = "assigning", !.loaded = row,
                                    !.wallet = wallet, !.github = github]
    BY <1>t, <1>2 DEF RequestAssignment, Start
  <2>2. Known(requests'[w], row', OnChain, passes', Len(releases'))
    BY <1>t, <1>2, <2>1 DEF RequestAssignment, Known, LoadKnown, FundingKnown,
                            AssignmentKnown, DeliveryKnown, PastDraft, Idle
  <2>3. QED
    BY <1>t, <1>g, <1>2, <2>2 DEF RequestAssignment, Start
<1>3. ASSUME NEW wallet \in Accounts, RequestSubmission(w, wallet)
      PROVE  Advances(w)
  <2>1. requests'[w] = [Idle EXCEPT !.step = "submitting", !.loaded = row]
    BY <1>t, <1>3 DEF RequestSubmission, Start
  <2>2. Known(requests'[w], row', OnChain, passes', Len(releases'))
    BY <1>t, <1>3, <2>1 DEF RequestSubmission, Known, LoadKnown, FundingKnown,
                            AssignmentKnown, DeliveryKnown, PastDraft, Idle
  <2>3. QED
    BY <1>t, <1>g, <1>3, <2>2 DEF RequestSubmission, Start
<1>4. ASSUME NEW wallet \in Accounts, RequestVerification(w, wallet)
      PROVE  Advances(w)
  <2>1. requests'[w] = [Idle EXCEPT !.step = "verifying", !.loaded = row]
    BY <1>t, <1>4 DEF RequestVerification, Start
  <2>2. Known(requests'[w], row', OnChain, passes', Len(releases'))
    BY <1>t, <1>4, <2>1
       DEF RequestVerification, ReadyForPayout, VERIFIABLE_STATUSES, Known, LoadKnown,
           FundingKnown, AssignmentKnown, DeliveryKnown, PastDraft, Idle
  <2>3. QED
    BY <1>t, <1>g, <1>4, <2>2 DEF RequestVerification, Start
<1>5. CASE ReadFundedBounty(w)
  <2>1. requests'[w] = [r EXCEPT !.step = "funded"] /\ r.step = "funding"
    BY <1>t, <1>5 DEF ReadFundedBounty, At
  <2>2. Known(requests'[w], row', OnChain, passes', Len(releases'))
    BY <1>t, <1>k, <1>5, <2>1
       DEF ReadFundedBounty, MatchesTask, EscrowedBy, Known, LoadKnown, FundingKnown,
           AssignmentKnown, DeliveryKnown, PastDraft, Request
  <2>3. QED
    BY <1>t, <1>g, <1>5, <2>2 DEF ReadFundedBounty
<1>6. CASE ReadAssignedBounty(w)
  <2>1. requests'[w] = [r EXCEPT !.step = "assigned"] /\ r.step = "assigning"
    BY <1>t, <1>6 DEF ReadAssignedBounty, At
  <2>2. Known(requests'[w], row', OnChain, passes', Len(releases'))
    BY <1>t, <1>k, <1>6, <2>1
       DEF ReadAssignedBounty, MatchesAssignment, Known, LoadKnown, FundingKnown,
           AssignmentKnown, DeliveryKnown, PastDraft, Request
  <2>3. QED
    BY <1>t, <1>g, <1>6, <2>2 DEF ReadAssignedBounty
<1>7. ASSUME NEW sha \in BaseShas, CommitFunding(w, sha)
      PROVE  Advances(w)
  <2>1. /\ r.step = "funded" /\ r.wallet \in Accounts /\ r.loaded \in Row
        /\ r.loaded.client_wallet \in {None, r.wallet}
        /\ OnChain.status # "Missing" /\ OnChain.client = r.wallet
    BY <1>t, <1>k, <1>7 DEF CommitFunding, At, Known, FundingKnown, EscrowedBy, Request
  <2>2. RowGrows(row, row', OnChain)
    BY <1>t, <1>k, <1>7, <2>1
       DEF CommitFunding, Flush, RowGrows, PastDraft, Known, LoadKnown, Row
  <2>3. QED
    BY <1>t, <1>f, <1>7, <2>2, IdleKnows DEF CommitFunding
<1>8. CASE CommitAssignment(w)
  <2>1. /\ r.step = "assigned" /\ r.wallet \in Accounts /\ r.github \in Githubs
        /\ r.loaded \in Row /\ PastDraft(row)
    BY <1>t, <1>k, <1>8
       DEF CommitAssignment, At, Known, AssignmentKnown, DeliveryKnown, Request
  <2>2. RowGrows(row, row', OnChain)
    BY <1>t, <1>8, <2>1 DEF CommitAssignment, Flush, RowGrows, PastDraft, Row
  <2>3. QED
    BY <1>t, <1>f, <1>8, <2>2, IdleKnows DEF CommitAssignment
<1>9. ASSUME NEW inspection \in Inspection, CommitSubmission(w, inspection)
      PROVE  Advances(w)
  <2>1. RowGrows(row, row', OnChain)
    BY <1>t, <1>9 DEF CommitSubmission, Flush, RowGrows, PastDraft, Row, Request
  <2>2. QED
    BY <1>t, <1>f, <1>9, <2>1, IdleKnows DEF CommitSubmission
<1>10. ASSUME NEW inspection \in Inspection, CommitVerdict(w, inspection)
       PROVE  Advances(w)
  <2> DEFINE verdict == Verdict(inspection, r.loaded)
             status == BOUNTY_STATUS_BY_VERIFICATION[verdict]
  <2>1. verdict \in {"PASS", "FAIL", "PENDING"}
    BY <1>10 DEF Verdict, VerdictOfChecks, Inspection
  <2>2. status \notin {"absent", "DRAFT"}
    BY <2>1 DEF BOUNTY_STATUS_BY_VERIFICATION
  <2>3. /\ r.step = "verifying" /\ PastDraft(row)
        /\ row.base_sha # None /\ row.developer_github # None /\ r.loaded \in Row
    BY <1>t, <1>k, <1>10 DEF CommitVerdict, At, Known, DeliveryKnown, Request
  <2>4. Flush(r.loaded, [r.loaded EXCEPT !.status = status])
    BY <1>10 DEF CommitVerdict
  <2> HIDE DEF status, verdict
  <2>5. /\ row'.client_wallet = row.client_wallet /\ row'.base_sha = row.base_sha
        /\ row'.developer_github = row.developer_github
        /\ row'.developer_wallet = row.developer_wallet
        /\ row'.release_tx_hash = row.release_tx_hash
        /\ row'.status \in {row.status, status}
    BY <2>3, <2>4 DEF Flush, Row
  <2>6. RowGrows(row, row', OnChain) /\ PastDraft(row')
    BY <2>2, <2>3, <2>5 DEF RowGrows, PastDraft
  <2>7. CASE verdict = "PASS"
    <3>1. /\ requests'[w] = [r EXCEPT !.step = "eligible", !.head = inspection.head_sha]
          /\ \A v \in Workers \ {w} : requests'[v] = requests[v]
      BY <1>t, <1>10, <2>7 DEF CommitVerdict, verdict
    <3>2. /\ passes \subseteq passes'
          /\ \E p \in passes' : p.head_sha = inspection.head_sha
      <4> DEFINE p == [base_sha |-> inspection.base_sha,
                       developer_github |-> inspection.author,
                       head_sha |-> inspection.head_sha]
      <4>1. passes' = passes \cup {p}
        BY <1>10, <2>7 DEF CommitVerdict, verdict
      <4>2. p.head_sha = inspection.head_sha
        OBVIOUS
      <4>3. QED
        BY <4>1, <4>2
    <3>3. inspection.head_sha \in Heads /\ releases' = releases
      <4>1. inspection.head_sha \in Heads
        BY <1>10 DEF Inspection
      <4>2. QED
        BY <1>10, <4>1 DEF CommitVerdict
    <3>4. LoadKnown(r, row', OnChain)
      BY <1>k, <2>3, <2>5, <2>6 DEF Known, LoadKnown, PastDraft
    <3>5. Known(requests'[w], row', OnChain, passes', Len(releases'))
      BY <1>t, <2>3, <2>5, <2>6, <3>1, <3>2, <3>3, <3>4
         DEF Known, LoadKnown, FundingKnown, AssignmentKnown, DeliveryKnown, Request
    <3>6. QED
      BY <1>t, <2>6, <3>1, <3>2, <3>3, <3>5
  <2>8. CASE verdict # "PASS"
    BY <1>t, <1>f, <1>10, <2>6, <2>8, IdleKnows DEF CommitVerdict, verdict
  <2>9. QED
    BY <2>7, <2>8
<1>11. CASE ReloadForPayout(w)
  <2> DEFINE paid == [base_sha |-> row.base_sha, developer_github |-> row.developer_github,
                      head_sha |-> r.head]
  <2>1. /\ r.step = "eligible" /\ PastDraft(row)
        /\ row.base_sha # None /\ row.developer_github # None
        /\ r.head \in Heads /\ \E p \in passes : p.head_sha = r.head
    BY <1>k, <1>11 DEF ReloadForPayout, At, Known, DeliveryKnown
  <2>2. paid \in Evidence
    BY <1>t, <2>1 DEF Evidence, Row
  <2>3. requests'[w] = [r EXCEPT !.step = "releasing", !.loaded = row, !.evidence = paid]
    BY <1>t, <1>11 DEF ReloadForPayout
  <2>4. Known(requests'[w], row', OnChain, passes', Len(releases'))
    BY <1>t, <1>11, <2>1, <2>2, <2>3
       DEF ReloadForPayout, Known, LoadKnown, FundingKnown, AssignmentKnown,
           DeliveryKnown, PastDraft, Request
  <2>5. QED
    BY <1>t, <1>g, <1>11, <2>4 DEF ReloadForPayout
<1>12. CASE SendRelease(w)
  <2>1. /\ requests'[w] = [r EXCEPT !.step = "polling", !.tx = Len(releases) + 1]
        /\ r.step = "releasing" /\ Len(releases') = Len(releases) + 1
    BY <1>t, <1>12 DEF SendRelease, At
  <2>2. Known(requests'[w], row', OnChain, passes', Len(releases'))
    BY <1>t, <1>k, <1>12, <2>1
       DEF SendRelease, Known, LoadKnown, FundingKnown, AssignmentKnown,
           DeliveryKnown, Request
  <2>3. QED
    BY <1>t, <1>g, <1>12, <2>1, <2>2 DEF SendRelease
<1>13. CASE CommitPayout(w)
  <2>1. r.loaded \in Row /\ PastDraft(row) /\ r.tx \in 1..Len(releases)
    BY <1>t, <1>k, <1>13 DEF CommitPayout, At, Known, DeliveryKnown, Request
  <2>2. r.tx # None
    BY <1>t, <2>1, TaskAssumption
  <2>3. RowGrows(row, row', OnChain)
    BY <1>t, <1>13, <2>1, <2>2 DEF CommitPayout, Flush, RowGrows, PastDraft, Row
  <2>4. QED
    BY <1>t, <1>f, <1>13, <2>3, IdleKnows DEF CommitPayout
<1>14. CASE Abandon(w)
  BY <1>t, <1>f, <1>g, <1>14, IdleKnows DEF Abandon
<1>15. QED
  BY <1>1, <1>2, <1>3, <1>4, <1>5, <1>6, <1>7, <1>8, <1>9, <1>10, <1>11, <1>12,
     <1>13, <1>14 DEF RequestStep

\* Every request still knows what it relies on, whoever took the step.
LEMMA RequestsKeepKnowing ==
  ServiceInv /\ [ServiceNext]_vars => RequestsInv'
<1> SUFFICES ASSUME ServiceInv, [ServiceNext]_vars, NEW v \in Workers
             PROVE  Known(requests'[v], row', OnChain', passes', Len(releases'))
  BY DEF RequestsInv
<1>t. /\ TypeOK /\ RecordConsistent /\ ServiceTypeOK
      /\ releases \in Seq(Release) /\ Len(releases) \in Nat
      /\ None \notin Accounts
  BY AddressesAssumption DEF ServiceInv, ServiceTypeOK
<1>k. \A w \in Workers : Known(requests[w], row, OnChain, passes, Len(releases))
  BY DEF ServiceInv, RequestsInv
<1>a. requests[v].step = "assigned" => requests[v].wallet # None
  BY <1>t, <1>k DEF Known, AssignmentKnown
<1>c. ChainGrows(OnChain, OnChain')
  BY <1>t, ServiceCallsTheContract, BountyGrows
<1>1. ASSUME NEW w \in Workers, RequestStep(w)
      PROVE  Known(requests'[v], row', OnChain', passes', Len(releases'))
  <2>1. Advances(w)
    BY <1>1, StepsAdvance
  <2>2. OnChain' = OnChain /\ releases' \in Seq(Release)
    <3>1. releases' \in Seq(Release)
      BY ServiceKeepsTypes DEF ServiceTypeOK
    <3>2. UNCHANGED bounties
      BY <1>1 DEF RequestStep, RequestFunding, RequestAssignment, RequestSubmission,
                  RequestVerification, ReadFundedBounty, CommitFunding,
                  ReadAssignedBounty, CommitAssignment, CommitSubmission, CommitVerdict,
                  ReloadForPayout, SendRelease, CommitPayout, Abandon, chainVars
    <3>3. QED
      BY <3>1, <3>2 DEF OnChain
  <2>3. CASE v = w
    BY <2>1, <2>2, <2>3 DEF Advances
  <2>4. CASE v # w
    <3>1. /\ RowGrows(row, row', OnChain') /\ passes \subseteq passes'
          /\ Len(releases) <= Len(releases') /\ requests'[v] = requests[v]
      BY <2>1, <2>2, <2>4 DEF Advances
    <3>2. Len(releases') \in Nat
      BY <2>2
    <3>3. Known(requests[v], row', OnChain', passes', Len(releases'))
      BY <1>t, <1>k, <1>a, <1>c, <3>1, <3>2, KnowledgeLasts
    <3>4. QED
      BY <3>1, <3>3
  <2>5. QED
    BY <2>3, <2>4
<1>2. ASSUME NEW wallet \in Accounts, CreateTask(wallet)
      PROVE  Known(requests'[v], row', OnChain', passes', Len(releases'))
  <2>1. requests[v].step = "idle" /\ requests' = requests
    BY <1>k, <1>2 DEF CreateTask, Known, LoadKnown
  <2>2. QED
    BY <2>1 DEF Known, LoadKnown, FundingKnown, AssignmentKnown, DeliveryKnown
<1>3. ASSUME \/ NetworkStep \/ WalletStep \/ UNCHANGED vars
      PROVE  Known(requests'[v], row', OnChain', passes', Len(releases'))
  <2>1. row' = row /\ requests' = requests /\ passes' = passes
    BY <1>3 DEF NetworkStep, LandRelease, RejectRelease, ExpireRelease, WalletStep,
                serviceVars, vars
  <2>2. Len(releases') = Len(releases)
    BY <1>t, <1>3 DEF NetworkStep, LandRelease, RejectRelease, ExpireRelease, WalletStep,
                      serviceVars, vars
  <2>3. RowGrows(row, row', OnChain')
    BY <2>1 DEF RowGrows
  <2>4. Known(requests[v], row', OnChain', passes', Len(releases'))
    BY <1>t, <1>k, <1>a, <1>c, <2>1, <2>2, <2>3, KnowledgeLasts
  <2>5. QED
    BY <2>1, <2>4
<1>4. QED
  BY <1>1, <1>2, <1>3 DEF ServiceNext

-----------------------------------------------------------------------------
(* The row and the chain. *)

\* What the row says of the chain lasts while only the chain and the network
\* move, and while releases are only added or settled.
LEMMA RowStaysTrue ==
  ASSUME ServiceTypeOK, RowInv, ChainGrows(OnChain, OnChain'), row' = row,
         \A tx \in 1..Len(releases) :
            /\ tx \in 1..Len(releases')
            /\ releases[tx].outcome = "success" => releases'[tx] = releases[tx]
  PROVE  RowInv'
<1>1. FundedTaskIsEscrowed'
  BY DEF RowInv, FundedTaskIsEscrowed, ChainGrows, Terms
<1>2. DeveloperAcceptedOnChain'
  BY DEF RowInv, FundedTaskIsEscrowed, DeveloperAcceptedOnChain, ChainGrows, PastDraft
<1>3. RecordedPayoutHappened'
  BY DEF RowInv, RecordedPayoutHappened, ChainGrows
<1>4. QED
  BY <1>1, <1>2, <1>3 DEF RowInv, PastDraft

\* A commit writes what its request has read, and that is still true.
LEMMA CommitsKeepRowTrue ==
  ASSUME ServiceInv, NEW w \in Workers, RequestStep(w)
  PROVE  RowInv'
<1> DEFINE r == requests[w]
<1>t. /\ row \in Row /\ requests \in [Workers -> Request] /\ r \in Request
      /\ releases \in Seq(Release) /\ Len(releases) \in Nat /\ ServiceTypeOK
      /\ None \notin Githubs /\ None \notin BaseShas /\ None \notin Accounts
      /\ None \notin Nat
  BY TaskAssumption, AddressesAssumption DEF ServiceInv, ServiceTypeOK
<1>k. Known(r, row, OnChain, passes, Len(releases)) /\ RowInv /\ PayoutInv
  BY DEF ServiceInv, RequestsInv
<1>u. UNCHANGED bounties
  BY DEF RequestStep, RequestFunding, RequestAssignment, RequestSubmission,
         RequestVerification, ReadFundedBounty, CommitFunding,
         ReadAssignedBounty, CommitAssignment, CommitSubmission, CommitVerdict,
         ReloadForPayout, SendRelease, CommitPayout, Abandon, chainVars
<1>c. OnChain' = OnChain
  BY <1>u DEF OnChain
<1>1. CASE row' = row
  <2>1. releases' = releases \/ \E sent : releases' = Append(releases, sent)
    BY DEF RequestStep, RequestFunding, RequestAssignment, RequestSubmission,
           RequestVerification, ReadFundedBounty, CommitFunding,
           ReadAssignedBounty, CommitAssignment, CommitSubmission, CommitVerdict,
           ReloadForPayout, SendRelease, CommitPayout, Abandon
  <2>2. ChainGrows(OnChain, OnChain')
    BY <1>c DEF ChainGrows
  <2>3. \A tx \in 1..Len(releases) :
            tx \in 1..Len(releases') /\ releases'[tx] = releases[tx]
    BY <1>t, <2>1
  <2>4. QED
    BY <1>t, <1>k, <1>1, <2>2, <2>3, RowStaysTrue
<1>2. ASSUME NEW sha \in BaseShas, CommitFunding(w, sha)
      PROVE  RowInv'
  <2>1. /\ r.step = "funded" /\ r.wallet \in Accounts /\ r.loaded \in Row
        /\ r.loaded.client_wallet \in {None, r.wallet} /\ r.loaded.status = "DRAFT"
        /\ EscrowedBy(r.wallet, OnChain) /\ LoadKnown(r, row, OnChain)
    BY <1>t, <1>k, <1>2 DEF CommitFunding, At, Known, FundingKnown, Request
  <2>2. /\ row'.status = "OPEN_FUNDED" /\ row'.client_wallet = OnChain.client
        /\ row'.developer_wallet = row.developer_wallet
        /\ row'.release_tx_hash = row.release_tx_hash
    BY <1>t, <1>2, <2>1 DEF CommitFunding, Flush, LoadKnown, EscrowedBy, Row
  <2>3. row.developer_wallet # None => row'.client_wallet = row.client_wallet
    BY <1>k, <2>2 DEF RowInv, FundedTaskIsEscrowed, PastDraft
  <2>4. FundedTaskIsEscrowed'
    BY <1>c, <2>1, <2>2 DEF FundedTaskIsEscrowed, EscrowedBy
  <2>5. DeveloperAcceptedOnChain'
    BY <1>k, <1>c, <2>2, <2>3 DEF RowInv, DeveloperAcceptedOnChain
  <2>6. RecordedPayoutHappened' /\ releases' = releases
    BY <1>k, <1>c, <1>2, <2>2 DEF RowInv, RecordedPayoutHappened, CommitFunding
  <2>7. QED
    BY <1>k, <2>2, <2>3, <2>4, <2>5, <2>6 DEF RowInv, PastDraft
<1>3. CASE CommitAssignment(w)
  <2>1. /\ r.step = "assigned" /\ r.wallet \in Accounts /\ r.loaded \in Row
        /\ r.loaded.client_wallet \notin {None, r.wallet}
        /\ OnChain.developer = r.wallet /\ LoadKnown(r, row, OnChain) /\ PastDraft(row)
    BY <1>t, <1>k, <1>3
       DEF CommitAssignment, At, Known, AssignmentKnown, DeliveryKnown, Request
  <2>2. /\ row'.status \in {"ASSIGNED", row.status}
        /\ row'.client_wallet = row.client_wallet
        /\ row'.developer_wallet \in {r.wallet, row.developer_wallet}
        /\ row'.release_tx_hash = row.release_tx_hash
    BY <1>t, <1>3, <2>1 DEF CommitAssignment, Flush, Row
  <2>3. row.client_wallet \notin {None, r.wallet}
    BY <2>1 DEF LoadKnown
  <2>4. FundedTaskIsEscrowed'
    BY <1>k, <1>c, <2>1, <2>2 DEF RowInv, FundedTaskIsEscrowed, PastDraft
  <2>5. DeveloperAcceptedOnChain'
    BY <1>k, <1>c, <2>1, <2>2, <2>3 DEF RowInv, DeveloperAcceptedOnChain
  <2>6. RecordedPayoutHappened' /\ releases' = releases
    BY <1>k, <1>c, <1>3, <2>2 DEF RowInv, RecordedPayoutHappened, CommitAssignment
  <2>7. QED
    BY <1>k, <2>1, <2>2, <2>3, <2>4, <2>5, <2>6 DEF RowInv, PastDraft
<1>4. ASSUME NEW inspection \in Inspection,
             CommitSubmission(w, inspection) \/ CommitVerdict(w, inspection)
      PROVE  RowInv'
  <2>1. PICK status \in VERIFIABLE_STATUSES :
            /\ Flush(r.loaded, [r.loaded EXCEPT !.status = status])
            /\ releases' = releases
    <3>1. CASE CommitSubmission(w, inspection)
      BY <3>1 DEF CommitSubmission, VERIFIABLE_STATUSES
    <3>2. CASE CommitVerdict(w, inspection)
      <4> DEFINE verdict == Verdict(inspection, r.loaded)
      <4>1. verdict \in {"PASS", "FAIL", "PENDING"}
        BY <1>4 DEF Verdict, VerdictOfChecks, Inspection
      <4> HIDE DEF verdict
      <4>2. BOUNTY_STATUS_BY_VERIFICATION[verdict] \in VERIFIABLE_STATUSES
        BY <4>1 DEF BOUNTY_STATUS_BY_VERIFICATION, VERIFIABLE_STATUSES
      <4>3. QED
        BY <3>2, <4>2 DEF CommitVerdict, verdict
    <3>3. QED
      BY <1>4, <3>1, <3>2
  <2>2. r.loaded \in Row /\ PastDraft(row)
    BY <1>t, <1>k, <1>4
       DEF CommitSubmission, CommitVerdict, At, Known, DeliveryKnown, Request
  <2>3. /\ row'.status \in {status, row.status}
        /\ row'.client_wallet = row.client_wallet
        /\ row'.developer_wallet = row.developer_wallet
        /\ row'.release_tx_hash = row.release_tx_hash
    BY <1>t, <2>1, <2>2 DEF Flush, Row
  <2>4. status \notin {"absent", "DRAFT", "PAID"}
    BY DEF VERIFIABLE_STATUSES
  <2>5. FundedTaskIsEscrowed'
    BY <1>k, <1>c, <2>2, <2>3 DEF RowInv, FundedTaskIsEscrowed, PastDraft
  <2>6. DeveloperAcceptedOnChain'
    BY <1>k, <1>c, <2>3 DEF RowInv, DeveloperAcceptedOnChain
  <2>7. RecordedPayoutHappened'
    BY <1>k, <1>c, <2>1, <2>3, <2>4 DEF RowInv, RecordedPayoutHappened
  <2>8. QED
    BY <1>k, <2>1, <2>2, <2>3, <2>4, <2>5, <2>6, <2>7 DEF RowInv, PastDraft
<1>5. CASE CommitPayout(w)
  <2>1. /\ r.loaded \in Row /\ PastDraft(row) /\ r.tx \in 1..Len(releases)
        /\ LoadKnown(r, row, OnChain) /\ r.step = "polling" /\ r.tx # None
        /\ releases[r.tx].outcome = "success" /\ releases' = releases
    BY <1>t, <1>k, <1>5 DEF CommitPayout, At, Known, DeliveryKnown, Request
  <2>2. /\ OnChain.status = "Paid"
        /\ OnChain.evidence_hash = releases[r.tx].evidence
    BY <1>k, <2>1 DEF PayoutInv
  <2>3. /\ row'.status \in {"PAID", row.status}
        /\ row'.client_wallet = row.client_wallet
        /\ row'.developer_wallet = row.developer_wallet
        /\ row'.release_tx_hash \in {r.tx, row.release_tx_hash}
        /\ row'.release_tx_hash # None
    BY <1>t, <1>5, <2>1 DEF CommitPayout, Flush, LoadKnown, Row
  <2>4. FundedTaskIsEscrowed'
    BY <1>k, <1>c, <2>1, <2>3 DEF RowInv, FundedTaskIsEscrowed, PastDraft
  <2>5. DeveloperAcceptedOnChain'
    BY <1>k, <1>c, <2>3 DEF RowInv, DeveloperAcceptedOnChain
  <2>6. RecordedPayoutHappened'
    BY <1>k, <1>c, <2>1, <2>2, <2>3 DEF RowInv, RecordedPayoutHappened
  <2>7. QED
    BY <1>k, <2>1, <2>3, <2>4, <2>5, <2>6 DEF RowInv, PastDraft
<1>6. QED
  BY <1>1, <1>2, <1>3, <1>4, <1>5
     DEF RequestStep, RequestFunding, RequestAssignment, RequestSubmission,
         RequestVerification, ReadFundedBounty, ReadAssignedBounty, ReloadForPayout,
         SendRelease, Abandon

\* A release lands only on an Assigned bounty, so none has succeeded before it.
LEMMA LandReleasePaysFirst ==
  ASSUME ServiceInv, NEW tx \in 1..Len(releases), LandRelease(tx)
  PROVE  /\ OnChain.status = "Assigned"
         /\ OnChain'.status = "Paid" /\ OnChain'.evidence_hash = releases[tx].evidence
         /\ releases' = [releases EXCEPT ![tx].outcome = "success"]
         /\ \A t \in 1..Len(releases) : releases[t].outcome # "success"
<1>1. bounties \in [BountyIds -> Bounty] /\ Task \in BountyIds /\ PayoutInv
  BY TaskAssumption DEF ServiceInv, ServiceTypeOK, TypeOK
<1>2. /\ OnChain.status = "Assigned"
      /\ OnChain'.status = "Paid" /\ OnChain'.evidence_hash = releases[tx].evidence
  BY <1>1 DEF LandRelease, ReleaseBounty, OnChain, Bounty
<1>3. QED
  BY <1>1, <1>2 DEF PayoutInv, LandRelease

\* Neither the network nor the wallets make the row untrue, and no more does
\* the creation of the task.
LEMMA OthersKeepRowTrue ==
  ASSUME ServiceInv, [ServiceNext]_vars,
         \/ \E wallet \in Accounts : CreateTask(wallet)
         \/ NetworkStep \/ WalletStep \/ UNCHANGED vars
  PROVE  RowInv'
<1>t. /\ TypeOK /\ RecordConsistent /\ ServiceTypeOK /\ RowInv
      /\ releases \in Seq(Release) /\ Len(releases) \in Nat
  BY DEF ServiceInv, ServiceTypeOK
<1>1. ASSUME NEW wallet \in Accounts, CreateTask(wallet)
      PROVE  RowInv'
  <2>1. /\ row' = [NoRow EXCEPT !.status = "DRAFT", !.client_wallet = wallet]
        /\ OnChain' = OnChain /\ releases' = releases
    BY <1>1 DEF CreateTask, chainVars, OnChain
  <2>2. /\ row'.status = "DRAFT" /\ row'.developer_wallet = None
        /\ row'.release_tx_hash = None
    BY <2>1 DEF NoRow
  <2>3. QED
    BY <2>1, <2>2 DEF RowInv, FundedTaskIsEscrowed, DeveloperAcceptedOnChain,
                      RecordedPayoutHappened
<1>2. ASSUME NetworkStep \/ WalletStep \/ UNCHANGED vars
      PROVE  RowInv'
  <2>1. row' = row
    BY <1>2 DEF NetworkStep, LandRelease, RejectRelease, ExpireRelease, WalletStep,
                serviceVars, vars
  <2>2. ChainGrows(OnChain, OnChain')
    BY <1>t, ServiceCallsTheContract, BountyGrows
  <2>3. \A tx \in 1..Len(releases) :
            /\ tx \in 1..Len(releases')
            /\ releases[tx].outcome = "success" => releases'[tx] = releases[tx]
    BY <1>t, <1>2 DEF NetworkStep, LandRelease, RejectRelease, ExpireRelease, WalletStep,
                      serviceVars, vars
  <2>4. QED
    BY <1>t, <2>1, <2>2, <2>3, RowStaysTrue
<1>3. QED
  BY <1>1, <1>2

-----------------------------------------------------------------------------
(* Payouts. *)

\* A wallet's own calls never pay the task's bounty.
LEMMA WalletsDoNotPay ==
  ASSUME ServiceInv, WalletStep
  PROVE  OnChain'.status = "Paid" => OnChain' = OnChain
<1>t. bounties \in [BountyIds -> Bounty] /\ Task \in BountyIds
  BY TaskAssumption DEF ServiceInv, ServiceTypeOK, TypeOK
<1>1. CASE CloseLedger
  BY <1>1 DEF CloseLedger, OnChain
<1>2. ASSUME NEW wallet \in Accounts, NEW amount, NEW criteria, NEW deadline,
             CreateBounty(Task, wallet, amount, criteria, deadline)
      PROVE  OnChain'.status # "Paid"
  BY <1>t, <1>2 DEF CreateBounty, OnChain
<1>3. ASSUME NEW wallet \in Accounts,
             \/ AcceptBounty(Task, wallet)
             \/ CancelOpenBounty(wallet, Task)
             \/ RefundExpired(wallet, Task)
      PROVE  OnChain'.status # "Paid"
  BY <1>t, <1>3 DEF AcceptBounty, CancelOpenBounty, RefundExpired, OnChain, Bounty
<1>4. QED
  BY <1>1, <1>2, <1>3 DEF WalletStep

\* What is sent carries a head commit that passed, and the first release that
\* lands is the last one that can.
LEMMA PayoutsKeepTrue ==
  ServiceInv /\ [ServiceNext]_vars => PayoutInv'
<1> SUFFICES ASSUME ServiceInv, [ServiceNext]_vars
             PROVE  PayoutInv'
  OBVIOUS
<1>t. /\ TypeOK /\ RecordConsistent /\ ServiceTypeOK /\ PayoutInv
      /\ releases \in Seq(Release) /\ Len(releases) \in Nat
      /\ requests \in [Workers -> Request]
      /\ bounties \in [BountyIds -> Bounty] /\ Task \in BountyIds
  BY TaskAssumption DEF ServiceInv, ServiceTypeOK, TypeOK
<1>c. ChainGrows(OnChain, OnChain')
  BY <1>t, ServiceCallsTheContract, BountyGrows
<1>1. ASSUME NEW w \in Workers, SendRelease(w)
      PROVE  PayoutInv'
  <2> DEFINE sent == [evidence |-> requests[w].evidence, outcome |-> "pending"]
  <2>1. Known(requests[w], row, OnChain, passes, Len(releases))
    BY DEF ServiceInv, RequestsInv
  <2>2. \E p \in passes : p.head_sha = sent.evidence.head_sha
    BY <1>1, <2>1 DEF SendRelease, At, Known, DeliveryKnown
  <2>3. releases' = Append(releases, sent) /\ passes' = passes /\ OnChain' = OnChain
    BY <1>1 DEF SendRelease, chainVars, OnChain
  <2>4. /\ Len(releases') = Len(releases) + 1
        /\ releases'[Len(releases) + 1] = sent /\ sent.outcome # "success"
        /\ \A t \in 1..Len(releases) : releases'[t] = releases[t]
    BY <1>t, <2>3
  <2> HIDE DEF sent
  <2>5. \A t \in 1..Len(releases') : t \in 1..Len(releases) \/ t = Len(releases) + 1
    BY <1>t, <2>4
  <2>6. PayoutBackedByPass'
    BY <1>t, <2>3 DEF PayoutInv, PayoutBackedByPass
  <2>7. QED
    BY <1>t, <2>2, <2>3, <2>4, <2>5, <2>6 DEF PayoutInv
<1>2. ASSUME NEW w \in Workers, RequestStep(w), ~SendRelease(w)
      PROVE  PayoutInv'
  <2>1. releases' = releases /\ OnChain' = OnChain
    BY <1>2 DEF RequestStep, RequestFunding, RequestAssignment, RequestSubmission,
                RequestVerification, ReadFundedBounty, CommitFunding,
                ReadAssignedBounty, CommitAssignment, CommitSubmission, CommitVerdict,
                ReloadForPayout, CommitPayout, Abandon, chainVars, OnChain
  <2>2. passes \subseteq passes'
    BY <1>2, StepsAdvance DEF Advances
  <2>3. PayoutBackedByPass'
    BY <1>t, <2>1, <2>2 DEF PayoutInv, PayoutBackedByPass
  <2>4. QED
    BY <1>t, <2>1, <2>2, <2>3 DEF PayoutInv
<1>3. ASSUME NEW wallet \in Accounts, CreateTask(wallet)
      PROVE  PayoutInv'
  BY <1>t, <1>3 DEF CreateTask, chainVars, OnChain, PayoutInv, PayoutBackedByPass
<1>4. ASSUME NEW tx \in 1..Len(releases), LandRelease(tx)
      PROVE  PayoutInv'
  <2>1. /\ OnChain'.status = "Paid" /\ OnChain'.evidence_hash = releases[tx].evidence
        /\ releases' = [releases EXCEPT ![tx].outcome = "success"]
        /\ \A t \in 1..Len(releases) : releases[t].outcome # "success"
    BY <1>4, LandReleasePaysFirst
  <2>2. passes' = passes
    BY <1>4 DEF LandRelease
  <2>3. /\ Len(releases') = Len(releases)
        /\ \A t \in 1..Len(releases) : releases'[t].evidence = releases[t].evidence
        /\ \A t \in 1..Len(releases) : releases'[t].outcome = "success" => t = tx
    <3>1. \A t \in 1..Len(releases) : releases[t] \in Release
      BY <1>t
    <3>2. QED
      BY <1>t, <2>1, <3>1 DEF Release
  <2>4. PayoutBackedByPass'
    BY <1>t, <2>1, <2>2 DEF PayoutInv, PayoutBackedByPass
  <2>5. QED
    BY <1>t, <2>1, <2>2, <2>3, <2>4 DEF PayoutInv
<1>5. ASSUME NEW tx \in 1..Len(releases), RejectRelease(tx) \/ ExpireRelease(tx)
      PROVE  PayoutInv'
  <2>1. OnChain' = OnChain /\ passes' = passes
    BY <1>5 DEF RejectRelease, ExpireRelease, chainVars, OnChain
  <2>2. PICK o \in {"failed", "expired"} : releases' = [releases EXCEPT ![tx].outcome = o]
    BY <1>5 DEF RejectRelease, ExpireRelease
  <2>3. /\ Len(releases') = Len(releases)
        /\ \A t \in 1..Len(releases) :
                /\ releases'[t].evidence = releases[t].evidence
                /\ releases'[t].outcome = "success" => releases[t].outcome = "success"
    <3>1. \A t \in 1..Len(releases) : releases[t] \in Release
      BY <1>t
    <3>2. QED
      BY <1>t, <2>2, <3>1 DEF Release
  <2>4. PayoutBackedByPass'
    BY <1>t, <2>1 DEF PayoutInv, PayoutBackedByPass
  <2>5. QED
    BY <1>t, <2>1, <2>3, <2>4 DEF PayoutInv
<1>6. CASE WalletStep
  <2>1. OnChain'.status = "Paid" => OnChain' = OnChain
    BY <1>6, WalletsDoNotPay
  <2>2. releases' = releases /\ passes' = passes
    BY <1>6 DEF WalletStep, serviceVars
  <2>3. PayoutBackedByPass'
    BY <1>t, <2>1, <2>2 DEF PayoutInv, PayoutBackedByPass
  <2>4. QED
    BY <1>t, <1>c, <2>1, <2>2, <2>3 DEF PayoutInv, ChainGrows
<1>7. CASE UNCHANGED vars
  BY <1>t, <1>7 DEF vars, OnChain, PayoutInv, PayoutBackedByPass
<1>8. QED
  BY <1>1, <1>2, <1>3, <1>4, <1>5, <1>6, <1>7 DEF ServiceNext, NetworkStep

-----------------------------------------------------------------------------
(* The service. *)

\* Nothing is requested, sent or funded at the start.
LEMMA ServiceStartsTrue == ServiceInit => ServiceInv
<1> SUFFICES ASSUME ServiceInit
             PROVE  ServiceInv
  OBVIOUS
<1>1. TypeOK /\ RecordConsistent
  BY InitialRecords DEF ServiceInit
<1>2. row \in Row
  BY IdleIsARequest DEF ServiceInit, LegacyDraft, Row, RowStatuses
<1>3. ServiceTypeOK
  <2>1. requests \in [Workers -> Request]
    BY IdleIsARequest DEF ServiceInit
  <2>2. releases \in Seq(Release) /\ Len(releases) <= MaxReleases
    BY TaskAssumption DEF ServiceInit
  <2>3. QED
    BY <1>1, <1>2, <2>1, <2>2 DEF ServiceInit, ServiceTypeOK
<1>4. RequestsInv
  BY IdleKnows DEF ServiceInit, RequestsInv
<1>5. row.status \in {"absent", "DRAFT"} /\ row.developer_wallet = None
      /\ row.release_tx_hash = None /\ (row.status = "absent" => row = NoRow)
  BY DEF ServiceInit, LegacyDraft, NoRow
<1>6. RowInv
  BY <1>5 DEF RowInv, FundedTaskIsEscrowed, DeveloperAcceptedOnChain,
              RecordedPayoutHappened
<1>7. OnChain.status # "Paid"
  BY TaskAssumption DEF ServiceInit, Init, Missing, OnChain
<1>8. PayoutInv
  BY <1>7 DEF ServiceInit, PayoutInv, PayoutBackedByPass
<1>9. QED
  BY <1>1, <1>3, <1>4, <1>6, <1>8 DEF ServiceInv

\* The inductive step.
LEMMA ServiceStaysTrue == ServiceInv /\ [ServiceNext]_vars => ServiceInv'
<1> SUFFICES ASSUME ServiceInv, [ServiceNext]_vars
             PROVE  ServiceInv'
  OBVIOUS
<1>1. RowInv'
  BY CommitsKeepRowTrue, OthersKeepRowTrue DEF ServiceNext
<1>2. QED
  BY <1>1, ServiceKeepsTypes, RequestsKeepKnowing, PayoutsKeepTrue DEF ServiceInv

\* The inductive invariant holds in every state of the service.
LEMMA ServiceInvHolds == ServiceSpec => []ServiceInv
BY ServiceStartsTrue, ServiceStaysTrue, PTL DEF ServiceSpec

\* Rows, requests, verifications and releases keep their types.
THEOREM ServiceTypeCorrect == ServiceSpec => []ServiceTypeOK
<1>1. ServiceInv => ServiceTypeOK
  BY DEF ServiceInv
<1>2. QED
  BY <1>1, ServiceInvHolds, PTL

\* Seen from the chain, the API and the wallets are just callers of the escrow
\* contract: everything proved of module Escrow holds in the composed system.
THEOREM ServiceRunsTheContract == ServiceSpec => Spec
<1>1. ServiceInit => Init
  BY DEF ServiceInit
<1>2. ServiceInv => ServiceTypeOK
  BY DEF ServiceInv
<1>3. QED
  BY <1>1, <1>2, ServiceInvHolds, ServiceCallsTheContract, PTL DEF ServiceSpec, Spec

\* A task past its draft has an escrow of its client for exactly its terms.
THEOREM FundedTasksAreEscrowed == ServiceSpec => []FundedTaskIsEscrowed
<1>1. ServiceInv => FundedTaskIsEscrowed
  BY DEF ServiceInv, RowInv
<1>2. QED
  BY <1>1, ServiceInvHolds, PTL

\* The developer recorded is the one who accepted, and is not the client.
THEOREM DevelopersAcceptOnChain == ServiceSpec => []DeveloperAcceptedOnChain
<1>1. ServiceInv => DeveloperAcceptedOnChain
  BY DEF ServiceInv, RowInv
<1>2. QED
  BY <1>1, ServiceInvHolds, PTL

\* A payout in the database happened, with the evidence the chain anchors.
THEOREM RecordedPayoutsHappen == ServiceSpec => []RecordedPayoutHappened
<1>1. ServiceInv => RecordedPayoutHappened
  BY DEF ServiceInv, RowInv
<1>2. QED
  BY <1>1, ServiceInvHolds, PTL

\* The contract never pays for a head commit that no verification passed.
THEOREM PayoutsAreBackedByPasses == ServiceSpec => []PayoutBackedByPass
<1>1. ServiceInv => PayoutBackedByPass
  BY DEF ServiceInv, PayoutInv
<1>2. QED
  BY <1>1, ServiceInvHolds, PTL

\* No step replaces a participant or a payout: a second assignment can only
\* name the developer the chain names, and a second payout that succeeded would
\* be the first one.
LEMMA NothingIsReplaced ==
  ServiceInv /\ [ServiceNext]_vars =>
    [/\ row.client_wallet # None => row'.client_wallet = row.client_wallet
     /\ row.developer_wallet # None => row'.developer_wallet = row.developer_wallet
     /\ row.release_tx_hash # None => row'.release_tx_hash = row.release_tx_hash]_vars
<1> SUFFICES ASSUME ServiceInv, [ServiceNext]_vars, row' # row
             PROVE  /\ row.client_wallet # None => row'.client_wallet = row.client_wallet
                    /\ row.developer_wallet # None =>
                            row'.developer_wallet = row.developer_wallet
                    /\ row.release_tx_hash # None =>
                            row'.release_tx_hash = row.release_tx_hash
  BY DEF vars
<1>1. RowInv /\ RowInv' /\ PayoutInv
  BY ServiceStaysTrue DEF ServiceInv
<1>2. ASSUME NEW wallet \in Accounts, CreateTask(wallet)
      PROVE  /\ row.client_wallet = None /\ row.developer_wallet = None
             /\ row.release_tx_hash = None
  BY <1>1, <1>2 DEF CreateTask, RowInv, NoRow
<1>3. ASSUME NEW w \in Workers, RequestStep(w)
      PROVE  /\ row.client_wallet # None => row'.client_wallet = row.client_wallet
             /\ row.developer_wallet # None =>
                    row'.developer_wallet = row.developer_wallet
             /\ row.release_tx_hash # None =>
                    row'.release_tx_hash = row.release_tx_hash
  <2>1. RowGrows(row, row', OnChain)
    BY <1>3, StepsAdvance DEF Advances
  <2>2. OnChain' = OnChain /\ releases' = releases
    BY <1>3 DEF RequestStep, RequestFunding, RequestAssignment, RequestSubmission,
                RequestVerification, ReadFundedBounty, CommitFunding,
                ReadAssignedBounty, CommitAssignment, CommitSubmission, CommitVerdict,
                ReloadForPayout, SendRelease, CommitPayout, Abandon, chainVars, OnChain
  <2>3. row.developer_wallet # None => row'.developer_wallet = row.developer_wallet
    BY <1>1, <2>1, <2>2 DEF RowInv, DeveloperAcceptedOnChain, RowGrows
  <2>4. row.release_tx_hash # None => row'.release_tx_hash = row.release_tx_hash
    BY <1>1, <2>1, <2>2 DEF RowInv, RecordedPayoutHappened, PayoutInv, RowGrows
  <2>5. QED
    BY <2>1, <2>3, <2>4 DEF RowGrows
<1>4. NetworkStep \/ WalletStep => row' = row
  BY DEF NetworkStep, LandRelease, RejectRelease, ExpireRelease, WalletStep, serviceVars
<1>5. QED
  BY <1>2, <1>3, <1>4 DEF ServiceNext, vars

\* Client, developer and payout are recorded once.
THEOREM RecordsStay == ServiceSpec => RecordsAreNotReplaced
BY ServiceInvHolds, NothingIsReplaced, PTL DEF ServiceSpec, RecordsAreNotReplaced
=============================================================================
