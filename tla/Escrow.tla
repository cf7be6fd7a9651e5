-------------------------------- MODULE Escrow --------------------------------
(***************************************************************************)
(* The Soroban contract MergePayEscrow (contracts/escrow/src/lib.rs) with   *)
(* the token contract it moves rewards through and the ledger clock it      *)
(* compares deadlines with.                                                 *)
(*                                                                          *)
(* A contract invocation is atomic: it either returns Ok and all its writes *)
(* stay, or it returns Err (or traps) and none does.  Each entry point is   *)
(* one action whose guards are the conditions under which it returns Ok; a  *)
(* rejected call changes nothing and is not a step.                         *)
(***************************************************************************)
EXTENDS Integers, FiniteSets

CONSTANTS
    Accounts,       \* G... addresses: clients, developers and the verifier
    Verifier,       \* the address given to __constructor
    Contract,       \* env.current_contract_address()
    BountyIds,      \* the u64 ids in use
    Amounts,        \* the i128 amounts a client may ask for
    Deadlines,      \* the u64 deadlines a client may ask for
    CriteriaHashes, \* BytesN<32> values
    EvidenceHashes, \* BytesN<32> values
    Funds,          \* token balance of each account at the start
    MaxTime,        \* bound on the ledger clock
    None            \* Option::None

ASSUME AddressesAssumption ==
    /\ Verifier \in Accounts
    /\ Contract \notin Accounts
    /\ None \notin Accounts \cup {Contract}

ASSUME HashesAssumption == None \notin CriteriaHashes \cup EvidenceHashes

ASSUME NumbersAssumption ==
    /\ Amounts \subseteq Int
    /\ Deadlines \subseteq Nat
    /\ MaxTime \in Nat
    /\ Funds \in [Accounts -> Nat]

VARIABLES
    now,            \* env.ledger().timestamp()
    balance,        \* balances kept by the token contract
    bounties        \* persistent storage, DataKey::Bounty(id)

chainVars == <<now, balance, bounties>>

-----------------------------------------------------------------------------
Locked == {"Open", "Assigned"}
Settled == {"Paid", "Cancelled", "Refunded"}
BountyStatus == Locked \cup Settled

\* A stored Bounty, or the absence of one (status "Missing").
Bounty == [client: Accounts \cup {None}, developer: Accounts \cup {None},
           amount: Nat, criteria_hash: CriteriaHashes \cup {None},
           evidence_hash: EvidenceHashes \cup {None}, deadline: Nat,
           status: BountyStatus \cup {"Missing"}]

Missing == [client |-> None, developer |-> None, amount |-> 0,
            criteria_hash |-> None, evidence_hash |-> None, deadline |-> 0,
            status |-> "Missing"]

TypeOK ==
    /\ now \in Nat
    /\ balance \in [Accounts \cup {Contract} -> Nat]
    /\ bounties \in [BountyIds -> Bounty]

Init ==
    /\ now = 0
    /\ balance = [a \in Accounts \cup {Contract} |->
                    IF a = Contract THEN 0 ELSE Funds[a]]
    /\ bounties = [id \in BountyIds |-> Missing]

-----------------------------------------------------------------------------
\* token::Client::transfer: traps, and with it the whole invocation, when
\* `from` does not hold `amount`.
Transfer(from, to, amount) ==
    /\ balance[from] >= amount
    /\ balance' = [balance EXCEPT ![from] = @ - amount, ![to] = @ + amount]

\* The timestamp of a later ledger; it is not always the next second.
CloseLedger ==
    /\ now' \in (now + 1)..MaxTime
    /\ UNCHANGED <<balance, bounties>>

CreateBounty(id, client, amount, criteria, deadline) ==
    /\ amount > 0
    /\ deadline > now
    /\ bounties[id].status = "Missing"
    /\ Transfer(client, Contract, amount)
    /\ bounties' = [bounties EXCEPT ![id] =
            [client |-> client, developer |-> None, amount |-> amount,
             criteria_hash |-> criteria, evidence_hash |-> None,
             deadline |-> deadline, status |-> "Open"]]
    /\ UNCHANGED now

AcceptBounty(id, developer) ==
    /\ bounties[id].status = "Open"
    /\ now <= bounties[id].deadline
    /\ bounties' = [bounties EXCEPT ![id].developer = developer,
                                    ![id].status = "Assigned"]
    /\ UNCHANGED <<now, balance>>

\* Mutant of ReleaseBounty: the evidence hash is not stored.
ReleaseBountyWithoutEvidence(caller, id, evidence) ==
    /\ caller = Verifier
    /\ bounties[id].status = "Assigned"
    /\ now <= bounties[id].deadline
    /\ bounties[id].developer # None
    /\ Transfer(Contract, bounties[id].developer, bounties[id].amount)
    /\ bounties' = [bounties EXCEPT ![id].status = "Paid"]
    /\ UNCHANGED now

\* Mutant of ReleaseBounty: the deadline is not looked at.
ReleaseBountyAnyTime(caller, id, evidence) ==
    /\ caller = Verifier
    /\ bounties[id].status = "Assigned"
    /\ bounties[id].developer # None
    /\ Transfer(Contract, bounties[id].developer, bounties[id].amount)
    /\ bounties' = [bounties EXCEPT ![id].evidence_hash = evidence,
                                    ![id].status = "Paid"]
    /\ UNCHANGED now

ReleaseBounty(caller, id, evidence) ==
    /\ caller = Verifier
    /\ bounties[id].status = "Assigned"
    /\ now <= bounties[id].deadline
    /\ bounties[id].developer # None
    /\ Transfer(Contract, bounties[id].developer, bounties[id].amount)
    /\ bounties' = [bounties EXCEPT ![id].evidence_hash = evidence,
                                    ![id].status = "Paid"]
    /\ UNCHANGED now

\* Mutant of CancelOpenBounty: the new status is not saved.
CancelOpenBountyUnsaved(caller, id) ==
    /\ caller = bounties[id].client
    /\ bounties[id].status = "Open"
    /\ now <= bounties[id].deadline
    /\ Transfer(Contract, bounties[id].client, bounties[id].amount)
    /\ UNCHANGED <<now, bounties>>

CancelOpenBounty(caller, id) ==
    /\ bounties[id].status # "Missing"
    /\ caller = bounties[id].client
    /\ bounties[id].status = "Open"
    /\ now <= bounties[id].deadline
    /\ Transfer(Contract, bounties[id].client, bounties[id].amount)
    /\ bounties' = [bounties EXCEPT ![id].status = "Cancelled"]
    /\ UNCHANGED now

\* Mutant of RefundExpired: only the deadline is checked, not the status.
RefundExpiredOfAnyStatus(caller, id) ==
    /\ bounties[id].status # "Missing"
    /\ caller = bounties[id].client
    /\ now > bounties[id].deadline
    /\ Transfer(Contract, bounties[id].client, bounties[id].amount)
    /\ bounties' = [bounties EXCEPT ![id].status = "Refunded"]
    /\ UNCHANGED now

\* Mutant of RefundExpired: Open bounties are left to cancel_open_bounty.
RefundExpiredAssigned(caller, id) ==
    /\ caller = bounties[id].client
    /\ bounties[id].status = "Assigned"
    /\ now > bounties[id].deadline
    /\ Transfer(Contract, bounties[id].client, bounties[id].amount)
    /\ bounties' = [bounties EXCEPT ![id].status = "Refunded"]
    /\ UNCHANGED now

RefundExpired(caller, id) ==
    /\ bounties[id].status # "Missing"
    /\ caller = bounties[id].client
    /\ bounties[id].status \in Locked
    /\ now > bounties[id].deadline
    /\ Transfer(Contract, bounties[id].client, bounties[id].amount)
    /\ bounties' = [bounties EXCEPT ![id].status = "Refunded"]
    /\ UNCHANGED now

Next ==
    \/ CloseLedger
    \/ \E id \in BountyIds, caller \in Accounts :
        \/ \E amount \in Amounts, criteria \in CriteriaHashes, deadline \in Deadlines :
                CreateBounty(id, caller, amount, criteria, deadline)
        \/ AcceptBounty(id, caller)
        \/ \E evidence \in EvidenceHashes : ReleaseBounty(caller, id, evidence)
        \/ CancelOpenBounty(caller, id)
        \/ RefundExpired(caller, id)

Spec == Init /\ [][Next]_chainVars

\* Ledgers keep closing, and a client whose deadline went by without a payout
\* asks for the money back.  Nothing else is fair: a developer may never accept,
\* the verifier may never release.
Fairness ==
    /\ WF_chainVars(CloseLedger)
    /\ \A id \in BountyIds :
            WF_chainVars(\E caller \in Accounts : RefundExpired(caller, id))

FairSpec == Spec /\ Fairness

-----------------------------------------------------------------------------
\* One element per token unit the contract owes: the sum of the amounts of
\* the bounties whose reward it still keeps, as a set that can be counted.
HeldUnits ==
    UNION {{id} \X (1..bounties[id].amount) :
              id \in {i \in BountyIds : bounties[i].status \in Locked}}

\* The contract's token balance is exactly the sum of the rewards of the Open
\* and Assigned bounties, whatever sequence of create, release, cancel and
\* refund calls led there: no exit pays a reward the contract no longer holds
\* for that bounty, and no call strands part of one.
EscrowSolvent == balance[Contract] = Cardinality(HeldUnits)

\* What a stored bounty says about its own history: a developer is recorded
\* exactly while and after the work was taken (refund_expired keeps it "como
\* registro historico"), and an evidence hash exactly when it was paid.
RecordConsistent ==
    \A id \in BountyIds :
        LET b == bounties[id] IN
        /\ b.status \in {"Assigned", "Paid"} => b.developer # None
        /\ b.status \in {"Open", "Cancelled"} => b.developer = None
        /\ (b.evidence_hash # None) <=> (b.status = "Paid")
        /\ b.status # "Missing" => b.client # None /\ b.amount > 0

\* Once paid, cancelled or refunded a bounty never changes again, so its id
\* cannot be funded or paid a second time.
SettledIsFinal ==
    [][\A id \in BountyIds :
            bounties[id].status \in Settled => bounties'[id] = bounties[id]]_chainVars

\* The deadline splits the exits: a developer who accepted can lose the reward
\* only after it, and neither a payout nor a cancellation happens after it, so
\* release_bounty and refund_expired are never both possible.
DeadlineSeparatesExits ==
    [][\A id \in BountyIds :
            bounties'[id].status # bounties[id].status =>
                CASE bounties'[id].status = "Refunded" -> now > bounties[id].deadline
                  [] bounties'[id].status \in {"Paid", "Cancelled"} ->
                        now <= bounties[id].deadline
                  [] OTHER -> TRUE]_chainVars

Terms(b) == <<b.client, b.amount, b.criteria_hash, b.deadline>>

\* The terms fixed by create_bounty are never rewritten, and neither is the
\* developer once there is one: accept_bounty, release_bounty and the refunds
\* store the whole struct again and must carry these fields over.
TermsAreFrozen ==
    [][\A id \in BountyIds :
            bounties[id].status # "Missing" =>
                /\ Terms(bounties'[id]) = Terms(bounties[id])
                /\ bounties[id].developer # None =>
                        bounties'[id].developer = bounties[id].developer]_chainVars

\* No reward stays in the contract for ever: after the deadline the client can
\* always get back what nobody was paid (the token transfer cannot trap).
RewardNeverStranded ==
    \A id \in BountyIds :
        bounties[id].status \in Locked ~> bounties[id].status \in Settled

-----------------------------------------------------------------------------
StageOf(status) ==
    CASE status = "Missing" -> "absent"
      [] status \in Locked -> "held"
      [] status = "Paid" -> "paid"
      [] OTHER -> "returned"

RewardOf == [id \in BountyIds |->
                [stage |-> StageOf(bounties[id].status),
                 owner |-> bounties[id].client,
                 payee |-> bounties[id].developer,
                 amount |-> bounties[id].amount]]

Promise == INSTANCE EscrowPromise WITH reward <- RewardOf

\* The contract implements the promise of module EscrowPromise: every call is a
\* deposit, a commitment to a payee, a payment or a return, or does not touch
\* the money at all.
KeepsPromise == Promise!Promised
===============================================================================
