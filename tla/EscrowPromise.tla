---------------------------- MODULE EscrowPromise ----------------------------
(***************************************************************************)
(* What the MergePay escrow promises to the people whose money it keeps,   *)
(* with the clock, the hashes and the five on-chain statuses left out: a    *)
(* reward is deposited once by its owner, may be committed to one payee,    *)
(* and leaves the contract once, whole, either to that payee or back to     *)
(* the owner.  Module Escrow, translated from contracts/escrow/src/lib.rs,  *)
(* implements it.                                                           *)
(***************************************************************************)
EXTENDS Integers

CONSTANTS
    Accounts,       \* the addresses of clients and developers
    Contract,       \* the address of the contract itself
    BountyIds,      \* the keys of the rewards
    Amounts,        \* the amounts a reward may have
    None,           \* no account
    Funds           \* the tokens each account starts with

VARIABLES
    balance,        \* the token contract's balances
    reward          \* for each key, the reward deposited under it

promiseVars == <<balance, reward>>

Stages == {"absent", "held", "paid", "returned"}

NoReward == [stage |-> "absent", owner |-> None, payee |-> None, amount |-> 0]

PInit ==
    /\ balance = [a \in Accounts \cup {Contract} |->
                    IF a = Contract THEN 0 ELSE Funds[a]]
    /\ reward = [id \in BountyIds |-> NoReward]

Move(from, to, amount) ==
    /\ balance[from] >= amount
    /\ balance' = [balance EXCEPT ![from] = @ - amount, ![to] = @ + amount]

Deposit(id, owner, amount) ==
    /\ reward[id].stage = "absent"
    /\ amount > 0
    /\ Move(owner, Contract, amount)
    /\ reward' = [reward EXCEPT ![id] = [stage |-> "held", owner |-> owner,
                                         payee |-> None, amount |-> amount]]

Commit(id, payee) ==
    /\ reward[id].stage = "held"
    /\ reward[id].payee = None
    /\ reward' = [reward EXCEPT ![id].payee = payee]
    /\ UNCHANGED balance

Pay(id) ==
    /\ reward[id].stage = "held"
    /\ reward[id].payee # None
    /\ Move(Contract, reward[id].payee, reward[id].amount)
    /\ reward' = [reward EXCEPT ![id].stage = "paid"]

Return(id) ==
    /\ reward[id].stage = "held"
    /\ Move(Contract, reward[id].owner, reward[id].amount)
    /\ reward' = [reward EXCEPT ![id].stage = "returned"]

PNext ==
    \E id \in BountyIds :
        \/ \E owner \in Accounts, amount \in Amounts : Deposit(id, owner, amount)
        \/ \E payee \in Accounts : Commit(id, payee)
        \/ Pay(id)
        \/ Return(id)

Promised == PInit /\ [][PNext]_promiseVars
==============================================================================
