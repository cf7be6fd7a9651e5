-------------------------- MODULE PendingTransaction --------------------------
(***************************************************************************)
(* A contract call signed in the browser and its confirmation with the API: *)
(* FundingPanel (create_bounty) and AssignmentPanel (accept_bounty) with    *)
(* signAndSubmit of web/src/stellar/escrow.ts and the hash that             *)
(* sessionStorage keeps across a reload.                                    *)
(*                                                                          *)
(* One tab and one panel.  The panel's function runs through its awaits     *)
(* while the network includes or drops what was sent, answers get lost and  *)
(* the page is reloaded, which ends the function and keeps the storage.     *)
(* Between two functions the user may sign in with another wallet.          *)
(***************************************************************************)
EXTENDS Integers, Sequences

CONSTANTS
    Wallets,
    Client,             \* the wallet that created the task
    MaxTransactions,    \* bound on the transactions sent
    MaxReloads,         \* bound on the reloads
    None

ASSUME PendingAssumption ==
    /\ MaxTransactions \in Nat /\ MaxReloads \in Nat /\ None \notin Nat
    /\ Client \in Wallets /\ None \notin Wallets

VARIABLES
    kind,       \* which panel it is
    wallet,     \* the wallet that is connected and signed in, or None
    sequence,   \* sequence number of each wallet's account
    txs,        \* the transactions sent; a transaction's hash is its index
    effect,     \* the one that took effect on chain; 0 is somebody else's
    confirmed,  \* MergePay recorded it
    stored,     \* sessionStorage
    known,      \* the panel's state: `submitted`, or `pending`
    flow,       \* the panel's running function, and its local variables
    reloads

chain == <<sequence, txs, effect>>
vars == <<kind, wallet, sequence, txs, effect, confirmed, stored, known, flow, reloads>>

-----------------------------------------------------------------------------
Hashes == 1..MaxTransactions
Steps == {"idle", "preparing", "signing", "submitting", "confirming",
          "proving", "syncing"}
Signatures == {"none", "valid", "invalid"}

\* `heard`: the panel was told that Stellar accepted the transaction.
Transaction == [wallet: Wallets, sequence: Nat,
                outcome: {"pending", "success", "failed", "expired"}, heard: BOOLEAN]

\* SubmittedTransaction or PendingAssignment.  A funding needs no signature.
Pending == [hash: Hashes, signature: Signatures]

ASSUME NoneIsNotPending == None \notin Pending

Unsigned(hash) ==
    [hash |-> hash, signature |-> IF kind = "funding" THEN "valid" ELSE "none"]

Idle == [step |-> "idle", sequence |-> 0, hash |-> None]

PendingTypeOK ==
    /\ kind \in {"funding", "assignment"}
    /\ wallet \in Wallets \cup {None}
    /\ sequence \in [Wallets -> Nat]
    /\ txs \in Seq(Transaction) /\ Len(txs) <= MaxTransactions
    /\ effect \in {0, None} \cup DOMAIN txs
    /\ confirmed \in BOOLEAN
    /\ stored \in Pending \cup {None}
    /\ known \in Pending \cup {None}
    /\ flow \in [step: Steps, sequence: Nat, hash: Hashes \cup {None}]
    /\ (flow.step \in {"proving", "syncing"}) => known # None
    /\ flow.step # "idle" => wallet # None
    /\ reloads \in 0..MaxReloads

PendingInit ==
    /\ kind \in {"funding", "assignment"}
    /\ wallet \in Wallets \cup {None}
    /\ sequence = [w \in Wallets |-> 0]
    /\ txs = <<>>
    /\ effect = None
    /\ confirmed = FALSE
    /\ stored = None
    /\ known = None
    /\ flow = Idle
    /\ reloads = 0

GoTo(step) == flow' = [flow EXCEPT !.step = step]

\* The wallet that signed what is pending: `developerAddress` of an acceptance.
Signer == txs[known.hash].wallet

-----------------------------------------------------------------------------
(* What the panel offers.  Its hash is shown and its buttons work only for a *)
(* session of the connected wallet that has a part in the task: a draft is  *)
(* its client's, and any other wallet may become the developer.             *)

CanFund == wallet = Client
CanAccept == wallet \notin {Client, None}
MayAct == IF kind = "funding" THEN CanFund ELSE CanAccept

View ==
    CASE flow.step # "idle" \/ ~MayAct -> "nothing"
      [] flow.step = "idle" /\ MayAct /\ known = None -> "sign"
      [] OTHER -> IF known.signature = "none" THEN "prove" ELSE "retry"

-----------------------------------------------------------------------------
\* The button is there when nothing was submitted and the task still needs it;
\* signAndSubmit reads the account first.
Begin ==
    /\ View = "sign"
    /\ ~confirmed
    /\ flow' = [step |-> "preparing", sequence |-> sequence[wallet] + 1, hash |-> None]
    /\ UNCHANGED <<kind, wallet, chain, confirmed, stored, known, reloads>>

\* prepareTransaction simulates the call: it fails on a bounty that exists, or
\* that was accepted, already.
Prepare ==
    /\ flow.step = "preparing"
    /\ effect = None
    /\ GoTo("signing")
    /\ UNCHANGED <<kind, wallet, chain, confirmed, stored, known, reloads>>

Sign ==
    /\ flow.step = "signing"
    /\ GoTo("submitting")
    /\ UNCHANGED <<kind, wallet, chain, confirmed, stored, known, reloads>>

\* Anything fails before Stellar accepts the transaction: there is no hash.
FailUnsent ==
    /\ flow.step \in {"preparing", "signing", "submitting"}
    /\ flow' = Idle
    /\ UNCHANGED <<kind, wallet, chain, confirmed, stored, known, reloads>>

\* Stellar queues one transaction of an account at a time, the next in sequence.
Acceptable ==
    /\ Len(txs) < MaxTransactions
    /\ flow.sequence = sequence[wallet] + 1
    /\ \A n \in DOMAIN txs : txs[n].wallet = wallet => txs[n].outcome # "pending"

Queue(heard) ==
    txs' = Append(txs, [wallet |-> wallet, sequence |-> flow.sequence, 
                        outcome |-> "pending", heard |-> heard])

\* sendTransaction answers PENDING, and onSubmitted stores the hash.
Send ==
    /\ flow.step = "submitting" /\ Acceptable
    /\ Queue(TRUE)
    /\ stored' = Unsigned(Len(txs) + 1)
    /\ flow' = [flow EXCEPT !.step = "confirming", !.hash = Len(txs) + 1]
    /\ UNCHANGED <<kind, wallet, sequence, effect, confirmed, known, reloads>>

\* Stellar accepts it but the answer is lost: to the panel it never was sent.
SendUnanswered ==
    /\ flow.step = "submitting" /\ Acceptable
    /\ Queue(FALSE)
    /\ flow' = Idle
    /\ UNCHANGED <<kind, wallet, sequence, effect, confirmed, stored, known, reloads>>

-----------------------------------------------------------------------------
\* The poll sees SUCCESS.  An acceptance goes on to prove who owns the wallet.
SeeSuccess ==
    /\ flow.step = "confirming"
    /\ txs[flow.hash].outcome = "success"
    /\ known' = Unsigned(flow.hash)
    /\ GoTo(IF kind = "funding" THEN "syncing" ELSE "proving")
    /\ UNCHANGED <<kind, wallet, chain, confirmed, stored, reloads>>

\* The poll sees FAILED: no effect, so nothing is left to recover.
SeeFailure ==
    /\ flow.step = "confirming"
    /\ txs[flow.hash].outcome = "failed"
    /\ stored' = None
    /\ flow' = Idle
    /\ UNCHANGED <<kind, wallet, chain, confirmed, known, reloads>>

\* Mutant of StopPolling: a timeout counts as a failure.
StopPollingForgetting ==
    /\ flow.step = "confirming"
    /\ stored' = None
    /\ flow' = Idle
    /\ UNCHANGED <<kind, wallet, chain, confirmed, known, reloads>>

\* MAX_POLL_ATTEMPTS or a network error: the transaction may still land.
StopPolling ==
    /\ flow.step = "confirming"
    /\ known' = Unsigned(flow.hash)
    /\ flow' = Idle
    /\ UNCHANGED <<kind, wallet, chain, confirmed, stored, reloads>>

\* The button "Sign ownership proof", for the wallet that accepted only.
RetryProof ==
    /\ View = "prove"
    /\ wallet = Signer
    /\ GoTo("proving")
    /\ UNCHANGED <<kind, wallet, chain, confirmed, stored, known, reloads>>

\* The wallet signs the message; the API may find the signature wrong.
Prove(signature) ==
    /\ flow.step = "proving"
    /\ known' = [known EXCEPT !.signature = signature]
    /\ stored' = known'
    /\ GoTo("syncing")
    /\ UNCHANGED <<kind, wallet, chain, confirmed, reloads>>

FailProof ==
    /\ flow.step = "proving"
    /\ flow' = Idle
    /\ UNCHANGED <<kind, wallet, chain, confirmed, stored, known, reloads>>

\* The button "Retry confirmation": nothing is signed again.
RetryConfirmation ==
    /\ View = "retry"
    /\ GoTo("syncing")
    /\ UNCHANGED <<kind, wallet, chain, confirmed, stored, known, reloads>>

\* What POST /funded and /assigned ask of the chain and of the session.
Matches == effect = known.hash /\ wallet = Signer

\* They succeed, the first time or once more.
Confirm ==
    /\ flow.step = "syncing"
    /\ Matches /\ known.signature = "valid"
    /\ confirmed' = TRUE
    /\ stored' = None
    /\ known' = None
    /\ flow' = Idle
    /\ UNCHANGED <<kind, wallet, chain, reloads>>

\* It succeeds and the answer is lost.
ConfirmUnanswered ==
    /\ flow.step = "syncing"
    /\ Matches /\ known.signature = "valid"
    /\ confirmed' = TRUE
    /\ flow' = Idle
    /\ UNCHANGED <<kind, wallet, chain, stored, known, reloads>>

\* Mutant of RefuseSignature: the refused signature is kept.
RefuseSignatureKeepingIt ==
    /\ flow.step = "syncing"
    /\ Matches /\ known.signature = "invalid"
    /\ flow' = Idle
    /\ UNCHANGED <<kind, wallet, chain, confirmed, stored, known, reloads>>

\* 403 "Developer wallet signature is invalid", the last check of all: only the
\* signature is dropped.
RefuseSignature ==
    /\ flow.step = "syncing"
    /\ Matches /\ known.signature = "invalid"
    /\ known' = [known EXCEPT !.signature = "none"]
    /\ stored' = known'
    /\ flow' = Idle
    /\ UNCHANGED <<kind, wallet, chain, confirmed, reloads>>

\* Any other failure keeps the hash, in memory and in sessionStorage: no answer,
\* not on chain yet, or the session of another developer.
FailConfirmation ==
    /\ flow.step = "syncing"
    /\ flow' = Idle
    /\ UNCHANGED <<kind, wallet, chain, confirmed, stored, known, reloads>>

\* Mutant of Reload: the panel starts empty.
ReloadForgetting ==
    /\ reloads < MaxReloads
    /\ reloads' = reloads + 1
    /\ known' = None
    /\ flow' = Idle
    /\ UNCHANGED <<kind, wallet, chain, confirmed, stored>>

\* The page is loaded again: recoverSubmitted, readPendingAssignment.
Reload ==
    /\ reloads < MaxReloads
    /\ reloads' = reloads + 1
    /\ known' = stored
    /\ flow' = Idle
    /\ UNCHANGED <<kind, wallet, chain, confirmed, stored>>

\* The user signs in with another wallet, or out, which shows the panel anew
\* (bound: not while its function runs).
SwitchWallet(next) ==
    /\ flow.step = "idle"
    /\ wallet' = next
    /\ known' = stored
    /\ UNCHANGED <<kind, chain, confirmed, stored, flow, reloads>>

-----------------------------------------------------------------------------
\* A ledger includes a transaction: it takes effect if no other did, unless the
\* contract refuses it (the deadline passed, the balance is gone).
Include(n) ==
    /\ txs[n].outcome = "pending"
    /\ \/ /\ effect = None
          /\ effect' = n
          /\ txs' = [txs EXCEPT ![n].outcome = "success"]
       \/ /\ txs' = [txs EXCEPT ![n].outcome = "failed"]
          /\ UNCHANGED effect
    /\ sequence' = [sequence EXCEPT ![txs[n].wallet] = txs[n].sequence]
    /\ UNCHANGED <<kind, wallet, confirmed, stored, known, flow, reloads>>

Expire(n) ==
    /\ txs[n].outcome = "pending"
    /\ txs' = [txs EXCEPT ![n].outcome = "expired"]
    /\ UNCHANGED <<kind, wallet, sequence, effect, confirmed, stored, known, flow, reloads>>

\* Another wallet creates the bounty under this id, or accepts the task.
TakenByOther ==
    /\ effect = None
    /\ effect' = 0
    /\ UNCHANGED <<kind, wallet, sequence, txs, confirmed, stored, known, flow, reloads>>

PendingNext ==
    \/ Begin \/ Prepare \/ Sign \/ FailUnsent
    \/ Send \/ SendUnanswered
    \/ SeeSuccess \/ SeeFailure \/ StopPolling
    \/ RetryProof \/ FailProof
    \/ \E signature \in {"valid", "invalid"} : Prove(signature)
    \/ RetryConfirmation
    \/ Confirm \/ ConfirmUnanswered \/ RefuseSignature \/ FailConfirmation
    \/ Reload
    \/ \E next \in (Wallets \cup {None}) \ {wallet} : SwitchWallet(next)
    \/ \E n \in DOMAIN txs : Include(n) \/ Expire(n)
    \/ TakenByOther

\* What "Switch to the wallet that accepted this task" asks for.
SwitchToSigner == known # None /\ wallet # Signer /\ SwitchWallet(Signer)

\* The panel's function goes on, the user comes back to the wallet that signed
\* and presses the button that is offered, and among retries without end the
\* wallet and the API answer some.
PendingFairness ==
    /\ WF_vars(SeeSuccess)
    /\ WF_vars(FailConfirmation)
    /\ SF_vars(SwitchToSigner)
    /\ SF_vars(RetryProof)
    /\ SF_vars(RetryConfirmation /\ wallet = Signer)
    /\ SF_vars(Prove("valid"))
    /\ SF_vars(RefuseSignature)
    /\ SF_vars(Confirm)

PendingSpec == PendingInit /\ [][PendingNext]_vars /\ PendingFairness

-----------------------------------------------------------------------------
\* "Desde aqui la transaccion puede entrar en la red, asi que el hash no debe
\* perderse aunque algo falle despues": once the panel heard that Stellar took
\* it, the hash of a transaction that has effect is in the storage until
\* MergePay has it, whatever timeout, refusal or reload comes in between.
HeardIsRemembered ==
    \A n \in DOMAIN txs :
        txs[n].heard /\ effect = n /\ ~confirmed =>
            stored # None /\ stored.hash = n

\* "Mientras exista, la UI no vuelve a firmar": the panel asks the wallet for
\* a transaction only when every one it heard of has definitely failed.
SignsOnlyAfterFailure ==
    flow.step \in {"preparing", "signing", "submitting"} =>
        \A n \in DOMAIN txs : txs[n].heard => txs[n].outcome = "failed"

\* A transaction the panel heard of that takes effect is confirmed with
\* MergePay in the end: no reload, lost answer, refused signature or change of
\* wallet leaves the panel without a way on.
EffectIsConfirmed ==
    \A n \in Hashes :
        (n \in DOMAIN txs /\ txs[n].heard /\ effect = n) ~> confirmed

-----------------------------------------------------------------------------
(* What the documentation says and the code does not keep. *)

\* "Aunque algo fallara despues, volver a firmar podria duplicar la operacion,
\* asi que el hash no se pierde", of any transaction that was sent.
EffectIsRemembered ==
    \A n \in DOMAIN txs :
        effect = n /\ ~confirmed =>
            \/ stored # None /\ stored.hash = n
            \/ flow.hash = n
===============================================================================
