----------------------------- MODULE PendingProofs -----------------------------
(***************************************************************************)
(* Theorems about PendingTransaction, for any number of transactions and    *)
(* reloads.                                                                 *)
(***************************************************************************)
EXTENDS PendingTransaction, TLAPS

\* The panel's state and the storage agree, except between onSubmitted and the
\* end of the poll, when only the storage has the hash.
MemoryIsStored ==
    IF flow.step = "confirming"
    THEN /\ known = None
         /\ flow.hash \in DOMAIN txs
         /\ stored = Unsigned(flow.hash)
    ELSE known = stored

\* While a transaction is being made nothing is pending and nothing confirmed.
MakingIsAlone ==
    /\ flow.step \in {"preparing", "signing", "submitting"} => known = None
    /\ flow.step \in {"preparing", "signing", "submitting", "confirming"} => ~confirmed

\* Whatever was heard of and did not fail is the one that is stored.
OnlyFailuresAreForgotten ==
    \A n \in DOMAIN txs :
        txs[n].heard /\ txs[n].outcome # "failed" /\ ~confirmed =>
            stored # None /\ stored.hash = n

EffectSucceeded ==
    \A n \in DOMAIN txs : effect = n => txs[n].outcome = "success"

PendingInv ==
    /\ PendingTypeOK
    /\ MemoryIsStored
    /\ MakingIsAlone
    /\ OnlyFailuresAreForgotten
    /\ EffectSucceeded

\* What Unsigned makes of a hash is a pending transaction with that hash.
LEMMA UnsignedIsPending ==
  ASSUME NEW hash \in Hashes
  PROVE  /\ Unsigned(hash) \in Pending
         /\ Unsigned(hash).hash = hash
BY DEF Unsigned, Pending, Signatures

\* What each button stands for; only who is signed in sees one.
LEMMA Offers ==
  /\ View # "nothing" => flow.step = "idle" /\ wallet # None
  /\ View = "sign" => known = None
  /\ View \in {"prove", "retry"} => known # None
<1>1. MayAct => wallet # None
  BY PendingAssumption DEF MayAct, CanFund, CanAccept
<1> QED
  BY <1>1 DEF View

LEMMA InitialPending == PendingInit => PendingInv
<1> SUFFICES ASSUME PendingInit PROVE PendingInv
  OBVIOUS
<1>1. PendingTypeOK
  <2>1. txs \in Seq(Transaction) /\ Len(txs) <= MaxTransactions
    BY PendingAssumption DEF PendingInit
  <2>2. flow \in [step: Steps, sequence: Nat, hash: Hashes \cup {None}]
    BY DEF PendingInit, Idle, Steps
  <2>3. ~(flow.step \in {"proving", "syncing"})
    BY DEF PendingInit, Idle
  <2>4. effect \in {0, None} \cup DOMAIN txs
    BY DEF PendingInit
  <2>5. reloads \in 0..MaxReloads
    BY PendingAssumption DEF PendingInit
  <2>6. sequence \in [Wallets -> Nat] /\ flow.step = "idle"
    BY DEF PendingInit, Idle
  <2> QED
    BY <2>1, <2>2, <2>3, <2>4, <2>5, <2>6 DEF PendingInit, PendingTypeOK
<1>2. MemoryIsStored /\ MakingIsAlone /\ OnlyFailuresAreForgotten /\ EffectSucceeded
  BY DEF PendingInit, MemoryIsStored, MakingIsAlone, OnlyFailuresAreForgotten,
         EffectSucceeded, Idle
<1> QED
  BY <1>1, <1>2 DEF PendingInv

\* The steps that touch neither the chain nor the storage: the panel's function
\* moves on, ends, or asks for something again.
LocalStep ==
    Begin \/ Prepare \/ Sign \/ FailUnsent \/ RetryProof \/ FailProof
    \/ RetryConfirmation \/ FailConfirmation

LEMMA LocalStepKeepsPending == PendingInv /\ LocalStep => PendingInv'
<1> SUFFICES ASSUME PendingInv, LocalStep PROVE PendingInv'
  OBVIOUS
<1> USE DEF PendingInv, GoTo, chain
<1>1. PendingTypeOK'
  <2>1. /\ flow' \in [step: Steps, sequence: Nat, hash: Hashes \cup {None}]
        /\ flow'.step \in {"proving", "syncing"} => known # None
        /\ flow'.step # "idle" => wallet # None
    BY Offers DEF PendingTypeOK, LocalStep, Begin, Prepare, Sign, FailUnsent, RetryProof,
           FailProof, RetryConfirmation, FailConfirmation, Idle, Steps
  <2>2. UNCHANGED <<kind, wallet, sequence, txs, effect, confirmed, stored, known, reloads>>
    BY DEF LocalStep, Begin, Prepare, Sign, FailUnsent, RetryProof, FailProof,
           RetryConfirmation, FailConfirmation
  <2> QED
    BY <2>1, <2>2 DEF PendingTypeOK
<1>2. MemoryIsStored' /\ MakingIsAlone'
  BY Offers DEF PendingTypeOK, MemoryIsStored, MakingIsAlone, LocalStep, Begin, Prepare,
         Sign, FailUnsent, RetryProof, FailProof, RetryConfirmation,
         FailConfirmation, Idle
<1>3. OnlyFailuresAreForgotten' /\ EffectSucceeded'
  BY DEF OnlyFailuresAreForgotten, EffectSucceeded, LocalStep, Begin, Prepare,
         Sign, FailUnsent, RetryProof, FailProof, RetryConfirmation,
         FailConfirmation
<1> QED
  BY <1>1, <1>2, <1>3

-----------------------------------------------------------------------------
\* A transaction enters the queue; the ones before keep their places.
LEMMA QueueAppends ==
  ASSUME PendingTypeOK, flow.step = "submitting", Acceptable, NEW heard \in BOOLEAN,
         Queue(heard)
  PROVE  /\ txs' \in Seq(Transaction)
         /\ Len(txs') = Len(txs) + 1 /\ Len(txs') <= MaxTransactions
         /\ DOMAIN txs' = 1..Len(txs')
         /\ \A n \in DOMAIN txs : n \in DOMAIN txs' /\ txs'[n] = txs[n]
         /\ txs'[Len(txs')].outcome = "pending"
         /\ txs'[Len(txs')].heard = heard
<1> DEFINE tx == [wallet |-> wallet, sequence |-> flow.sequence,
                  outcome |-> "pending", heard |-> heard]
<1>1. tx \in Transaction
  BY DEF PendingTypeOK, Transaction
<1>2. txs \in Seq(Transaction) /\ txs' = Append(txs, tx) /\ Len(txs) < MaxTransactions
  BY DEF PendingTypeOK, Queue, Acceptable
<1>3. tx.outcome = "pending" /\ tx.heard = heard
  OBVIOUS
<1> HIDE DEF tx
<1> QED
  BY <1>1, <1>2, <1>3, PendingAssumption

\* The hash is stored while the function goes on to poll.  Nothing that was
\* heard of before is lost: the storage was empty, so all of that had failed.
LEMMA SendKeepsPending == PendingInv /\ Send => PendingInv'
<1> SUFFICES ASSUME PendingInv, Send PROVE PendingInv'
  OBVIOUS
<1> DEFINE n == Len(txs) + 1
<1>1. /\ txs' \in Seq(Transaction)
      /\ Len(txs') = n /\ n <= MaxTransactions
      /\ DOMAIN txs' = 1..n
      /\ \A m \in DOMAIN txs : m \in DOMAIN txs' /\ txs'[m] = txs[m]
      /\ txs'[n].outcome = "pending"
  BY QueueAppends DEF PendingInv, Send
<1>2. txs \in Seq(Transaction) /\ DOMAIN txs = 1..Len(txs) /\ Len(txs) \in Nat
  BY DEF PendingInv, PendingTypeOK
<1>3. n \in Hashes /\ n \in Nat
  BY <1>1, <1>2, PendingAssumption DEF Hashes
<1>4. Unsigned(n) \in Pending /\ Unsigned(n).hash = n
  BY <1>3, UnsignedIsPending
<1>5. /\ stored' = Unsigned(n)
      /\ flow' = [flow EXCEPT !.step = "confirming", !.hash = n]
      /\ flow.step = "submitting"
      /\ UNCHANGED <<kind, wallet, sequence, effect, confirmed, known, reloads>>
  BY DEF Send
<1>6. PendingTypeOK'
  <2>1. flow' \in [step: Steps, sequence: Nat, hash: Hashes \cup {None}]
        /\ flow'.step = "confirming" /\ flow'.hash = n
    BY <1>3, <1>5 DEF PendingInv, PendingTypeOK, Steps
  <2>2. effect \in {0, None} \cup DOMAIN txs'
    BY <1>1 DEF PendingInv, PendingTypeOK
  <2> QED
    BY <1>1, <1>4, <1>5, <2>1, <2>2 DEF PendingInv, PendingTypeOK
<1>7. known = None /\ stored = None /\ ~confirmed
  BY <1>5 DEF PendingInv, MemoryIsStored, MakingIsAlone
<1>8. MemoryIsStored' /\ MakingIsAlone'
  <2>1. flow'.step = "confirming" /\ flow'.hash = n
    BY <1>5 DEF PendingInv, PendingTypeOK
  <2>2. stored' = [hash |-> flow'.hash,
                   signature |-> IF kind' = "funding" THEN "valid" ELSE "none"]
    BY <1>5, <2>1 DEF Unsigned
  <2>3. MemoryIsStored'
    BY <1>1, <1>3, <1>5, <1>7, <2>1, <2>2 DEF MemoryIsStored, Unsigned
  <2> QED
    BY <1>5, <1>7, <2>1, <2>3 DEF MakingIsAlone
<1>9. OnlyFailuresAreForgotten'
  <2> SUFFICES ASSUME NEW m \in DOMAIN txs', txs'[m].heard,
                      txs'[m].outcome # "failed"
               PROVE  stored' # None /\ stored'.hash = m
    BY DEF OnlyFailuresAreForgotten
  <2>1. m = n
    <3>1. m \in DOMAIN txs => txs[m].outcome = "failed"
      BY <1>1, <1>7 DEF PendingInv, OnlyFailuresAreForgotten
    <3> QED
      BY <1>1, <1>2, <3>1
  <2> QED
    BY <1>4, <1>5, <2>1, NoneIsNotPending
<1>10. EffectSucceeded'
  <2>1. effect # n
    BY <1>2, <1>3, PendingAssumption DEF PendingInv, PendingTypeOK
  <2> QED
    BY <1>1, <1>2, <1>5, <2>1 DEF PendingInv, EffectSucceeded
<1> QED
  BY <1>6, <1>8, <1>9, <1>10 DEF PendingInv

\* The panel does not hear of it, and there is nothing to remember.
LEMMA SendUnansweredKeepsPending == PendingInv /\ SendUnanswered => PendingInv'
<1> SUFFICES ASSUME PendingInv, SendUnanswered PROVE PendingInv'
  OBVIOUS
<1> DEFINE n == Len(txs) + 1
<1>1. /\ txs' \in Seq(Transaction)
      /\ Len(txs') = n /\ n <= MaxTransactions
      /\ DOMAIN txs' = 1..n
      /\ \A m \in DOMAIN txs : m \in DOMAIN txs' /\ txs'[m] = txs[m]
      /\ txs'[n].heard = FALSE
  BY QueueAppends DEF PendingInv, SendUnanswered
<1>2. txs \in Seq(Transaction) /\ DOMAIN txs = 1..Len(txs) /\ Len(txs) \in Nat
  BY DEF PendingInv, PendingTypeOK
<1>3. /\ flow' = Idle /\ flow.step = "submitting"
      /\ UNCHANGED <<kind, wallet, sequence, effect, confirmed, stored, known, reloads>>
  BY DEF SendUnanswered
<1>4. flow' \in [step: Steps, sequence: Nat, hash: Hashes \cup {None}]
      /\ flow'.step = "idle"
  BY <1>3 DEF Idle, Steps
<1>5. PendingTypeOK'
  <2>1. effect \in {0, None} \cup DOMAIN txs'
    BY <1>1 DEF PendingInv, PendingTypeOK
  <2> QED
    BY <1>1, <1>3, <1>4, <2>1 DEF PendingInv, PendingTypeOK
<1>6. MemoryIsStored' /\ MakingIsAlone'
  BY <1>3, <1>4 DEF PendingInv, MemoryIsStored, MakingIsAlone
<1>7. OnlyFailuresAreForgotten'
  BY <1>1, <1>2, <1>3 DEF PendingInv, OnlyFailuresAreForgotten
<1>8. EffectSucceeded'
  <2>1. effect # n
    BY <1>2, PendingAssumption DEF PendingInv, PendingTypeOK
  <2> QED
    BY <1>1, <1>2, <1>3, <2>1 DEF PendingInv, EffectSucceeded
<1> QED
  BY <1>5, <1>6, <1>7, <1>8 DEF PendingInv

\* The end of the poll.
PollStep == SeeSuccess \/ SeeFailure \/ StopPolling

LEMMA PollStepKeepsPending == PendingInv /\ PollStep => PendingInv'
<1> SUFFICES ASSUME PendingInv, PollStep PROVE PendingInv'
  OBVIOUS
<1>1. /\ flow.step = "confirming" /\ known = None
      /\ flow.hash \in DOMAIN txs
      /\ stored = Unsigned(flow.hash)
      /\ UNCHANGED <<kind, wallet, sequence, txs, effect, confirmed, reloads>>
  BY DEF PendingInv, MemoryIsStored, PollStep, SeeSuccess, SeeFailure, StopPolling, chain
<1>2. flow.hash \in Hashes
  BY <1>1, PendingAssumption DEF PendingInv, PendingTypeOK, Hashes
<1>3. stored \in Pending /\ stored.hash = flow.hash /\ stored # None
  BY <1>1, <1>2, UnsignedIsPending, NoneIsNotPending
<1>4. CASE SeeFailure
  <2>1. /\ flow' = Idle /\ stored' = None /\ known' = None
        /\ txs[flow.hash].outcome = "failed"
    BY <1>1, <1>4 DEF SeeFailure
  <2>2. flow' \in [step: Steps, sequence: Nat, hash: Hashes \cup {None}]
        /\ flow'.step = "idle"
    BY <2>1 DEF Idle, Steps
  <2>3. PendingTypeOK'
    BY <1>1, <2>1, <2>2 DEF PendingInv, PendingTypeOK
  <2>4. OnlyFailuresAreForgotten'
    BY <1>1, <1>3, <2>1 DEF PendingInv, OnlyFailuresAreForgotten
  <2> QED
    BY <1>1, <2>1, <2>2, <2>3, <2>4
    DEF PendingInv, MemoryIsStored, MakingIsAlone, EffectSucceeded
<1>5. CASE SeeSuccess \/ StopPolling
  <2>1. known' = stored /\ stored' = stored
    BY <1>1, <1>5 DEF SeeSuccess, StopPolling
  <2>2. flow' \in [step: Steps, sequence: Nat, hash: Hashes \cup {None}]
        /\ flow'.step \in {"idle", "proving", "syncing"}
    BY <1>5 DEF PendingInv, PendingTypeOK, SeeSuccess, StopPolling, GoTo, Idle, Steps
  <2>3. PendingTypeOK'
    BY <1>1, <1>3, <2>1, <2>2 DEF PendingInv, PendingTypeOK
  <2> QED
    BY <1>1, <2>1, <2>2, <2>3
    DEF PendingInv, MemoryIsStored, MakingIsAlone, OnlyFailuresAreForgotten,
        EffectSucceeded
<1> QED
  BY <1>4, <1>5 DEF PollStep

\* The signature changes; which transaction is pending does not.
SignatureStep == RefuseSignature \/ \E signature \in {"valid", "invalid"} : Prove(signature)

LEMMA SignatureStepKeepsPending == PendingInv /\ SignatureStep => PendingInv'
<1> SUFFICES ASSUME PendingInv, SignatureStep PROVE PendingInv'
  OBVIOUS
<1>1. PICK signature \in Signatures :
        /\ known' = [known EXCEPT !.signature = signature]
        /\ stored' = known'
        /\ flow.step \in {"proving", "syncing"}
        /\ UNCHANGED <<kind, wallet, sequence, txs, effect, confirmed, reloads>>
  BY DEF SignatureStep, RefuseSignature, Prove, Signatures, chain
<1>2. known \in Pending /\ known = stored
  BY <1>1 DEF PendingInv, PendingTypeOK, MemoryIsStored
<1>3. known' \in Pending /\ known'.hash = known.hash /\ known' # None
  <2>1. known' \in Pending /\ known'.hash = known.hash
    BY <1>1, <1>2 DEF Pending
  <2> QED
    BY <2>1, NoneIsNotPending
<1>4. flow' \in [step: Steps, sequence: Nat, hash: Hashes \cup {None}]
      /\ flow'.step \in {"idle", "syncing"}
  BY DEF PendingInv, PendingTypeOK, SignatureStep, RefuseSignature, Prove, GoTo,
         Idle, Steps
<1>5. PendingTypeOK'
  BY <1>1, <1>3, <1>4 DEF PendingInv, PendingTypeOK
<1>6. OnlyFailuresAreForgotten'
  BY <1>1, <1>2, <1>3 DEF PendingInv, OnlyFailuresAreForgotten
<1> QED
  BY <1>1, <1>4, <1>5, <1>6
  DEF PendingInv, MemoryIsStored, MakingIsAlone, EffectSucceeded

LEMMA ConfirmKeepsPending == PendingInv /\ (Confirm \/ ConfirmUnanswered) => PendingInv'
<1> SUFFICES ASSUME PendingInv, Confirm \/ ConfirmUnanswered PROVE PendingInv'
  OBVIOUS
<1>1. /\ flow.step = "syncing" /\ flow' = Idle /\ confirmed' = TRUE
      /\ \/ stored' = None /\ known' = None
         \/ UNCHANGED <<stored, known>>
      /\ UNCHANGED <<kind, wallet, sequence, txs, effect, reloads>>
  BY DEF Confirm, ConfirmUnanswered, chain
<1>2. flow' \in [step: Steps, sequence: Nat, hash: Hashes \cup {None}]
      /\ flow'.step = "idle"
  BY <1>1 DEF Idle, Steps
<1>3. PendingTypeOK'
  BY <1>1, <1>2 DEF PendingInv, PendingTypeOK
<1>4. MemoryIsStored' /\ MakingIsAlone'
  BY <1>1, <1>2 DEF PendingInv, MemoryIsStored, MakingIsAlone
<1>5. OnlyFailuresAreForgotten' /\ EffectSucceeded'
  BY <1>1 DEF PendingInv, OnlyFailuresAreForgotten, EffectSucceeded
<1> QED
  BY <1>3, <1>4, <1>5 DEF PendingInv

\* The storage is what survives, and all that is needed.
LEMMA ReloadKeepsPending == PendingInv /\ Reload => PendingInv'
<1> SUFFICES ASSUME PendingInv, Reload PROVE PendingInv'
  OBVIOUS
<1>1. /\ flow' = Idle /\ known' = stored
      /\ reloads < MaxReloads /\ reloads' = reloads + 1
      /\ UNCHANGED <<kind, wallet, sequence, txs, effect, confirmed, stored>>
  BY DEF Reload, chain
<1>2. flow' \in [step: Steps, sequence: Nat, hash: Hashes \cup {None}]
      /\ flow'.step = "idle"
  BY <1>1 DEF Idle, Steps
<1>3. PendingTypeOK'
  BY <1>1, <1>2, PendingAssumption DEF PendingInv, PendingTypeOK
<1> QED
  BY <1>1, <1>2, <1>3
  DEF PendingInv, MemoryIsStored, MakingIsAlone, OnlyFailuresAreForgotten,
      EffectSucceeded

LEMMA SwitchKeepsPending ==
  ASSUME PendingInv, NEW next \in Wallets \cup {None}, SwitchWallet(next)
  PROVE  PendingInv'
<1>1. /\ flow.step = "idle" /\ wallet' = next /\ known' = stored
      /\ UNCHANGED <<kind, sequence, txs, effect, confirmed, stored, flow, reloads>>
  BY DEF SwitchWallet, chain
<1>2. PendingTypeOK'
  BY <1>1 DEF PendingInv, PendingTypeOK
<1> QED
  BY <1>1, <1>2
  DEF PendingInv, MemoryIsStored, MakingIsAlone, OnlyFailuresAreForgotten,
      EffectSucceeded

\* What the network makes of a transaction: it cannot come back from a failure.
ChainStep == (\E n \in DOMAIN txs : Include(n) \/ Expire(n)) \/ TakenByOther

LEMMA ChainStepKeepsPending == PendingInv /\ ChainStep => PendingInv'
<1> SUFFICES ASSUME PendingInv, ChainStep PROVE PendingInv'
  OBVIOUS
<1>1. UNCHANGED <<kind, wallet, confirmed, stored, known, flow, reloads>>
  BY DEF ChainStep, Include, Expire, TakenByOther
<1>2. CASE TakenByOther
  BY <1>2, PendingAssumption
  DEF TakenByOther, PendingInv, PendingTypeOK, MemoryIsStored, MakingIsAlone,
      OnlyFailuresAreForgotten, EffectSucceeded, Unsigned
<1>3. ASSUME NEW n \in DOMAIN txs, Include(n) \/ Expire(n)
      PROVE  PendingInv'
  <2>1. PICK outcome \in {"success", "failed", "expired"} :
          txs' = [txs EXCEPT ![n].outcome = outcome]
    BY <1>3 DEF Include, Expire
  <2>2. txs \in Seq(Transaction) /\ DOMAIN txs = 1..Len(txs) /\ Len(txs) \in Nat
    BY DEF PendingInv, PendingTypeOK
  <2>3. /\ txs' \in Seq(Transaction) /\ Len(txs') = Len(txs)
        /\ DOMAIN txs' = DOMAIN txs
    <3>1. [txs[n] EXCEPT !.outcome = outcome] \in Transaction
      <4>1. txs[n] \in Transaction
        BY <2>2
      <4>2. outcome \in {"pending", "success", "failed", "expired"}
        OBVIOUS
      <4> QED
        BY <4>1, <4>2 DEF Transaction
    <3> QED
      BY <2>1, <2>2, <3>1
  <2>4. /\ \A m \in DOMAIN txs : m # n => txs'[m] = txs[m]
        /\ txs'[n].heard = txs[n].heard
        /\ txs'[n].outcome = outcome
    BY <2>1, <2>2 DEF Transaction
  <2>5. txs[n].outcome = "pending"
    BY <1>3 DEF Include, Expire
  <2>6. /\ sequence' \in [Wallets -> Nat]
        /\ \/ effect' = effect
           \/ effect = None /\ effect' = n /\ outcome = "success"
    <3>1. CASE Expire(n)
      BY <3>1 DEF Expire, PendingInv, PendingTypeOK
    <3>2. CASE Include(n)
      <4>1. sequence' \in [Wallets -> Nat] /\ txs[n] \in Transaction
        <5>1. txs[n] \in Transaction
          BY <2>2
        <5>2. txs[n].wallet \in Wallets /\ txs[n].sequence \in Nat
          BY <5>1 DEF Transaction
        <5> QED
          BY <5>1, <5>2, <3>2 DEF Include, PendingInv, PendingTypeOK
      <4>2. CASE effect = None /\ effect' = n
                 /\ txs' = [txs EXCEPT ![n].outcome = "success"]
        <5>1. txs'[n].outcome = "success"
          BY <4>2, <2>2, <4>1 DEF Transaction
        <5> QED
          BY <4>1, <4>2, <5>1, <2>4 DEF Transaction
      <4>3. CASE UNCHANGED effect
        BY <4>1, <4>3 DEF Transaction
      <4> QED
        BY <3>2, <4>2, <4>3 DEF Include
    <3> QED
      BY <1>3, <3>1, <3>2
  <2>7. PendingTypeOK'
    BY <1>1, <2>3, <2>6 DEF PendingInv, PendingTypeOK
  <2>8. MemoryIsStored' /\ MakingIsAlone'
    BY <1>1, <2>3 DEF PendingInv, MemoryIsStored, MakingIsAlone, Unsigned
  <2>9. OnlyFailuresAreForgotten'
    BY <1>1, <2>3, <2>4, <2>5 DEF PendingInv, OnlyFailuresAreForgotten
  <2>10. EffectSucceeded'
    <3>1. effect # n
      BY <2>5 DEF PendingInv, EffectSucceeded
    <3> QED
      BY <2>3, <2>4, <2>6, <3>1, <2>2, PendingAssumption DEF PendingInv, EffectSucceeded
  <2> QED
    BY <2>7, <2>8, <2>9, <2>10 DEF PendingInv
<1> QED
  BY <1>2, <1>3 DEF ChainStep

-----------------------------------------------------------------------------
LEMMA PendingStep == PendingInv /\ [PendingNext]_vars => PendingInv'
<1> SUFFICES ASSUME PendingInv, [PendingNext]_vars PROVE PendingInv'
  OBVIOUS
<1>1. CASE UNCHANGED vars
  BY <1>1 DEF vars, PendingInv, PendingTypeOK, MemoryIsStored, MakingIsAlone,
              OnlyFailuresAreForgotten, EffectSucceeded, Unsigned
<1>2. CASE LocalStep
  BY <1>2, LocalStepKeepsPending
<1>3. CASE Send \/ SendUnanswered
  BY <1>3, SendKeepsPending, SendUnansweredKeepsPending
<1>4. CASE PollStep
  BY <1>4, PollStepKeepsPending
<1>5. CASE SignatureStep
  BY <1>5, SignatureStepKeepsPending
<1>6. CASE Confirm \/ ConfirmUnanswered
  BY <1>6, ConfirmKeepsPending
<1>7. CASE Reload
  BY <1>7, ReloadKeepsPending
<1>8. CASE ChainStep
  BY <1>8, ChainStepKeepsPending
<1>9. ASSUME NEW next \in Wallets \cup {None}, SwitchWallet(next) PROVE PendingInv'
  BY <1>9, SwitchKeepsPending
<1> QED
  BY <1>1, <1>2, <1>3, <1>4, <1>5, <1>6, <1>7, <1>8, <1>9
  DEF PendingNext, LocalStep, PollStep, SignatureStep, ChainStep

\* The inductive invariant holds of every behaviour.
THEOREM PendingIsInvariant == PendingSpec => []PendingInv
BY InitialPending, PendingStep, PTL DEF PendingSpec

\* Every reachable state of the panel, the storage and the network is typed.
THEOREM PendingTypeCorrect == PendingSpec => []PendingTypeOK
<1>1. PendingInv => PendingTypeOK
  BY DEF PendingInv
<1> QED
  BY <1>1, PendingIsInvariant, PTL

\* The hash of a transaction that has effect, once the panel heard of it, stays
\* in sessionStorage until MergePay has recorded it.
THEOREM HashIsNotLost == PendingSpec => []HeardIsRemembered
<1>1. PendingInv => HeardIsRemembered
  BY DEF PendingInv, OnlyFailuresAreForgotten, EffectSucceeded, HeardIsRemembered
<1> QED
  BY <1>1, PendingIsInvariant, PTL

\* The panel never asks for a second signature while a transaction it heard of
\* may have, or may still take, effect.
THEOREM NoSecondSignature == PendingSpec => []SignsOnlyAfterFailure
<1>1. PendingInv => SignsOnlyAfterFailure
  BY NoneIsNotPending
  DEF PendingInv, MemoryIsStored, MakingIsAlone, OnlyFailuresAreForgotten,
      SignsOnlyAfterFailure
<1> QED
  BY <1>1, PendingIsInvariant, PTL

=============================================================================
