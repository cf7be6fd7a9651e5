------------------------- MODULE WalletSessionProofs -------------------------
(***************************************************************************)
(* Theorems about WalletSession, for any wallets and any number of buttons  *)
(* pressed and sessions created.                                            *)
(***************************************************************************)
EXTENDS WalletSession, TLAPS

-----------------------------------------------------------------------------
\* "Change wallet" took a request number that no operation waits with: an
\* operation that began before it is no longer the latest.
ChangeIsNoRead == changedAt \notin reads

\* What is on its way to the API is about sessions that exist.
RequestsAreOfSessions ==
    /\ \A state \in CheckStates, token \in Tokens :
        checks[<<state, token>>] > 0 => token \in DOMAIN sessions
    /\ \A token \in Tokens : logouts[token] > 0 => token \in DOMAIN sessions
    /\ signIn.step = "created" => signIn.token # None

WalletSessionInv ==
    /\ WalletSessionTypeOK
    /\ ChangeIsNoRead
    /\ RequestsAreOfSessions
    /\ ChangeWalletHolds
    /\ OneSessionEverywhere

\* A token of an existing session is a token, and never None.
LEMMA TokensOfSessions ==
  ASSUME SessionsTypeOK
  PROVE  /\ DOMAIN sessions = 1..Len(sessions) /\ Len(sessions) \in Nat
         /\ DOMAIN sessions \subseteq Tokens
         /\ None \notin Tokens
BY WalletSessionAssumption DEF SessionsTypeOK, Tokens

LEMMA InitialSession == WalletSessionInit => WalletSessionInv
<1> SUFFICES ASSUME WalletSessionInit PROVE WalletSessionInv
  OBVIOUS
<1>1. SessionsTypeOK
  <2>1. CASE sessions = <<>>
    BY <2>1, WalletSessionAssumption DEF WalletSessionInit, SessionsTypeOK
  <2>2. CASE sessions = <<StoredWallet>>
    <3>1. sessions \in Seq(Wallets) /\ Len(sessions) = 1
      BY <2>2, WalletSessionAssumption
    <3> QED
      BY <3>1, WalletSessionAssumption DEF WalletSessionInit, SessionsTypeOK
  <2> QED
    BY <2>1, <2>2 DEF WalletSessionInit
<1>2. WalletTypeOK /\ ChangeIsNoRead /\ ChangeWalletHolds
  BY DEF WalletSessionInit, WalletTypeOK, WalletStatuses, ChangeIsNoRead, ChangeWalletHolds
<1>3. AuthTypeOK /\ OneSessionEverywhere
  BY DEF WalletSessionInit, AuthTypeOK, OneSessionEverywhere, Anonymous, Live
<1>4. FlowTypeOK
  BY DEF WalletSessionInit, FlowTypeOK, NotSigning
<1>5. RequestsAreOfSessions
  BY DEF WalletSessionInit, RequestsAreOfSessions, NotSigning
<1>6. mounted \in BOOLEAN /\ minimumLoaderTimeFinished \in BOOLEAN
  BY DEF WalletSessionInit
<1>7. presses \in 0..MaxPresses
  BY WalletSessionAssumption DEF WalletSessionInit
<1> QED
  BY <1>1, <1>2, <1>3, <1>4, <1>5, <1>6, <1>7 DEF WalletSessionInv, WalletSessionTypeOK

-----------------------------------------------------------------------------
(* WalletProvider leaves the session alone, and the reverse. *)

WalletStep ==
    \/ RefreshWallet \/ Connect \/ Disconnect
    \/ \E request \in reads : AnswerAnyWallet(request)

LEMMA WalletStepKeepsInv == WalletSessionInv /\ WalletStep => WalletSessionInv'
<1> SUFFICES ASSUME WalletSessionInv, WalletStep PROVE WalletSessionInv'
  OBVIOUS
<1> USE DEF WalletSessionInv, WalletSessionTypeOK
<1>1. UNCHANGED <<apiVars, loaderVars, authVars, flowVars>>
  BY DEF WalletStep, RefreshWallet, Connect, Disconnect, AnswerAnyWallet, AnswerWallet
<1>2. presses' \in 0..MaxPresses
  BY WalletSessionAssumption
  DEF WalletStep, RefreshWallet, Connect, Disconnect, Press, AnswerAnyWallet, AnswerWallet
<1>3. WalletTypeOK' /\ ChangeIsNoRead' /\ ChangeWalletHolds'
  <2> USE DEF WalletTypeOK, ChangeIsNoRead, ChangeWalletHolds, WalletStatuses
  <2>1. CASE RefreshWallet
    BY <2>1 DEF RefreshWallet, StartRead
  <2>2. CASE Connect
    BY <2>2 DEF Connect, StartRead
  <2>3. CASE Disconnect
    <3>1. initializing' \in BOOLEAN
      BY <2>3 DEF Disconnect
    <3>2. wallet' = [status |-> "disconnected", address |-> None]
          /\ latestRequest' = latestRequest + 1 /\ reads' = reads
          /\ shownRequest' = shownRequest /\ changedAt' = latestRequest + 1
      BY <2>3 DEF Disconnect
    <3> QED
      BY <3>1, <3>2
  <2>4. ASSUME NEW request \in reads, NEW snapshot \in Snapshots,
               AnswerWallet(request, snapshot)
        PROVE  WalletTypeOK' /\ ChangeIsNoRead' /\ ChangeWalletHolds'
    <3>1. initializing' \in BOOLEAN
      BY <2>4 DEF AnswerWallet
    <3>2. snapshot \in [status: WalletStatuses, address: Wallets \cup {None}]
      BY DEF Snapshots
    <3>3. latestRequest' = latestRequest /\ reads' = reads \ {request}
          /\ changedAt' = changedAt
      BY <2>4 DEF AnswerWallet
    <3>4. CASE request = latestRequest
      BY <2>4, <3>1, <3>2, <3>3, <3>4 DEF AnswerWallet
    <3>5. CASE request # latestRequest
      BY <2>4, <3>1, <3>3, <3>5 DEF AnswerWallet
    <3> QED
      BY <3>4, <3>5
  <2> QED
    BY <2>1, <2>2, <2>3, <2>4 DEF WalletStep, AnswerAnyWallet
<1>4. SessionsTypeOK' /\ AuthTypeOK' /\ FlowTypeOK'
      /\ mounted' \in BOOLEAN /\ minimumLoaderTimeFinished' \in BOOLEAN
  BY <1>1 DEF SessionsTypeOK, AuthTypeOK, FlowTypeOK, apiVars, loaderVars, authVars, flowVars
<1>5. RequestsAreOfSessions' /\ OneSessionEverywhere'
  BY <1>1 DEF RequestsAreOfSessions, OneSessionEverywhere, apiVars, authVars, flowVars
<1> QED
  BY <1>2, <1>3, <1>4, <1>5

\* What a step of AuthProvider has to show.
LEMMA AuthStepSuffices ==
  ASSUME WalletSessionInv, UNCHANGED <<walletVars, loaderVars>>,
         presses' \in 0..MaxPresses,
         SessionsTypeOK', AuthTypeOK', FlowTypeOK', RequestsAreOfSessions',
         OneSessionEverywhere'
  PROVE  WalletSessionInv'
<1>1. WalletTypeOK' /\ ChangeIsNoRead' /\ ChangeWalletHolds'
  BY DEF WalletSessionInv, WalletSessionTypeOK, WalletTypeOK, ChangeIsNoRead,
         ChangeWalletHolds, walletVars
<1>2. mounted' \in BOOLEAN /\ minimumLoaderTimeFinished' \in BOOLEAN
  BY DEF WalletSessionInv, WalletSessionTypeOK, loaderVars
<1> QED
  BY <1>1, <1>2 DEF WalletSessionInv, WalletSessionTypeOK

\* A press is counted up to the bound.
LEMMA PressCounts ==
  ASSUME WalletSessionTypeOK, Press
  PROVE  presses' \in 0..MaxPresses
BY WalletSessionAssumption DEF WalletSessionTypeOK, Press

\* The wallet of a session on show is a wallet.
LEMMA DependenciesAreWallets ==
  ASSUME WalletTypeOK, SessionsTypeOK, AuthTypeOK
  PROVE  Dependencies \in [address: Wallets \cup {None}, session: Wallets \cup {None}]
BY DEF WalletTypeOK, SessionsTypeOK, AuthTypeOK, Dependencies, WalletOf

\* One request more, or one less.
LEMMA CheckCount ==
  ASSUME FlowTypeOK, NEW state \in CheckStates, NEW token \in Tokens
  PROVE  /\ [checks EXCEPT ![<<state, token>>] = @ + 1] \in [CheckStates \X Tokens -> Nat]
         /\ checks[<<state, token>>] > 0 =>
                [checks EXCEPT ![<<state, token>>] = @ - 1]
                    \in [CheckStates \X Tokens -> Nat]
BY DEF FlowTypeOK

-----------------------------------------------------------------------------
(* The sign-in. *)

LEMMA SignInKeepsInv == WalletSessionInv /\ SignIn => WalletSessionInv'
<1> SUFFICES ASSUME WalletSessionInv, SignIn PROVE WalletSessionInv'
  OBVIOUS
<1> USE DEF WalletSessionInv, WalletSessionTypeOK
<1>1. UNCHANGED <<walletVars, apiVars, loaderVars, accessToken, stored, checks, logouts,
                  closing, seen, broughtBack>>
  BY DEF SignIn
<1>2. presses' \in 0..MaxPresses
  BY PressCounts DEF SignIn
<1>3. AuthTypeOK' /\ OneSessionEverywhere'
  BY <1>1 DEF SignIn, AuthTypeOK, OneSessionEverywhere, apiVars
<1>4. FlowTypeOK'
  <2>1. wallet.address \in Wallets
    BY DEF SignIn, WalletTypeOK
  <2> QED
    BY <1>1, <2>1, WalletSessionAssumption DEF SignIn, FlowTypeOK, apiVars
<1>5. SessionsTypeOK' /\ RequestsAreOfSessions'
  BY <1>1 DEF SignIn, SessionsTypeOK, RequestsAreOfSessions, apiVars
<1> QED
  BY <1>1, <1>2, <1>3, <1>4, <1>5, AuthStepSuffices

LEMMA CreateSessionKeepsInv == WalletSessionInv /\ CreateSession => WalletSessionInv'
<1> SUFFICES ASSUME WalletSessionInv, CreateSession PROVE WalletSessionInv'
  OBVIOUS
<1> USE DEF WalletSessionInv, WalletSessionTypeOK
<1>1. UNCHANGED <<walletVars, revoked, expired, loaderVars, authVars, checks, logouts,
                  closing, seen, broughtBack, presses>>
  BY DEF CreateSession
<1>2. signIn.address \in Wallets
  BY DEF CreateSession, FlowTypeOK
<1>3. SessionsTypeOK' /\ DOMAIN sessions \subseteq DOMAIN sessions'
      /\ Len(sessions) + 1 \in DOMAIN sessions'
  <2>1. /\ sessions \in Seq(Wallets) /\ Len(sessions) < MaxSessions
        /\ sessions' = Append(sessions, signIn.address)
    BY DEF CreateSession, SessionsTypeOK
  <2>2. /\ sessions' \in Seq(Wallets) /\ Len(sessions') = Len(sessions) + 1
        /\ DOMAIN sessions = 1..Len(sessions) /\ DOMAIN sessions' = 1..Len(sessions')
    BY <1>2, <2>1
  <2>3. Len(sessions) \in Nat
    BY <2>1
  <2> QED
    BY <1>1, <2>1, <2>2, <2>3, WalletSessionAssumption DEF SessionsTypeOK
<1>4. AuthTypeOK' /\ OneSessionEverywhere'
  BY <1>1, <1>3 DEF AuthTypeOK, OneSessionEverywhere, authVars
<1>5. FlowTypeOK' /\ RequestsAreOfSessions'
  <2>1. Len(sessions) + 1 # None
    BY TokensOfSessions, WalletSessionAssumption
  <2> QED
    BY <1>1, <1>3, <2>1 DEF CreateSession, FlowTypeOK, RequestsAreOfSessions
<1> QED
  BY <1>1, <1>3, <1>4, <1>5, AuthStepSuffices

LEMMA EndOfSignInKeepsInv ==
  WalletSessionInv /\ (FinishSignIn \/ FailSignIn) => WalletSessionInv'
<1> SUFFICES ASSUME WalletSessionInv, FinishSignIn \/ FailSignIn PROVE WalletSessionInv'
  OBVIOUS
<1> USE DEF WalletSessionInv, WalletSessionTypeOK
<1>1. UNCHANGED <<walletVars, apiVars, loaderVars, checks, logouts, closing, seen,
                  broughtBack, presses>> /\ signIn' = NotSigning
  BY DEF FinishSignIn, FailSignIn
<1>2. AuthTypeOK' /\ OneSessionEverywhere'
  <2>1. CASE FinishSignIn
    <3>1. signIn.token \in DOMAIN sessions /\ signIn.token # None
      BY <2>1 DEF FinishSignIn, FlowTypeOK, RequestsAreOfSessions
    <3> QED
      BY <1>1, <2>1, <3>1 DEF FinishSignIn, Adopt, AuthTypeOK, OneSessionEverywhere, apiVars
  <2>2. CASE FailSignIn
    BY <1>1, <2>2 DEF FailSignIn, AuthTypeOK, OneSessionEverywhere, apiVars
  <2> QED
    BY <2>1, <2>2
<1>3. SessionsTypeOK' /\ FlowTypeOK' /\ RequestsAreOfSessions'
  BY <1>1 DEF SessionsTypeOK, FlowTypeOK, RequestsAreOfSessions, NotSigning, apiVars
<1> QED
  BY <1>1, <1>2, <1>3, AuthStepSuffices

-----------------------------------------------------------------------------
(* The checks and the logouts. *)

LEMMA MountKeepsInv == WalletSessionInv /\ Mount => WalletSessionInv'
<1> SUFFICES ASSUME WalletSessionInv, Mount PROVE WalletSessionInv'
  OBVIOUS
<1> USE DEF WalletSessionInv, WalletSessionTypeOK
<1>1. UNCHANGED <<wallet, initializing, shownRequest, changedAt, apiVars, auth, stored,
                  signIn, logouts, closing, seen, broughtBack, presses>>
      /\ mounted' \in BOOLEAN /\ minimumLoaderTimeFinished' \in BOOLEAN
  BY DEF Mount
<1>2. WalletTypeOK' /\ ChangeIsNoRead' /\ ChangeWalletHolds'
  BY <1>1 DEF Mount, StartRead, WalletTypeOK, ChangeIsNoRead, ChangeWalletHolds
<1>3. CASE ~Live(stored)
  BY <1>1, <1>2, <1>3 DEF Mount, SessionsTypeOK, AuthTypeOK, FlowTypeOK,
                          RequestsAreOfSessions, OneSessionEverywhere, apiVars
<1>4. CASE Live(stored)
  <2>1. stored \in DOMAIN sessions /\ stored \in Tokens /\ stored # None
    BY <1>4, TokensOfSessions DEF Live, AuthTypeOK
  <2>2. accessToken' = stored
        /\ checks' = [checks EXCEPT ![<<"sent", stored>>] = @ + 1]
    BY <1>4 DEF Mount, StartCheck
  <2>3. AuthTypeOK' /\ OneSessionEverywhere'
    BY <1>1, <2>1, <2>2 DEF AuthTypeOK, OneSessionEverywhere, apiVars
  <2>4. FlowTypeOK'
    BY <1>1, <2>1, <2>2, CheckCount DEF FlowTypeOK, CheckStates, apiVars
  <2>5. RequestsAreOfSessions'
    BY <1>1, <2>1, <2>2 DEF FlowTypeOK, RequestsAreOfSessions, apiVars
  <2>6. SessionsTypeOK'
    BY <1>1 DEF SessionsTypeOK, apiVars
  <2> QED
    BY <1>1, <1>2, <2>3, <2>4, <2>5, <2>6
<1> QED
  BY <1>3, <1>4

LEMMA RetrySessionKeepsInv == WalletSessionInv /\ RetrySession => WalletSessionInv'
<1> SUFFICES ASSUME WalletSessionInv, RetrySession PROVE WalletSessionInv'
  OBVIOUS
<1> USE DEF WalletSessionInv, WalletSessionTypeOK
<1>1. UNCHANGED <<walletVars, apiVars, loaderVars, signIn, logouts, closing, seen,
                  broughtBack>>
  BY DEF RetrySession
<1>2. presses' \in 0..MaxPresses /\ SessionsTypeOK'
  BY <1>1, PressCounts DEF RetrySession, SessionsTypeOK, apiVars
<1>3. CASE Live(stored)
  <2>1. stored \in DOMAIN sessions /\ stored \in Tokens /\ stored # None
    BY <1>3, TokensOfSessions DEF Live, AuthTypeOK
  <2>2. accessToken' = stored /\ UNCHANGED <<auth, stored>>
        /\ checks' = [checks EXCEPT ![<<"sent", stored>>] = @ + 1]
    BY <1>3 DEF RetrySession, StartCheck
  <2>3. AuthTypeOK' /\ OneSessionEverywhere'
    BY <1>1, <2>1, <2>2 DEF AuthTypeOK, OneSessionEverywhere, apiVars
  <2>4. FlowTypeOK'
    BY <1>1, <2>1, <2>2, CheckCount DEF FlowTypeOK, CheckStates, apiVars
  <2>5. RequestsAreOfSessions'
    BY <1>1, <2>1, <2>2 DEF FlowTypeOK, RequestsAreOfSessions, apiVars
  <2> QED
    BY <1>1, <1>2, <2>3, <2>4, <2>5, AuthStepSuffices
<1>4. CASE ~Live(stored)
  <2>1. AuthTypeOK' /\ OneSessionEverywhere'
    BY <1>1, <1>4 DEF RetrySession, Forget, Anonymous, AuthTypeOK, OneSessionEverywhere,
                      apiVars
  <2>2. FlowTypeOK' /\ RequestsAreOfSessions'
    BY <1>1, <1>4 DEF RetrySession, FlowTypeOK, RequestsAreOfSessions, apiVars
  <2> QED
    BY <1>1, <1>2, <2>1, <2>2, AuthStepSuffices
<1> QED
  BY <1>3, <1>4

LEMMA ServeCheckKeepsInv ==
  ASSUME WalletSessionInv, NEW token \in Tokens, NEW answer \in CheckStates,
         ServeCheck(token, answer)
  PROVE  WalletSessionInv'
<1> USE DEF WalletSessionInv, WalletSessionTypeOK
<1>1. UNCHANGED <<walletVars, apiVars, loaderVars, authVars, signIn, logouts, closing, seen,
                  broughtBack, presses>>
  BY DEF ServeCheck
<1>2. checks' \in [CheckStates \X Tokens -> Nat]
      /\ \A state \in CheckStates, t \in Tokens :
            checks'[<<state, t>>] > 0 =>
                checks[<<state, t>>] > 0 \/ checks[<<"sent", t>>] > 0
  <2>1. answer # "sent" /\ "sent" \in CheckStates
    BY DEF ServeCheck, Answered, CheckStates
  <2>2. checks[<<"sent", token>>] > 0
        /\ checks' = [checks EXCEPT ![<<"sent", token>>] = @ - 1,
                                    ![<<answer, token>>] = @ + 1]
    BY DEF ServeCheck
  <2> QED
    BY <2>1, <2>2 DEF FlowTypeOK
<1>3. FlowTypeOK' /\ RequestsAreOfSessions'
  BY <1>1, <1>2 DEF FlowTypeOK, RequestsAreOfSessions, CheckStates, apiVars
<1>4. SessionsTypeOK' /\ AuthTypeOK' /\ OneSessionEverywhere'
  BY <1>1 DEF SessionsTypeOK, AuthTypeOK, OneSessionEverywhere, apiVars, authVars
<1> QED
  BY <1>1, <1>3, <1>4, AuthStepSuffices

LEMMA ApplyOutcomeKeepsInv ==
  ASSUME WalletSessionInv, NEW token \in Tokens, NEW outcome \in CheckStates,
         ApplyOutcome(token, outcome)
  PROVE  WalletSessionInv'
<1> USE DEF WalletSessionInv, WalletSessionTypeOK
<1>1. UNCHANGED <<walletVars, apiVars, loaderVars, signIn, logouts, closing, seen, presses>>
  BY DEF ApplyOutcome
<1>2. token \in DOMAIN sessions /\ token # None
  BY TokensOfSessions DEF ApplyOutcome, RequestsAreOfSessions
<1>3. AuthTypeOK' /\ OneSessionEverywhere'
  <2> USE DEF AuthTypeOK, OneSessionEverywhere, apiVars
  <2>1. CASE outcome = "authenticated"
    BY <1>1, <1>2, <2>1 DEF ApplyOutcome, Adopt
  <2>2. CASE outcome = "rejected"
    BY <1>1, <2>2 DEF ApplyOutcome, Forget, Anonymous
  <2>3. CASE outcome = "unreachable"
    BY <1>1, <1>2, <2>3 DEF ApplyOutcome
  <2> QED
    BY <2>1, <2>2, <2>3 DEF ApplyOutcome, CheckStates
<1>4. FlowTypeOK' /\ RequestsAreOfSessions'
  <2>1. checks[<<outcome, token>>] > 0
        /\ checks' = [checks EXCEPT ![<<outcome, token>>] = @ - 1]
    BY DEF ApplyOutcome
  <2>2. checks' \in [CheckStates \X Tokens -> Nat]
    BY <2>1, CheckCount
  <2>3. broughtBack' \in BOOLEAN
    BY DEF ApplyOutcome
  <2>4. \A state \in CheckStates, t \in Tokens :
            checks'[<<state, t>>] > 0 => checks[<<state, t>>] > 0
    BY <2>1 DEF FlowTypeOK
  <2> QED
    BY <1>1, <2>2, <2>3, <2>4 DEF FlowTypeOK, RequestsAreOfSessions, apiVars
<1>5. SessionsTypeOK'
  BY <1>1 DEF SessionsTypeOK, apiVars
<1> QED
  BY <1>1, <1>3, <1>4, <1>5, AuthStepSuffices

\* A logout is sent with a token that is one of a session, or with none.
LEMMA StartLogoutKeepsRequests ==
  ASSUME SessionsTypeOK, AuthTypeOK, FlowTypeOK, RequestsAreOfSessions, StartLogout
  PROVE  /\ logouts' \in [Tokens \cup {None} -> Nat]
         /\ \A token \in Tokens : logouts'[token] > 0 => token \in DOMAIN sessions
<1>1. accessToken \in Tokens \cup {None}
      /\ (accessToken \in Tokens => accessToken \in DOMAIN sessions)
  BY TokensOfSessions DEF AuthTypeOK
<1> QED
  BY <1>1 DEF StartLogout, FlowTypeOK, RequestsAreOfSessions

LEMMA SignOutKeepsInv == WalletSessionInv /\ SignOut => WalletSessionInv'
<1> SUFFICES ASSUME WalletSessionInv, SignOut PROVE WalletSessionInv'
  OBVIOUS
<1> USE DEF WalletSessionInv, WalletSessionTypeOK
<1>1. UNCHANGED <<walletVars, apiVars, loaderVars, authVars, signIn, checks, closing, seen,
                  broughtBack>>
  BY DEF SignOut
<1>2. presses' \in 0..MaxPresses
  BY PressCounts DEF SignOut
<1>3. FlowTypeOK' /\ RequestsAreOfSessions'
  BY <1>1, StartLogoutKeepsRequests DEF SignOut, FlowTypeOK, RequestsAreOfSessions, apiVars
<1>4. SessionsTypeOK' /\ AuthTypeOK' /\ OneSessionEverywhere'
  BY <1>1 DEF SessionsTypeOK, AuthTypeOK, OneSessionEverywhere, apiVars, authVars
<1> QED
  BY <1>1, <1>2, <1>3, <1>4, AuthStepSuffices

LEMMA WalletEffectKeepsInv == WalletSessionInv /\ WalletEffect => WalletSessionInv'
<1> SUFFICES ASSUME WalletSessionInv, WalletEffect PROVE WalletSessionInv'
  OBVIOUS
<1> USE DEF WalletSessionInv, WalletSessionTypeOK
<1>1. UNCHANGED <<walletVars, apiVars, loaderVars, authVars, signIn, checks, closing,
                  broughtBack, presses>> /\ seen' = Dependencies
  BY DEF WalletEffect
<1>2. /\ logouts' \in [Tokens \cup {None} -> Nat]
      /\ \A token \in Tokens : logouts'[token] > 0 => token \in DOMAIN sessions
  <2>1. CASE StartLogout
    BY <2>1, StartLogoutKeepsRequests
  <2>2. CASE UNCHANGED logouts
    BY <2>2 DEF FlowTypeOK, RequestsAreOfSessions
  <2> QED
    BY <2>1, <2>2 DEF WalletEffect
<1>3. FlowTypeOK' /\ RequestsAreOfSessions'
  BY <1>1, <1>2, DependenciesAreWallets DEF FlowTypeOK, RequestsAreOfSessions, apiVars
<1>4. SessionsTypeOK' /\ AuthTypeOK' /\ OneSessionEverywhere'
  BY <1>1 DEF SessionsTypeOK, AuthTypeOK, OneSessionEverywhere, apiVars, authVars
<1> QED
  BY <1>1, <1>3, <1>4, AuthStepSuffices

LEMMA LogoutAnswerKeepsInv ==
  ASSUME WalletSessionInv,
         (\E token \in Tokens \cup {None} : ServeLogout(token)) \/ FinishLogout
  PROVE  WalletSessionInv'
<1> USE DEF WalletSessionInv, WalletSessionTypeOK
<1>1. CASE FinishLogout
  <2>1. UNCHANGED <<walletVars, apiVars, loaderVars, signIn, checks, logouts, seen,
                    broughtBack, presses>> /\ closing' \in Nat
    BY <1>1 DEF FinishLogout, FlowTypeOK
  <2>2. AuthTypeOK' /\ OneSessionEverywhere'
    BY <1>1, <2>1 DEF FinishLogout, Forget, Anonymous, AuthTypeOK, OneSessionEverywhere
  <2>3. SessionsTypeOK' /\ FlowTypeOK' /\ RequestsAreOfSessions'
    BY <2>1 DEF SessionsTypeOK, FlowTypeOK, RequestsAreOfSessions, apiVars
  <2> QED
    BY <2>1, <2>2, <2>3, AuthStepSuffices
<1>2. ASSUME NEW token \in Tokens \cup {None}, ServeLogout(token)
      PROVE  WalletSessionInv'
  <2>1. UNCHANGED <<walletVars, sessions, expired, loaderVars, authVars, signIn, checks, seen,
                    broughtBack, presses>>
    BY <1>2 DEF ServeLogout
  <2>2. /\ logouts[token] > 0 /\ closing' = closing + 1
        /\ logouts' = [logouts EXCEPT ![token] = @ - 1]
        /\ revoked' \in {revoked, revoked \cup ({token} \ {None})}
    BY <1>2 DEF ServeLogout
  <2>3. token # None => token \in DOMAIN sessions
    BY <2>2 DEF RequestsAreOfSessions
  <2>4. FlowTypeOK' /\ RequestsAreOfSessions'
    BY <2>1, <2>2 DEF FlowTypeOK, RequestsAreOfSessions
  <2>5. SessionsTypeOK'
    BY <2>1, <2>2, <2>3 DEF SessionsTypeOK
  <2>6. AuthTypeOK' /\ OneSessionEverywhere'
    BY <2>1 DEF AuthTypeOK, OneSessionEverywhere, authVars
  <2> QED
    BY <2>1, <2>4, <2>5, <2>6, AuthStepSuffices
<1> QED
  BY <1>1, <1>2

LEMMA ExpireKeepsInv ==
  ASSUME WalletSessionInv, NEW token \in Tokens, Expire(token)
  PROVE  WalletSessionInv'
<1> USE DEF WalletSessionInv, WalletSessionTypeOK
<1>1. UNCHANGED <<walletVars, sessions, revoked, loaderVars, authVars, flowVars, presses>>
      /\ expired' \in SUBSET DOMAIN sessions
  BY DEF Expire, SessionsTypeOK
<1>2. SessionsTypeOK' /\ AuthTypeOK' /\ FlowTypeOK'
  BY <1>1 DEF SessionsTypeOK, AuthTypeOK, FlowTypeOK, authVars, flowVars
<1>3. RequestsAreOfSessions' /\ OneSessionEverywhere'
  BY <1>1 DEF RequestsAreOfSessions, OneSessionEverywhere, authVars, flowVars
<1> QED
  BY <1>1, <1>2, <1>3, AuthStepSuffices

\* The timer concerns the loader alone.
LEMMA TimerKeepsInv == WalletSessionInv /\ FinishMinimumLoaderTime => WalletSessionInv'
BY DEF FinishMinimumLoaderTime, WalletSessionInv, WalletSessionTypeOK, WalletTypeOK,
       SessionsTypeOK, AuthTypeOK, FlowTypeOK, ChangeIsNoRead, RequestsAreOfSessions,
       ChangeWalletHolds, OneSessionEverywhere, walletVars, apiVars, authVars, flowVars

LEMMA StutterKeepsInv == WalletSessionInv /\ UNCHANGED vars => WalletSessionInv'
BY DEF WalletSessionInv, WalletSessionTypeOK, WalletTypeOK, SessionsTypeOK, AuthTypeOK,
       FlowTypeOK, ChangeIsNoRead, RequestsAreOfSessions, ChangeWalletHolds,
       OneSessionEverywhere, vars, walletVars, loaderVars, apiVars, authVars, flowVars

-----------------------------------------------------------------------------
\* The invariant the theorems below are read off.
THEOREM WalletSessionIsInvariant == WalletSessionSpec => []WalletSessionInv
<1>1. WalletSessionInv /\ [WalletSessionNext]_vars => WalletSessionInv'
  <2> SUFFICES ASSUME WalletSessionInv, [WalletSessionNext]_vars PROVE WalletSessionInv'
    OBVIOUS
  <2>1. CASE UNCHANGED vars
    BY <2>1, StutterKeepsInv
  <2>2. CASE WalletStep
    BY <2>2, WalletStepKeepsInv
  <2>3. CASE SignIn \/ CreateSession \/ FinishSignIn \/ FailSignIn
    BY <2>3, SignInKeepsInv, CreateSessionKeepsInv, EndOfSignInKeepsInv
  <2>4. CASE Mount \/ FinishMinimumLoaderTime \/ RetrySession
    BY <2>4, MountKeepsInv, TimerKeepsInv, RetrySessionKeepsInv
  <2>5. CASE \E token \in Tokens, outcome \in CheckStates :
                ServeCheck(token, outcome) \/ ApplyOutcome(token, outcome)
    BY <2>5, ServeCheckKeepsInv, ApplyOutcomeKeepsInv
  <2>6. CASE SignOut \/ WalletEffect
    BY <2>6, SignOutKeepsInv, WalletEffectKeepsInv
  <2>7. CASE (\E token \in Tokens \cup {None} : ServeLogout(token)) \/ FinishLogout
    BY <2>7, LogoutAnswerKeepsInv
  <2>8. CASE \E token \in Tokens : Expire(token)
    BY <2>8, ExpireKeepsInv
  <2> QED
    BY <2>1, <2>2, <2>3, <2>4, <2>5, <2>6, <2>7, <2>8 DEF WalletSessionNext, WalletStep
<1> QED
  BY <1>1, InitialSession, PTL DEF WalletSessionSpec

\* Wallet, session and requests have their types: no request is about a session
\* that does not exist.
THEOREM WalletSessionTypeCorrect == WalletSessionSpec => []WalletSessionTypeOK
<1>1. WalletSessionInv => WalletSessionTypeOK
  BY DEF WalletSessionInv
<1> QED
  BY <1>1, WalletSessionIsInvariant, PTL

\* "una operacion anterior no puede volver a colocar la address": no read that
\* began before "Change wallet" shows an address after it.
THEOREM NoOlderAddress == WalletSessionSpec => []ChangeWalletHolds
<1>1. WalletSessionInv => ChangeWalletHolds
  BY DEF WalletSessionInv
<1> QED
  BY <1>1, WalletSessionIsInvariant, PTL

\* Whichever answers cross, the HTTP client sends the token of the session on
\* the screen, and a reload finds the same one.
THEOREM SessionsAgree == WalletSessionSpec => []OneSessionEverywhere
<1>1. WalletSessionInv => OneSessionEverywhere
  BY DEF WalletSessionInv
<1> QED
  BY <1>1, WalletSessionIsInvariant, PTL

=============================================================================
