---------------------------- MODULE WalletSession ----------------------------
(***************************************************************************)
(* The wallet and the session that the web application shows:              *)
(* WalletProvider, AuthProvider, authStorage and the buttons that call     *)
(* them, while Freighter and the API answer late or in another order.      *)
(*                                                                         *)
(* A behaviour starts with one load of the page and whatever session the   *)
(* tab has stored.  A session is its token, the index of the session in    *)
(* the API's table.                                                        *)
(***************************************************************************)
EXTENDS Integers, Sequences

CONSTANTS
    Wallets,
    StoredWallet,   \* the wallet whose session the tab may have stored
    MaxPresses,     \* bound on the buttons the user presses
    MaxSessions,    \* bound on the sessions the API creates
    None

ASSUME WalletSessionAssumption ==
    /\ MaxPresses \in Nat /\ MaxSessions \in Nat \ {0}
    /\ StoredWallet \in Wallets
    /\ None \notin Wallets /\ None \notin Nat

VARIABLES
    wallet,         \* WalletSnapshot
    initializing,   \* no answer of the wallet was shown yet
    latestRequest,
    reads,          \* the wallet operations whose answer is awaited
    shownRequest,   \* history: the operation whose answer is shown
    changedAt,      \* history: the request number of the last "Change wallet"
    sessions,       \* the API's sessions, each the wallet it belongs to
    revoked, expired,
    mounted,        \* the effects of the first render have run
    minimumLoaderTimeFinished,
    auth,           \* AuthState
    accessToken,    \* of the HTTP client
    stored,         \* the session in sessionStorage
    signIn,         \* the running signIn, with `signing` and its locals
    checks,         \* requests of /auth/me, per state and token
    logouts,        \* requests of /auth/logout, per token
    closing,        \* answered logouts that have yet to forget the session
    seen,           \* the dependencies the wallet effect last ran with
    broughtBack,    \* history: a check's answer showed a session that was closed
    presses

loaderVars == <<mounted, minimumLoaderTimeFinished>>
walletVars == <<wallet, initializing, latestRequest, reads, shownRequest, changedAt>>
apiVars == <<sessions, revoked, expired>>
authVars == <<auth, accessToken, stored>>
flowVars == <<signIn, checks, logouts, closing, seen, broughtBack>>
vars == <<walletVars, apiVars, loaderVars, authVars, flowVars, presses>>

-----------------------------------------------------------------------------
Tokens == 1..MaxSessions
\* An "error" differs from "disconnected" in its message only.
WalletStatuses == {"unavailable", "disconnected", "connecting", "connected",
                   "wrong-network"}
CheckStates == {"sent", "authenticated", "rejected", "unreachable"}

\* What readWalletSnapshot and connectWallet may return.
Snapshots ==
    [status: {"unavailable", "disconnected"}, address: {None}]
        \cup [status: {"connected", "wrong-network"}, address: Wallets]

Anonymous == [status |-> "anonymous", session |-> None]
NotSigning == [step |-> "idle", address |-> None, token |-> None]

WalletOf(token) == IF token = None THEN None ELSE sessions[token]

\* What the wallet effect of AuthProvider depends on.
Dependencies == [address |-> wallet.address, session |-> WalletOf(auth.session)]

\* isExpired, for the browser and for the API.
Live(token) == token # None /\ token \notin expired

\* The application's buttons are behind a loader: AppLayout's showLoader.
ShowLoader == ~minimumLoaderTimeFinished \/ auth.status = "checking" \/ initializing

\* What the buttons of the header, of the panels of a task and of the card of the
\* marketplace do, by the state of the wallet.
HeaderButtons ==
    CASE wallet.status \in {"wrong-network", "unavailable"} -> {"refresh"}
      [] wallet.status = "disconnected" -> {"connect"}
      [] OTHER -> {}

\* "Refresh wallet" is offered beside a wallet that is not the task's.
PanelButtons ==
    HeaderButtons \cup {b \in {"refresh"} : wallet.status = "connected"}

CardButtons ==
    CASE wallet.status = "connected" -> {"disconnect"}
      [] wallet.status = "wrong-network" -> {"refresh"}
      [] wallet.status \in {"unavailable", "disconnected"} -> {"connect"}
      [] OTHER -> {}

WalletButtons == HeaderButtons \cup PanelButtons \cup CardButtons

\* AuthButton: a session that could not be restored is tried again, not signed
\* again; without a connected wallet there is nothing to sign with.
AuthAction ==
    CASE auth.status = "authenticated" -> "sign out"
      [] auth.status = "error" /\ wallet.status # "connected" -> "retry"
      [] auth.status \in {"anonymous", "error"} /\ wallet.status = "connected" -> "sign in"
      [] OTHER -> "none"

WalletTypeOK ==
    /\ wallet \in [status: WalletStatuses, address: Wallets \cup {None}]
    /\ initializing \in BOOLEAN
    /\ latestRequest \in Nat
    /\ reads \in SUBSET (1..latestRequest)
    /\ shownRequest \in 0..latestRequest /\ changedAt \in 0..latestRequest

SessionsTypeOK ==
    /\ sessions \in Seq(Wallets) /\ Len(sessions) <= MaxSessions
    /\ revoked \in SUBSET DOMAIN sessions /\ expired \in SUBSET DOMAIN sessions

AuthTypeOK ==
    /\ auth \in [status: {"checking", "anonymous", "signing", "authenticated", "error"},
                 session: {None} \cup DOMAIN sessions]
    /\ auth.status \in {"checking", "authenticated"} => auth.session # None
    /\ accessToken \in {None} \cup DOMAIN sessions
    /\ stored \in {None} \cup DOMAIN sessions

FlowTypeOK ==
    /\ signIn \in [step: {"idle", "signing", "created"}, address: Wallets \cup {None},
                   token: {None} \cup DOMAIN sessions]
    /\ signIn.step # "idle" => signIn.address # None
    /\ checks \in [CheckStates \X Tokens -> Nat]
    /\ logouts \in [Tokens \cup {None} -> Nat]
    /\ closing \in Nat
    /\ seen \in [address: Wallets \cup {None}, session: Wallets \cup {None}]
    /\ broughtBack \in BOOLEAN

WalletSessionTypeOK ==
    /\ WalletTypeOK /\ SessionsTypeOK /\ AuthTypeOK /\ FlowTypeOK
    /\ mounted \in BOOLEAN /\ minimumLoaderTimeFinished \in BOOLEAN
    /\ presses \in 0..MaxPresses

-----------------------------------------------------------------------------
\* initialState, over the session that is stored when the page is loaded.
WalletSessionInit ==
    /\ wallet = [status |-> "disconnected", address |-> None]
    /\ initializing = TRUE
    /\ latestRequest = 0 /\ reads = {}
    /\ shownRequest = 0 /\ changedAt = 0
    /\ sessions \in {<<>>, <<StoredWallet>>}
    /\ revoked \in SUBSET DOMAIN sessions /\ expired \in SUBSET DOMAIN sessions
    /\ \E session \in {None} \cup DOMAIN sessions :
        IF Live(session)
        THEN /\ auth = [status |-> "checking", session |-> session]
             /\ accessToken = session /\ stored = session
        ELSE auth = Anonymous /\ accessToken = None /\ stored = None
    /\ mounted = FALSE /\ minimumLoaderTimeFinished = FALSE
    /\ signIn = NotSigning
    /\ checks = [c \in CheckStates \X Tokens |-> 0]
    /\ logouts = [t \in Tokens \cup {None} |-> 0]
    /\ closing = 0
    /\ seen = [address |-> None, session |-> None]
    /\ broughtBack = FALSE
    /\ presses = 0

\* A button is pressed on a rendered screen; React runs the effects of a render
\* before it handles the next press.
Press ==
    /\ ~ShowLoader
    /\ seen = Dependencies
    /\ presses < MaxPresses
    /\ presses' = presses + 1

StartRead ==
    /\ latestRequest' = latestRequest + 1
    /\ reads' = reads \cup {latestRequest + 1}

\* inspectStoredSession, up to the request.
StartCheck(token) ==
    /\ accessToken' = token
    /\ checks' = [checks EXCEPT ![<<"sent", token>>] = @ + 1]

StartLogout == logouts' = [logouts EXCEPT ![accessToken] = @ + 1]

Adopt(token) ==
    /\ accessToken' = token
    /\ stored' = token
    /\ auth' = [status |-> "authenticated", session |-> token]

\* Mutant of Forget: the HTTP client keeps the token.
ForgetKeepingToken ==
    /\ stored' = None
    /\ auth' = Anonymous
    /\ UNCHANGED accessToken

Forget ==
    /\ accessToken' = None
    /\ stored' = None
    /\ auth' = Anonymous

\* The effects of the first render: a passive wallet read and, when a session
\* that has not expired is stored, its check.
Mount ==
    /\ ~mounted
    /\ mounted' = TRUE
    /\ StartRead
    /\ IF Live(stored) THEN StartCheck(stored) ELSE UNCHANGED <<accessToken, checks>>
    /\ UNCHANGED <<wallet, initializing, shownRequest, changedAt, apiVars,
                   minimumLoaderTimeFinished, auth, stored, signIn, logouts, closing,
                   seen, broughtBack, presses>>

\* The timer of AppLayout's first effect.
FinishMinimumLoaderTime ==
    /\ mounted /\ ~minimumLoaderTimeFinished
    /\ minimumLoaderTimeFinished' = TRUE
    /\ UNCHANGED <<walletVars, apiVars, mounted, authVars, flowVars, presses>>

-----------------------------------------------------------------------------
(* WalletProvider *)

\* "Check for Freighter", "Check network again", "Refresh wallet".
RefreshWallet ==
    /\ Press
    /\ "refresh" \in WalletButtons
    /\ StartRead
    /\ UNCHANGED <<wallet, initializing, shownRequest, changedAt, apiVars, loaderVars,
                   authVars, flowVars>>

\* "Connect wallet": the address stays while Freighter is asked.
Connect ==
    /\ Press
    /\ "connect" \in WalletButtons
    /\ StartRead
    /\ wallet' = [wallet EXCEPT !.status = "connecting"]
    /\ UNCHANGED <<initializing, shownRequest, changedAt, apiVars, loaderVars, authVars,
                   flowVars>>

\* Mutant of Disconnect: the operations that still run are not invalidated.
DisconnectOnlyShown ==
    /\ Press
    /\ "disconnect" \in WalletButtons
    /\ wallet' = [status |-> "disconnected", address |-> None]
    /\ initializing' = FALSE
    /\ changedAt' = latestRequest
    /\ UNCHANGED <<latestRequest, reads, shownRequest, apiVars, loaderVars, authVars,
                   flowVars>>

\* "Change wallet".
Disconnect ==
    /\ Press
    /\ "disconnect" \in WalletButtons
    /\ latestRequest' = latestRequest + 1
    /\ wallet' = [status |-> "disconnected", address |-> None]
    /\ initializing' = FALSE
    /\ changedAt' = latestRequest'
    /\ UNCHANGED <<reads, shownRequest, apiVars, loaderVars, authVars, flowVars>>

\* Freighter answered everything the operation asked; only the latest is shown.
AnswerWallet(request, snapshot) ==
    /\ request \in reads
    /\ reads' = reads \ {request}
    /\ IF request = latestRequest
       THEN wallet' = snapshot /\ initializing' = FALSE /\ shownRequest' = request
       ELSE UNCHANGED <<wallet, initializing, shownRequest>>
    /\ UNCHANGED <<latestRequest, changedAt, apiVars, loaderVars, authVars, flowVars, presses>>

-----------------------------------------------------------------------------
(* AuthProvider *)

\* "Sign in", in the header or in a panel, when no signature is under way.
SignIn ==
    /\ Press
    /\ AuthAction = "sign in" /\ wallet.address # None
    /\ signIn.step = "idle"
    /\ signIn' = [step |-> "signing", address |-> wallet.address, token |-> None]
    /\ auth' = [status |-> "signing", session |-> None]
    /\ UNCHANGED <<walletVars, apiVars, loaderVars, accessToken, stored, checks, logouts,
                   closing, seen, broughtBack>>

\* The wallet signed the challenge and the API created the session.
CreateSession ==
    /\ signIn.step = "signing"
    /\ Len(sessions) < MaxSessions
    /\ sessions' = Append(sessions, signIn.address)
    /\ signIn' = [signIn EXCEPT !.step = "created", !.token = Len(sessions) + 1]
    /\ UNCHANGED <<walletVars, revoked, expired, loaderVars, authVars, checks, logouts,
                   closing, seen, broughtBack, presses>>

FinishSignIn ==
    /\ signIn.step = "created"
    /\ Adopt(signIn.token)
    /\ signIn' = NotSigning
    /\ UNCHANGED <<walletVars, apiVars, loaderVars, checks, logouts, closing, seen,
                   broughtBack, presses>>

\* Refused, signed by another account, no answer: the API may have a session
\* that nobody holds.
FailSignIn ==
    /\ signIn.step # "idle"
    /\ accessToken' = None
    /\ stored' = None
    /\ auth' = [status |-> "error", session |-> None]
    /\ signIn' = NotSigning
    /\ UNCHANGED <<walletVars, apiVars, loaderVars, checks, logouts, closing, seen,
                   broughtBack, presses>>

\* "Sign out".
SignOut ==
    /\ Press
    /\ AuthAction = "sign out"
    /\ StartLogout
    /\ UNCHANGED <<walletVars, apiVars, loaderVars, authVars, signIn, checks, closing, seen,
                   broughtBack>>

\* "Retry session", offered after an error while no wallet is connected.
RetrySession ==
    /\ Press
    /\ AuthAction = "retry"
    /\ IF Live(stored)
       THEN StartCheck(stored) /\ UNCHANGED <<auth, stored>>
       ELSE Forget /\ UNCHANGED checks
    /\ UNCHANGED <<walletVars, apiVars, loaderVars, signIn, logouts, closing, seen,
                   broughtBack>>

Answered(token) ==
    IF token \in revoked \cup expired THEN "rejected" ELSE "authenticated"

\* GET /auth/me is served, or it fails.
ServeCheck(token, answer) ==
    /\ checks[<<"sent", token>>] > 0
    /\ answer \in {Answered(token), "unreachable"}
    /\ checks' = [checks EXCEPT ![<<"sent", token>>] = @ - 1, ![<<answer, token>>] = @ + 1]
    /\ UNCHANGED <<walletVars, apiVars, loaderVars, authVars, signIn, logouts, closing, seen,
                   broughtBack, presses>>

\* Mutant of ApplyOutcome: only the answers of the API are applied.
ApplyOutcomeOfAnswer(token, outcome) ==
    /\ outcome # "sent" /\ checks[<<outcome, token>>] > 0
    /\ checks' = [checks EXCEPT ![<<outcome, token>>] = @ - 1]
    /\ broughtBack' = (broughtBack \/ (outcome # "rejected" /\ auth.session # token))
    /\ CASE outcome = "authenticated" -> Adopt(token)
         [] outcome = "rejected" -> Forget
         [] outcome = "unreachable" -> UNCHANGED authVars
    /\ UNCHANGED <<walletVars, apiVars, loaderVars, signIn, logouts, closing, seen, presses>>

ApplyOutcome(token, outcome) ==
    /\ outcome # "sent" /\ checks[<<outcome, token>>] > 0
    /\ checks' = [checks EXCEPT ![<<outcome, token>>] = @ - 1]
    /\ broughtBack' = (broughtBack \/ (outcome # "rejected" /\ auth.session # token))
    /\ CASE outcome = "authenticated" -> Adopt(token)
         [] outcome = "rejected" -> Forget
         [] outcome = "unreachable" ->
                /\ auth' = [status |-> "error", session |-> token]
                /\ UNCHANGED <<accessToken, stored>>
    /\ UNCHANGED <<walletVars, apiVars, loaderVars, signIn, logouts, closing, seen, presses>>

\* POST /auth/logout revokes the session, or fails: the browser goes on anyway.
ServeLogout(token) ==
    /\ logouts[token] > 0
    /\ logouts' = [logouts EXCEPT ![token] = @ - 1]
    /\ closing' = closing + 1
    /\ revoked' \in {revoked, revoked \cup ({token} \ {None})}
    /\ UNCHANGED <<walletVars, sessions, expired, loaderVars, authVars, signIn, checks, seen,
                   broughtBack, presses>>

FinishLogout ==
    /\ closing > 0
    /\ closing' = closing - 1
    /\ Forget
    /\ UNCHANGED <<walletVars, apiVars, loaderVars, signIn, checks, logouts, seen, broughtBack,
                   presses>>

\* Mutant of WalletEffect: it runs again only for another address.
WalletEffectOfAddress ==
    /\ mounted /\ seen.address # wallet.address
    /\ seen' = Dependencies
    /\ IF None \in {seen'.address, seen'.session} \/ seen'.address = seen'.session
       THEN UNCHANGED logouts
       ELSE StartLogout
    /\ UNCHANGED <<walletVars, apiVars, loaderVars, authVars, signIn, checks, closing,
                   broughtBack, presses>>

\* The effect of AuthProvider: another wallet is connected, so the session is
\* closed.  A locked wallet has no address and closes nothing.
WalletEffect ==
    /\ mounted /\ seen # Dependencies
    /\ seen' = Dependencies
    /\ IF None \in {seen'.address, seen'.session} \/ seen'.address = seen'.session
       THEN UNCHANGED logouts
       ELSE StartLogout
    /\ UNCHANGED <<walletVars, apiVars, loaderVars, authVars, signIn, checks, closing,
                   broughtBack, presses>>

\* Time passes for a session.
Expire(token) ==
    /\ token \in DOMAIN sessions \ expired
    /\ expired' = expired \cup {token}
    /\ UNCHANGED <<walletVars, sessions, revoked, loaderVars, authVars, flowVars, presses>>

AnswerAnyWallet(request) == \E snapshot \in Snapshots : AnswerWallet(request, snapshot)

WalletSessionNext ==
    \/ Mount \/ FinishMinimumLoaderTime
    \/ RefreshWallet \/ Connect \/ Disconnect
    \/ \E request \in reads : AnswerAnyWallet(request)
    \/ SignIn \/ CreateSession \/ FinishSignIn \/ FailSignIn
    \/ SignOut \/ RetrySession
    \/ \E token \in Tokens, outcome \in CheckStates :
        ServeCheck(token, outcome) \/ ApplyOutcome(token, outcome)
    \/ \E token \in Tokens \cup {None} : ServeLogout(token)
    \/ FinishLogout
    \/ WalletEffect
    \/ \E token \in Tokens : Expire(token)

\* The browser runs what is due, and every request is answered or fails.
WalletSessionFairness ==
    /\ WF_vars(Mount)
    /\ WF_vars(FinishMinimumLoaderTime)
    /\ WF_vars(AnswerAnyWallet(latestRequest))
    /\ WF_vars(\E token \in Tokens, outcome \in CheckStates : ServeCheck(token, outcome))
    /\ WF_vars(\E token \in Tokens, outcome \in CheckStates : ApplyOutcome(token, outcome))
    /\ WF_vars(\E token \in Tokens \cup {None} : ServeLogout(token))
    /\ WF_vars(FinishLogout)
    /\ WF_vars(WalletEffect)

WalletSessionSpec ==
    WalletSessionInit /\ [][WalletSessionNext]_vars /\ WalletSessionFairness

-----------------------------------------------------------------------------
\* "De esta forma una operacion anterior no puede volver a colocar la address
\* despues de pulsar Change wallet": the address on show was read by an
\* operation that began after the last "Change wallet".
ChangeWalletHolds ==
    wallet.address # None => shownRequest > changedAt

\* The HTTP client, sessionStorage and the screen agree on the session while
\* one is shown as open, and hold none while none is, whichever answers cross.
OneSessionEverywhere ==
    /\ auth.status = "authenticated" => accessToken = auth.session /\ stored = auth.session
    /\ auth.status = "anonymous" => accessToken = None /\ stored = None

\* "The initial loader waits for passive wallet inspection and stored-session
\* validation": the loader gives way to the application.  Only a session that
\* expires between the first render and its effect, which then asks nothing, keeps
\* it; one that expires later is found out by its check.
LoaderEnds ==
    <>(~ShowLoader \/ (auth.status = "checking" /\ ~mounted /\ stored \in expired))

\* "Cambio de wallet en Freighter: la sesion anterior deja de valer": with
\* another wallet connected a session does not stay on show, whatever order the
\* change, the sign-in and the logouts come in, as long as no late answer of
\* /auth/me brings a closed session back (React may then show the closing and
\* the return as one change, which runs no effect).
OtherWalletsSessionEnds ==
    \A token \in Tokens :
        (/\ auth.session = token
         /\ wallet.address # None /\ wallet.address # WalletOf(token)) ~>
            (\/ auth.session # token
             \/ wallet.address = None \/ wallet.address = WalletOf(token)
             \/ broughtBack)
===============================================================================
