----------------------------- MODULE AuthSessions -----------------------------
(***************************************************************************)
(* Wallet authentication (api/app/auth_service.py, auth_dependencies.py and *)
(* routers/auth.py): a challenge signed by a wallet is redeemed once for a  *)
(* session; the session admits requests until it expires or is revoked.     *)
(*                                                                          *)
(* Each request runs in a thread of its own and reads the clock and the     *)
(* rows before it writes, so redemptions of the same challenge and logouts  *)
(* of the same session overlap.  The conditional UPDATE of a redemption and *)
(* the INSERT of its session are one database transaction: one action.      *)
(***************************************************************************)
EXTENDS Integers, Sequences

CONSTANTS
    Wallets,                \* G... addresses
    Challenges,             \* challenge ids, each issued at most once
    Workers,                \* threads of the server's pool
    CHALLENGE_TTL_SECONDS,
    SESSION_TTL_SECONDS,
    MaxTime,                \* bound on the clock
    MaxSessions,            \* bound on the sessions ever opened
    None

ASSUME AuthAssumption ==
    /\ CHALLENGE_TTL_SECONDS \in Nat /\ SESSION_TTL_SECONDS \in Nat
    /\ MaxTime \in Nat /\ MaxSessions \in Nat
    /\ None \notin Wallets \cup Challenges \cup Nat

VARIABLES
    now,                    \* now_unix(): the clock all workers read
    challenges,             \* table auth_challenges
    sessions,               \* table auth_sessions, in order of creation
    requests                \* what each worker is doing

vars == <<now, challenges, sessions, requests>>

-----------------------------------------------------------------------------
Times == 0..(MaxTime + CHALLENGE_TTL_SECONDS + SESSION_TTL_SECONDS)

\* A row, or its absence (wallet None).
Challenge == [wallet: Wallets \cup {None}, expires: Times, used: Times \cup {None}]
NoChallenge == [wallet |-> None, expires |-> 0, used |-> None]

\* `challenge` is not a column: it remembers what the session was issued for.
Session == [challenge: Challenges, wallet: Wallets, created: Times,
            expires: Times, revoked: Times \cup {None}]

\* `at` is the time the request works with, read before it writes.
Request == [step: {"idle", "redeeming", "admitted", "revoking"},
            at: 0..MaxTime, challenge: Challenges \cup {None},
            session: 0..MaxSessions]
Idle == [step |-> "idle", at |-> 0, challenge |-> None, session |-> 0]

AuthTypeOK ==
    /\ now \in 0..MaxTime
    /\ challenges \in [Challenges -> Challenge]
    /\ sessions \in Seq(Session)
    /\ Len(sessions) <= MaxSessions
    /\ requests \in [Workers -> Request]

AuthInit ==
    /\ now = 0
    /\ challenges = [c \in Challenges |-> NoChallenge]
    /\ sessions = <<>>
    /\ requests = [w \in Workers |-> Idle]

Tick ==
    /\ now < MaxTime
    /\ now' = now + 1
    /\ UNCHANGED <<challenges, sessions, requests>>

-----------------------------------------------------------------------------
\* POST /auth/challenge.  secrets.token_urlsafe(32) never repeats an id.
CreateChallenge(c, wallet) ==
    /\ challenges[c].wallet = None
    /\ challenges' = [challenges EXCEPT
            ![c] = [wallet |-> wallet, expires |-> now + CHALLENGE_TTL_SECONDS,
                    used |-> None]]
    /\ UNCHANGED <<now, sessions, requests>>

\* The message of the challenge is signed by its wallet, which nobody else can.
signature_is_valid(c, signer) == signer = challenges[c].wallet

\* POST /auth/verify up to the signature.
ReadChallenge(w, c, signer) ==
    /\ requests[w].step = "idle"
    /\ challenges[c].wallet # None
    /\ challenges[c].used = None
    /\ now <= challenges[c].expires
    /\ signature_is_valid(c, signer)
    /\ requests' = [requests EXCEPT
            ![w] = [Idle EXCEPT !.step = "redeeming", !.at = now, !.challenge = c]]
    /\ UNCHANGED <<now, challenges, sessions>>

\* Mutant of RedeemChallenge: the UPDATE is not conditional on used_at_unix.
RedeemChallengeAgain(w) ==
    LET c == requests[w].challenge
        at == requests[w].at
    IN
    /\ requests[w].step = "redeeming"
    /\ challenges[c].expires >= at
    /\ Len(sessions) < MaxSessions
    /\ challenges' = [challenges EXCEPT ![c].used = at]
    /\ sessions' = Append(sessions,
            [challenge |-> c, wallet |-> challenges[c].wallet, created |-> at,
             expires |-> at + SESSION_TTL_SECONDS, revoked |-> None])
    /\ requests' = [requests EXCEPT ![w] = Idle]
    /\ UNCHANGED now

\* Mutant of RedeemChallenge: the session starts when it is written, not at the
\* time the challenge was checked against.
RedeemChallengeLate(w) ==
    LET c == requests[w].challenge IN
    /\ requests[w].step = "redeeming"
    /\ challenges[c].used = None
    /\ Len(sessions) < MaxSessions
    /\ challenges' = [challenges EXCEPT ![c].used = now]
    /\ sessions' = Append(sessions,
            [challenge |-> c, wallet |-> challenges[c].wallet, created |-> now,
             expires |-> now + SESSION_TTL_SECONDS, revoked |-> None])
    /\ requests' = [requests EXCEPT ![w] = Idle]
    /\ UNCHANGED now

\* _consume_challenge, the session and the commit.  The row the session is made
\* from is the one read before; its wallet and expiry never change.
RedeemChallenge(w) ==
    LET c == requests[w].challenge
        at == requests[w].at
    IN
    /\ requests[w].step = "redeeming"
    /\ challenges[c].used = None
    /\ challenges[c].expires >= at
    /\ Len(sessions) < MaxSessions
    /\ challenges' = [challenges EXCEPT ![c].used = at]
    /\ sessions' = Append(sessions,
            [challenge |-> c, wallet |-> challenges[c].wallet, created |-> at,
             expires |-> at + SESSION_TTL_SECONDS, revoked |-> None])
    /\ requests' = [requests EXCEPT ![w] = Idle]
    /\ UNCHANGED now

\* require_auth or optional_auth: resolve_session finds the session alive, and
\* the endpoint goes on with its wallet.
ResolveSession(w, s) ==
    /\ requests[w].step = "idle"
    /\ sessions[s].revoked = None
    /\ now <= sessions[s].expires
    /\ requests' = [requests EXCEPT
            ![w] = [Idle EXCEPT !.step = "admitted", !.at = now, !.session = s]]
    /\ UNCHANGED <<now, challenges, sessions>>

\* POST /auth/logout by an admitted request: revoke_session reads the clock.
Logout(w) ==
    /\ requests[w].step = "admitted"
    /\ requests' = [requests EXCEPT ![w].step = "revoking", ![w].at = now]
    /\ UNCHANGED <<now, challenges, sessions>>

\* Mutant of RevokeSession: the UPDATE is not conditional on revoked_at_unix.
RevokeSessionAgain(w) ==
    /\ requests[w].step = "revoking"
    /\ sessions' = [sessions EXCEPT ![requests[w].session].revoked = requests[w].at]
    /\ requests' = [requests EXCEPT ![w] = Idle]
    /\ UNCHANGED <<now, challenges>>

\* The conditional UPDATE and its commit; 204 whether it was the first or not.
RevokeSession(w) ==
    LET s == requests[w].session IN
    /\ requests[w].step = "revoking"
    /\ sessions' = IF sessions[s].revoked = None
                   THEN [sessions EXCEPT ![s].revoked = requests[w].at]
                   ELSE sessions
    /\ requests' = [requests EXCEPT ![w] = Idle]
    /\ UNCHANGED <<now, challenges>>

\* Any other endpoint answers, or the request fails or its thread dies; an
\* unfinished transaction is rolled back.
EndRequest(w) ==
    /\ requests[w].step # "idle"
    /\ requests' = [requests EXCEPT ![w] = Idle]
    /\ UNCHANGED <<now, challenges, sessions>>

AuthNext ==
    \/ Tick
    \/ \E c \in Challenges, wallet \in Wallets : CreateChallenge(c, wallet)
    \/ \E w \in Workers :
        \/ \E c \in Challenges, signer \in Wallets : ReadChallenge(w, c, signer)
        \/ RedeemChallenge(w)
        \/ \E s \in DOMAIN sessions : ResolveSession(w, s)
        \/ Logout(w)
        \/ RevokeSession(w)
        \/ EndRequest(w)

AuthSpec == AuthInit /\ [][AuthNext]_vars

-----------------------------------------------------------------------------
\* A signed challenge opens one session at most, however many requests redeem
\* it at the same time: no two sessions were issued for the same challenge.
ChallengeRedeemedOnce ==
    \A i, j \in DOMAIN sessions :
        sessions[i].challenge = sessions[j].challenge => i = j

\* A challenge is used up if and only if its session exists, at the time it was
\* redeemed: a failure between the two writes loses neither.
UsedMeansOpened ==
    \A c \in Challenges :
        challenges[c].used # None <=>
            \E s \in DOMAIN sessions : /\ sessions[s].challenge = c
                                       /\ sessions[s].created = challenges[c].used

\* The two together: a challenge is worth one session, whose row and whose mark on
\* the challenge are written both or not at all.
ChallengeOpensOneSession == ChallengeRedeemedOnce /\ UsedMeansOpened

\* A session belongs to the wallet that signed and starts while its challenge is
\* valid, so it ends within both lifetimes of the moment the challenge was issued.
SessionWithinLifetimes ==
    \A s \in DOMAIN sessions :
        LET c == challenges[sessions[s].challenge] IN
        /\ sessions[s].wallet = c.wallet
        /\ sessions[s].created <= c.expires
        /\ sessions[s].expires <= c.expires + SESSION_TTL_SECONDS

\* A revoked session stays revoked, since its first logout: "un token revocado ya
\* no vuelve a valer".
RevocationIsFinal ==
    [][\A s \in DOMAIN sessions :
            sessions[s].revoked # None => sessions'[s] = sessions[s]]_vars
===============================================================================
