------------------------------ MODULE AuthProofs ------------------------------
(***************************************************************************)
(* What is proved about AuthSessions for any number of wallets, challenges  *)
(* and workers.  Several invariants hold only together, so they are one     *)
(* inductive invariant: a redemption relies on the row it read still saying *)
(* what its request says, and the session it opens is the only one of its   *)
(* challenge because an unused challenge has none.                          *)
(***************************************************************************)
EXTENDS AuthSessions, TLAPS

\* A request that redeems read a challenge that was issued and is still within
\* its lifetime at the time the request works with; one past the
\* authentication has a session.
RequestsReadRows ==
    \A w \in Workers :
        /\ requests[w].step = "redeeming" =>
                /\ requests[w].challenge \in Challenges
                /\ challenges[requests[w].challenge].wallet # None
                /\ requests[w].at <= challenges[requests[w].challenge].expires
        /\ requests[w].step \in {"admitted", "revoking"} =>
                requests[w].session \in DOMAIN sessions

\* Who a challenge was issued to, when one was used.
UsedWasIssued ==
    \A c \in Challenges : challenges[c].used # None => challenges[c].wallet # None

\* The converse of UsedMeansOpened for every session, not just one per challenge.
SessionsUsedChallenges ==
    \A s \in DOMAIN sessions :
        challenges[sessions[s].challenge].used = sessions[s].created

AuthInv ==
    /\ AuthTypeOK
    /\ RequestsReadRows
    /\ UsedWasIssued
    /\ SessionsUsedChallenges
    /\ ChallengeRedeemedOnce
    /\ UsedMeansOpened
    /\ SessionWithinLifetimes

LEMMA IdleIsARequest == Idle \in Request
  BY AuthAssumption DEF Idle, Request

\* A time the clock shows, and the two lifetimes counted from it, are Times.
LEMMA LifetimesAreTimes ==
    ASSUME NEW t \in 0..MaxTime
    PROVE  /\ t \in Times
           /\ t + CHALLENGE_TTL_SECONDS \in Times
           /\ t + SESSION_TTL_SECONDS \in Times
           /\ t # None
           /\ None \notin Times
  BY AuthAssumption DEF Times

\* The rows of auth_sessions, one by one.
LEMMA SessionRows ==
    ASSUME AuthTypeOK, NEW s \in DOMAIN sessions
    PROVE  /\ s \in Nat
           /\ sessions[s] \in Session
           /\ sessions[s].challenge \in Challenges
           /\ sessions[s].wallet \in Wallets
           /\ sessions[s].created \in Times
<1>1. s \in 1..Len(sessions) /\ sessions \in Seq(Session)
  BY DEF AuthTypeOK
<1>2. sessions[s] \in Session
  BY <1>1
<1> QED BY <1>1, <1>2 DEF Session

LEMMA InitialAuth == AuthInit => AuthInv
<1> SUFFICES ASSUME AuthInit PROVE AuthInv
  OBVIOUS
<1> USE AuthAssumption DEF AuthInit
<1>1. AuthTypeOK
  <2>1. challenges \in [Challenges -> Challenge]
    BY DEF NoChallenge, Challenge, Times
  <2>2. requests \in [Workers -> Request]
    BY IdleIsARequest
  <2> QED BY <2>1, <2>2 DEF AuthTypeOK
<1>2. RequestsReadRows
  BY DEF RequestsReadRows, Idle
<1>3. UsedWasIssued /\ UsedMeansOpened
  BY DEF UsedWasIssued, UsedMeansOpened, NoChallenge
<1>4. ChallengeRedeemedOnce /\ SessionWithinLifetimes /\ SessionsUsedChallenges
  BY DEF ChallengeRedeemedOnce, SessionWithinLifetimes, SessionsUsedChallenges
<1> QED BY <1>1, <1>2, <1>3, <1>4 DEF AuthInv

-----------------------------------------------------------------------------
LEMMA TickKeepsAuth == AuthInv /\ Tick => AuthInv'
<1> SUFFICES ASSUME AuthInv, Tick PROVE AuthInv'
  OBVIOUS
<1>1. AuthTypeOK'
  BY AuthAssumption DEF AuthInv, AuthTypeOK, Tick
<1> QED
  BY <1>1 DEF AuthInv, Tick, RequestsReadRows, UsedWasIssued, SessionsUsedChallenges,
              ChallengeRedeemedOnce, UsedMeansOpened, SessionWithinLifetimes

\* An id that was not issued has no session and nobody redeems it.
LEMMA CreateChallengeKeepsAuth ==
    ASSUME NEW c \in Challenges, NEW wallet \in Wallets,
           AuthInv, CreateChallenge(c, wallet)
    PROVE  AuthInv'
<1> USE AuthAssumption DEF AuthInv, AuthTypeOK, CreateChallenge
<1>1. now + CHALLENGE_TTL_SECONDS \in Times
  BY LifetimesAreTimes
<1>2. challenges' \in [Challenges -> Challenge]
  BY <1>1 DEF Challenge
<1>3. \A d \in Challenges \ {c} : challenges'[d] = challenges[d]
  OBVIOUS
<1>4. /\ challenges'[c].wallet = wallet
      /\ challenges'[c].used = None
  OBVIOUS
<1>5. \A s \in DOMAIN sessions : sessions[s] \in Session /\ sessions[s].challenge # c
  <2>1. \A s \in DOMAIN sessions : sessions[s].wallet # None
    BY SessionRows
  <2> QED BY <2>1, SessionRows DEF SessionWithinLifetimes
<1>6. AuthTypeOK'
  BY <1>2
<1>7. RequestsReadRows'
  BY <1>3 DEF RequestsReadRows, Request
<1>8. UsedWasIssued'
  BY <1>3, <1>4 DEF UsedWasIssued
<1>9. SessionsUsedChallenges'
  BY <1>3, <1>5 DEF SessionsUsedChallenges, Session
<1>10. ChallengeRedeemedOnce'
  BY DEF ChallengeRedeemedOnce
<1>11. UsedMeansOpened'
  BY <1>3, <1>4, <1>5 DEF UsedMeansOpened
<1>12. SessionWithinLifetimes'
  BY <1>3, <1>5 DEF SessionWithinLifetimes, Session
<1> QED BY <1>6, <1>7, <1>8, <1>9, <1>10, <1>11, <1>12

\* Actions that only move a request forward leave the tables as they are.
LEMMA TablesUnchanged ==
    ASSUME AuthInv, UNCHANGED <<now, challenges, sessions>>,
           requests' \in [Workers -> Request], RequestsReadRows'
    PROVE  AuthInv'
  BY DEF AuthInv, AuthTypeOK, UsedWasIssued, SessionsUsedChallenges,
         ChallengeRedeemedOnce, UsedMeansOpened, SessionWithinLifetimes

LEMMA ReadChallengeKeepsAuth ==
    ASSUME NEW w \in Workers, NEW c \in Challenges, NEW signer \in Wallets,
           AuthInv, ReadChallenge(w, c, signer)
    PROVE  AuthInv'
<1> USE DEF ReadChallenge
<1>1. requests \in [Workers -> Request] /\ now \in 0..MaxTime /\ RequestsReadRows
  BY DEF AuthInv, AuthTypeOK
<1>2. requests' \in [Workers -> Request]
  BY <1>1, IdleIsARequest DEF Idle, Request
<1>3. RequestsReadRows'
  BY <1>1, <1>2 DEF RequestsReadRows, Idle, Request
<1> QED BY <1>2, <1>3, TablesUnchanged

LEMMA ResolveSessionKeepsAuth ==
    ASSUME NEW w \in Workers, NEW s \in DOMAIN sessions,
           AuthInv, ResolveSession(w, s)
    PROVE  AuthInv'
<1> USE DEF ResolveSession
<1>1. /\ requests \in [Workers -> Request] /\ now \in 0..MaxTime /\ RequestsReadRows
      /\ sessions \in Seq(Session) /\ Len(sessions) <= MaxSessions
  BY DEF AuthInv, AuthTypeOK
<1>2. s \in 0..MaxSessions
  BY <1>1, AuthAssumption
<1>3. requests' \in [Workers -> Request]
  BY <1>1, <1>2, IdleIsARequest DEF Idle, Request
<1>4. RequestsReadRows'
  BY <1>1, <1>3 DEF RequestsReadRows, Idle, Request
<1> QED BY <1>3, <1>4, TablesUnchanged

LEMMA LogoutKeepsAuth ==
    ASSUME NEW w \in Workers, AuthInv, Logout(w)
    PROVE  AuthInv'
<1> USE DEF Logout
<1>1. requests \in [Workers -> Request] /\ now \in 0..MaxTime /\ RequestsReadRows
  BY DEF AuthInv, AuthTypeOK
<1>2. requests' \in [Workers -> Request]
  BY <1>1 DEF Request
<1>3. RequestsReadRows'
  BY <1>1, <1>2 DEF RequestsReadRows, Request
<1> QED BY <1>2, <1>3, TablesUnchanged

LEMMA EndRequestKeepsAuth ==
    ASSUME NEW w \in Workers, AuthInv, EndRequest(w)
    PROVE  AuthInv'
<1> USE DEF EndRequest
<1>1. requests \in [Workers -> Request] /\ RequestsReadRows
  BY DEF AuthInv, AuthTypeOK
<1>2. requests' \in [Workers -> Request]
  BY <1>1, IdleIsARequest
<1>3. RequestsReadRows'
  BY <1>1, <1>2 DEF RequestsReadRows, Idle
<1> QED BY <1>2, <1>3, TablesUnchanged

-----------------------------------------------------------------------------
\* The redemption: the session appended is the first of its challenge.
LEMMA RedeemChallengeKeepsAuth ==
    ASSUME NEW w \in Workers, AuthInv, RedeemChallenge(w)
    PROVE  AuthInv'
<1> DEFINE c == requests[w].challenge
           at == requests[w].at
           opened == [challenge |-> c, wallet |-> challenges[c].wallet, created |-> at,
                      expires |-> at + SESSION_TTL_SECONDS, revoked |-> None]
           n == Len(sessions) + 1
<1> USE AuthAssumption
<1>1. /\ AuthTypeOK /\ RequestsReadRows /\ UsedWasIssued /\ SessionsUsedChallenges
      /\ ChallengeRedeemedOnce /\ UsedMeansOpened /\ SessionWithinLifetimes
  BY DEF AuthInv
<1>2. /\ c \in Challenges /\ at \in 0..MaxTime
      /\ challenges[c] \in Challenge /\ challenges[c].wallet # None
      /\ challenges[c].used = None /\ at <= challenges[c].expires
  BY <1>1 DEF AuthTypeOK, RequestsReadRows, Request, RedeemChallenge
<1>3. /\ at \in Times /\ at + SESSION_TTL_SECONDS \in Times /\ None \notin Times
  BY <1>2, LifetimesAreTimes
<1>4. opened \in Session
  BY <1>2, <1>3 DEF Session, Challenge
<1>5. /\ sessions' = Append(sessions, opened)
      /\ challenges' = [challenges EXCEPT ![c].used = at]
      /\ requests' = [requests EXCEPT ![w] = Idle]
      /\ now' = now
      /\ Len(sessions) < MaxSessions
  BY DEF RedeemChallenge
<1> HIDE DEF c, at, opened
<1>6. /\ sessions \in Seq(Session) /\ sessions' \in Seq(Session)
      /\ Len(sessions') = n
      /\ DOMAIN sessions' = DOMAIN sessions \cup {n}
      /\ n \notin DOMAIN sessions
      /\ sessions'[n] = opened
      /\ \A s \in DOMAIN sessions : sessions'[s] = sessions[s]
  BY <1>1, <1>4, <1>5 DEF AuthTypeOK
<1>7. /\ \A d \in Challenges \ {c} : challenges'[d] = challenges[d]
      /\ challenges'[c] = [challenges[c] EXCEPT !.used = at]
      /\ challenges' \in [Challenges -> Challenge]
  BY <1>1, <1>2, <1>3, <1>5 DEF AuthTypeOK, Challenge
<1>8. /\ challenges'[c].used = at
      /\ challenges'[c].wallet = challenges[c].wallet
      /\ challenges'[c].expires = challenges[c].expires
  BY <1>2, <1>7 DEF Challenge
<1>9. \A s \in DOMAIN sessions :
         /\ sessions[s] \in Session
         /\ sessions[s].challenge \in Challenges \ {c}
  <2>1. \A s \in DOMAIN sessions : sessions[s].created # None
    BY <1>1, <1>3, SessionRows
  <2> QED BY <2>1, <1>1, <1>2, SessionRows DEF SessionsUsedChallenges
<1>10. /\ opened.challenge = c /\ opened.created = at
       /\ opened.wallet = challenges[c].wallet
       /\ opened.expires = at + SESSION_TTL_SECONDS
  BY DEF opened
<1>11. AuthTypeOK'
  <2>1. requests' \in [Workers -> Request]
    BY <1>1, <1>5, IdleIsARequest DEF AuthTypeOK
  <2> QED BY <1>1, <1>5, <1>6, <1>7, <2>1 DEF AuthTypeOK
<1>12. RequestsReadRows'
  <2> SUFFICES ASSUME NEW v \in Workers
               PROVE /\ requests'[v].step = "redeeming" =>
                          /\ requests'[v].challenge \in Challenges
                          /\ challenges'[requests'[v].challenge].wallet # None
                          /\ requests'[v].at <= challenges'[requests'[v].challenge].expires
                     /\ requests'[v].step \in {"admitted", "revoking"} =>
                          requests'[v].session \in DOMAIN sessions'
    BY DEF RequestsReadRows
  <2>1. CASE v = w
    BY <2>1, <1>1, <1>5 DEF Idle, AuthTypeOK
  <2>2. CASE v # w
    <3>1. requests'[v] = requests[v]
      BY <2>2, <1>1, <1>5 DEF AuthTypeOK
    <3>2. \A d \in Challenges : /\ challenges'[d].wallet = challenges[d].wallet
                                 /\ challenges'[d].expires = challenges[d].expires
      BY <1>7, <1>8
    <3> QED BY <3>1, <3>2, <1>1, <1>6 DEF RequestsReadRows
  <2> QED BY <2>1, <2>2
<1>13. UsedWasIssued'
  BY <1>1, <1>2, <1>7, <1>8 DEF UsedWasIssued
<1>14. SessionsUsedChallenges'
  <2>1. challenges'[sessions'[n].challenge].used = sessions'[n].created
    BY <1>6, <1>8, <1>10
  <2>2. \A s \in DOMAIN sessions :
            challenges'[sessions'[s].challenge].used = sessions'[s].created
    BY <1>1, <1>6, <1>7, <1>9 DEF SessionsUsedChallenges
  <2> QED BY <2>1, <2>2, <1>6 DEF SessionsUsedChallenges
<1>15. ChallengeRedeemedOnce'
  BY <1>1, <1>6, <1>9, <1>10 DEF ChallengeRedeemedOnce
<1>16. UsedMeansOpened'
  <2> SUFFICES ASSUME NEW d \in Challenges
               PROVE challenges'[d].used # None <=>
                        \E s \in DOMAIN sessions' :
                            /\ sessions'[s].challenge = d
                            /\ sessions'[s].created = challenges'[d].used
    BY DEF UsedMeansOpened
  <2>1. CASE d = c
    BY <2>1, <1>3, <1>6, <1>8, <1>10
  <2>2. CASE d # c
    <3>1. challenges'[d] = challenges[d]
      BY <2>2, <1>7
    <3>2. \A s \in DOMAIN sessions' :
              sessions'[s].challenge = d =>
                s \in DOMAIN sessions /\ sessions'[s] = sessions[s]
      BY <2>2, <1>6, <1>10
    <3>3. \A s \in DOMAIN sessions : s \in DOMAIN sessions' /\ sessions'[s] = sessions[s]
      BY <1>6
    <3> QED BY <3>1, <3>2, <3>3, <1>1 DEF UsedMeansOpened
  <2> QED BY <2>1, <2>2
<1>17. SessionWithinLifetimes'
  <2> SUFFICES ASSUME NEW s \in DOMAIN sessions'
               PROVE /\ sessions'[s].wallet = challenges'[sessions'[s].challenge].wallet
                     /\ sessions'[s].created <= challenges'[sessions'[s].challenge].expires
                     /\ sessions'[s].expires <=
                            challenges'[sessions'[s].challenge].expires + SESSION_TTL_SECONDS
    BY DEF SessionWithinLifetimes
  <2>1. CASE s = n
    BY <2>1, <1>2, <1>6, <1>8, <1>10 DEF Challenge, Times
  <2>2. CASE s \in DOMAIN sessions
    BY <2>2, <1>1, <1>6, <1>7, <1>9 DEF SessionWithinLifetimes, Session
  <2> QED BY <2>1, <2>2, <1>6
<1> QED BY <1>11, <1>12, <1>13, <1>14, <1>15, <1>16, <1>17 DEF AuthInv

\* A revocation changes nothing of a session but its revoked_at_unix.
LEMMA RevokeSessionKeepsAuth ==
    ASSUME NEW w \in Workers, AuthInv, RevokeSession(w)
    PROVE  AuthInv'
<1> USE AuthAssumption
<1>1. /\ AuthTypeOK /\ RequestsReadRows /\ UsedWasIssued /\ SessionsUsedChallenges
      /\ ChallengeRedeemedOnce /\ UsedMeansOpened /\ SessionWithinLifetimes
  BY DEF AuthInv
<1>2. requests[w].at \in Times
  BY <1>1, LifetimesAreTimes DEF AuthTypeOK, Request
<1>3. /\ sessions \in Seq(Session) /\ sessions' \in Seq(Session)
      /\ Len(sessions') = Len(sessions) /\ DOMAIN sessions' = DOMAIN sessions
  <2>1. CASE sessions[requests[w].session].revoked = None
    <3> DEFINE s == requests[w].session
               closed == [sessions[s] EXCEPT !.revoked = requests[w].at]
    <3>1. s \in DOMAIN sessions /\ sessions[s] \in Session
      BY <1>1, SessionRows DEF RevokeSession, RequestsReadRows
    <3>2. closed \in Session
      BY <1>2, <3>1 DEF Session
    <3>3. sessions' = [sessions EXCEPT ![s] = closed]
      BY <2>1 DEF RevokeSession
    <3> HIDE DEF s, closed
    <3> QED BY <3>1, <3>2, <3>3, <1>1 DEF AuthTypeOK
  <2>2. CASE sessions[requests[w].session].revoked # None
    BY <2>2, <1>1 DEF RevokeSession, AuthTypeOK
  <2> QED BY <2>1, <2>2
<1>4. \A s \in DOMAIN sessions :
          /\ sessions'[s].challenge = sessions[s].challenge
          /\ sessions'[s].wallet = sessions[s].wallet
          /\ sessions'[s].created = sessions[s].created
          /\ sessions'[s].expires = sessions[s].expires
  BY <1>1, <1>3 DEF RevokeSession, Session, AuthTypeOK
<1>5. now' = now /\ challenges' = challenges
  BY DEF RevokeSession
<1>6. requests' = [requests EXCEPT ![w] = Idle] /\ requests' \in [Workers -> Request]
  BY <1>1, IdleIsARequest DEF RevokeSession, AuthTypeOK
<1>7. AuthTypeOK'
  BY <1>1, <1>3, <1>5, <1>6 DEF AuthTypeOK
<1>8. RequestsReadRows'
  BY <1>1, <1>3, <1>5, <1>6 DEF RequestsReadRows, Idle, AuthTypeOK
<1>9. UsedWasIssued'
  BY <1>1, <1>5 DEF UsedWasIssued
<1>10. SessionsUsedChallenges'
  BY <1>1, <1>3, <1>4, <1>5 DEF SessionsUsedChallenges
<1>11. ChallengeRedeemedOnce'
  BY <1>1, <1>3, <1>4 DEF ChallengeRedeemedOnce
<1>12. UsedMeansOpened'
  BY <1>1, <1>3, <1>4, <1>5 DEF UsedMeansOpened
<1>13. SessionWithinLifetimes'
  BY <1>1, <1>3, <1>4, <1>5 DEF SessionWithinLifetimes
<1> QED BY <1>7, <1>8, <1>9, <1>10, <1>11, <1>12, <1>13 DEF AuthInv

-----------------------------------------------------------------------------
LEMMA AuthStep == AuthInv /\ [AuthNext]_vars => AuthInv'
<1> SUFFICES ASSUME AuthInv, [AuthNext]_vars PROVE AuthInv'
  OBVIOUS
<1>1. CASE Tick
  BY <1>1, TickKeepsAuth
<1>2. CASE \E c \in Challenges, wallet \in Wallets : CreateChallenge(c, wallet)
  BY <1>2, CreateChallengeKeepsAuth
<1>3. ASSUME NEW w \in Workers,
             \/ \E c \in Challenges, signer \in Wallets : ReadChallenge(w, c, signer)
             \/ RedeemChallenge(w)
             \/ \E s \in DOMAIN sessions : ResolveSession(w, s)
             \/ Logout(w)
             \/ RevokeSession(w)
             \/ EndRequest(w)
      PROVE  AuthInv'
  BY <1>3, ReadChallengeKeepsAuth, RedeemChallengeKeepsAuth, ResolveSessionKeepsAuth,
     LogoutKeepsAuth, RevokeSessionKeepsAuth, EndRequestKeepsAuth
<1>4. CASE UNCHANGED vars
  BY <1>4, TablesUnchanged
     DEF vars, AuthInv, AuthTypeOK, RequestsReadRows
<1> QED BY <1>1, <1>2, <1>3, <1>4 DEF AuthNext

THEOREM AuthIsInvariant == AuthSpec => []AuthInv
<1> QED BY InitialAuth, AuthStep, PTL DEF AuthSpec

\* Every reachable state of the authentication is well typed.
THEOREM AuthTypeCorrect == AuthSpec => []AuthTypeOK
<1>1. AuthInv => AuthTypeOK
  BY DEF AuthInv
<1> QED BY <1>1, AuthIsInvariant, PTL

\* However many requests redeem the same signed challenge at once, one session
\* at most is opened for it, and it is marked as used exactly when that session
\* exists.
THEOREM OneSessionPerChallenge == AuthSpec => []ChallengeOpensOneSession
<1>1. AuthInv => ChallengeOpensOneSession
  BY DEF AuthInv, ChallengeOpensOneSession
<1> QED BY <1>1, AuthIsInvariant, PTL

\* A session is its challenge's wallet's and ends within both lifetimes.
THEOREM SessionsExpireInTime == AuthSpec => []SessionWithinLifetimes
<1>1. AuthInv => SessionWithinLifetimes
  BY DEF AuthInv
<1> QED BY <1>1, AuthIsInvariant, PTL

\* A logout is final: later logouts of the same session keep its first time, and
\* nothing else writes to a session.
THEOREM LogoutIsFinal == AuthSpec => RevocationIsFinal
<1> DEFINE Final == \A s \in DOMAIN sessions :
                        sessions[s].revoked # None => sessions'[s] = sessions[s]
<1>1. ASSUME AuthTypeOK, [AuthNext]_vars PROVE Final
  <2>1. ASSUME NEW w \in Workers, RedeemChallenge(w) PROVE Final
    BY <1>1, <2>1 DEF RedeemChallenge, AuthTypeOK
  <2>2. ASSUME NEW w \in Workers, RevokeSession(w) PROVE Final
    BY <1>1, <2>2 DEF RevokeSession, AuthTypeOK
  <2>3. CASE UNCHANGED sessions
    BY <2>3
  <2> QED
    BY <1>1, <2>1, <2>2, <2>3
       DEF AuthNext, vars, Tick, CreateChallenge, ReadChallenge, ResolveSession,
           Logout, EndRequest
<1>2. AuthTypeOK /\ [AuthNext]_vars => [Final]_vars
  BY <1>1
<1> QED BY <1>2, AuthTypeCorrect, PTL DEF AuthSpec, RevocationIsFinal
===============================================================================
