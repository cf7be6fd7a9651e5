--------------------------- MODULE TaskPageProofs ---------------------------
(***************************************************************************)
(* What TaskPage promises for any number of buttons pressed and             *)
(* verifications stored.  Everything rests on one distinction: answers that *)
(* cross, or come from a panel that has left the page, are `late`; as long  *)
(* as none is, whatever is still due was read after what is on the screen.  *)
(***************************************************************************)
EXTENDS TaskPage, TLAPS

Statuses == {"ASSIGNED"} \cup SUBMITTED_STATUSES

\* A bounty that was read is a version of the row, a verification one that is stored.
Version(answer) ==
    /\ answer \in Loadable /\ answer.value \in {0} \cup DOMAIN history
    /\ answer.status = "ready" => answer.value # 0

Verdict(answer) == answer \in Loadable /\ answer.value \in {0} \cup DOMAIN verifications

AnswersAreOfTheTask ==
    /\ Version(result.answer)
    /\ \A load \in loads : Version(load.answer)
    /\ \A load \in workLoads : Verdict(load.verification)
    /\ \A c \in Slots : Version(calls[c].bounty) /\ Verdict(calls[c].record)

\* The effects abort the request before.
OneRequestEach ==
    /\ \A a, b \in loads : a = b
    /\ \A a, b \in workLoads : a = b

\* A submission that is read again is one that was registered.
CallInOrder(c) ==
    /\ c > inputs \/ calls[c].step = "idle" => calls[c] = NoCall
    /\ calls[c].step # "reading" => calls[c].bounty = LOADING /\ ~calls[c].failed
    /\ calls[c].kind = "submit" /\ calls[c].step = "reading" =>
            /\ Current # "ASSIGNED"
            /\ calls[c].bounty.value # 0 => history[calls[c].bounty.value] # "ASSIGNED"

\* The function that makes a panel busy is one of that panel.
PanelOfItsCall ==
    panel.running # 0 =>
        Mounted = IF calls[panel.running].kind = "submit" THEN "submission" ELSE "verification"

PageInv ==
    /\ TaskPageTypeOK
    /\ AnswersAreOfTheTask
    /\ OneRequestEach
    /\ \A c \in Slots : CallInOrder(c)
    /\ PanelOfItsCall

-----------------------------------------------------------------------------
(* What grows, and what is on the screen. *)

\* Row and verifications are added to, never rewritten.
Grown ==
    /\ \A v \in DOMAIN history : v \in DOMAIN history' /\ history'[v] = history[v]
    /\ \A r \in DOMAIN verifications :
            r \in DOMAIN verifications' /\ verifications'[r] = verifications[r]

LEMMA RowGrows ==
    ASSUME TaskPageTypeOK, NEW s \in SUBMITTED_STATUSES, history' = Append(history, s)
    PROVE  /\ history' \in Seq(Statuses) /\ history' # <<>>
           /\ Len(history') = Len(history) + 1 /\ Current' = s
           /\ \A v \in DOMAIN history : v \in DOMAIN history' /\ history'[v] = history[v]
<1>1. history \in Seq(Statuses) /\ s \in Statuses
  BY DEF TaskPageTypeOK, Statuses
<1> QED BY <1>1 DEF Current

LEMMA VerdictsGrow ==
    ASSUME TaskPageTypeOK, NEW verdict \in Results, Store(verdict)
    PROVE  /\ verifications' \in Seq(Results) /\ Len(verifications') <= MaxVerifications
           /\ Latest' = Latest + 1 /\ verifications'[Latest'] = verdict
           /\ \A r \in DOMAIN verifications :
                r \in DOMAIN verifications' /\ verifications'[r] = verifications[r]
           /\ BOUNTY_STATUS_BY_VERIFICATION[verdict] \in SUBMITTED_STATUSES
           /\ history' = Append(history, BOUNTY_STATUS_BY_VERIFICATION[verdict])
<1>1. /\ verifications \in Seq(Results) /\ verifications' = Append(verifications, verdict)
      /\ Len(verifications) < MaxVerifications /\ MaxVerifications \in Nat
  BY TaskPageAssumption DEF TaskPageTypeOK, Store
<1>2. BOUNTY_STATUS_BY_VERIFICATION[verdict] \in SUBMITTED_STATUSES
  <2>1. verdict \in {"PASS", "FAIL", "PENDING"}
    BY TaskPageAssumption
  <2> QED BY <2>1 DEF BOUNTY_STATUS_BY_VERIFICATION, SUBMITTED_STATUSES
<1> QED BY <1>1, <1>2 DEF Latest, Store

\* The versions on the page.
LEMMA Versions ==
    ASSUME TaskPageTypeOK
    PROVE  /\ history \in Seq(Statuses) /\ Len(history) \in Nat \ {0}
           /\ DOMAIN history = 1..Len(history) /\ Len(history) \in DOMAIN history
           /\ Latest \in Nat /\ DOMAIN verifications = 1..Latest
           /\ verifications \in Seq(Results)
  BY DEF TaskPageTypeOK, Statuses, Latest

\* While the answer on the page stays, the panels stay.
LEMMA ScreenKept ==
    ASSUME PageInv, Grown, UNCHANGED <<identity, reloadToken, result>>
    PROVE  /\ Settled' = Settled /\ PageState' = PageState /\ Bounty' = Bounty
           /\ Enabled' = Enabled /\ Mounted' = Mounted
<1>1. Settled' = Settled /\ PageState' = PageState /\ Bounty' = Bounty
  BY DEF Settled, PageState, Bounty
<1>2. Bounty \in {0} \cup DOMAIN history
  BY DEF PageInv, AnswersAreOfTheTask, Version, Bounty
<1>3. Enabled' = Enabled
  BY <1>1, <1>2 DEF Enabled, Grown
<1> QED BY <1>1, <1>3 DEF Mounted

\* A panel is on a page that is ready.
LEMMA MountedIsReady ==
    ASSUME PageInv, Mounted # "none"
    PROVE  /\ Settled /\ result.answer.status = "ready" /\ Bounty = result.answer.value
           /\ Bounty \in DOMAIN history
<1>1. PageState = "ready"
  BY DEF Mounted
<1>2. Settled /\ result.answer.status = "ready"
  BY <1>1 DEF PageState
<1> QED BY <1>2 DEF Bounty, PageInv, AnswersAreOfTheTask, Version

-----------------------------------------------------------------------------
(* PageInv is inductive. *)

LEMMA InitialPage == TaskPageInit => PageInv
<1> SUFFICES ASSUME TaskPageInit PROVE PageInv
  OBVIOUS
<1> USE DEF TaskPageInit
<1>1. LOADING \in Loadable /\ NoCall \in Call /\ LOADING.value = 0 /\ LOADING.status = "loading"
  BY DEF LOADING, Loadable, NoCall, Call
<1>2. /\ NoCall.step = "idle" /\ NoCall.bounty = LOADING /\ NoCall.record = LOADING
      /\ NoCall.failed = FALSE /\ NoCall.kind = "none"
  BY DEF NoCall
<1>3. TaskPageTypeOK
  <2>1. /\ history \in Seq(Statuses) /\ history # <<>> /\ verifications \in Seq(Results)
        /\ Len(verifications) <= MaxVerifications /\ inputs \in 0..MaxInputs
    <3>1. "ASSIGNED" \in Statuses /\ "SUBMITTED" \in Statuses
      BY DEF Statuses, SUBMITTED_STATUSES
    <3>2. \A s \in Statuses : <<s>> \in Seq(Statuses) /\ <<s>> # <<>>
      OBVIOUS
    <3>3. verifications \in Seq(Results) /\ Len(verifications) = 0
      OBVIOUS
    <3>4. history \in Seq(Statuses) /\ history # <<>>
      BY <3>1, <3>2
    <3>5. inputs \in 0..MaxInputs
      BY TaskPageAssumption
    <3> QED BY <3>3, <3>4, <3>5, TaskPageAssumption
  <2>2. /\ AskBounty = result /\ result.answer = LOADING /\ identity \in Identities
        /\ result \in [token: Nat, identity: Identities, answer: Loadable]
    BY <1>1 DEF Identities, AskBounty
  <2>3. /\ records \in [token: Int, verification: Loadable]
        /\ records.verification = LOADING
    BY <1>1
  <2>4. /\ panel \in [running: {0} \cup Slots, error: BOOLEAN] /\ panel.running = 0
        /\ calls \in [Slots -> Call]
    BY <1>1 DEF FreshPanel
  <2> QED BY <1>1, <2>1, <2>2, <2>3, <2>4 DEF TaskPageTypeOK, Statuses
<1>4. AnswersAreOfTheTask
  BY <1>1, <1>2 DEF AnswersAreOfTheTask, Version, Verdict, AskBounty
<1>5. OneRequestEach
  BY DEF OneRequestEach
<1>6. \A c \in Slots : CallInOrder(c)
  BY <1>2 DEF CallInOrder
<1>7. PanelOfItsCall
  BY DEF PanelOfItsCall, FreshPanel
<1> QED BY <1>3, <1>4, <1>5, <1>6, <1>7 DEF PageInv

\* What the API does with a call, and what a call reads.
LEMMA ServedKeeps ==
    ASSUME PageInv, NEW c \in Slots, Grown,
           history' \in Seq(Statuses), history' # <<>>,
           Current' = Current \/ Current' \in SUBMITTED_STATUSES,
           verifications' \in Seq(Results), Len(verifications') <= MaxVerifications,
           othersVerified' \in BOOLEAN,
           UNCHANGED <<identity, pageVars, workVars, late, inputs>>,
           calls' \in [Slots -> Call], \A d \in Slots \ {c} : calls'[d] = calls[d],
           Version(calls[c].bounty)', Verdict(calls[c].record)', CallInOrder(c)',
           \/ panel' = panel /\ (panel.running = c =>
                calls'[c].step # "idle" /\ calls'[c].kind = calls[c].kind)
           \/ panel' \in [running: {0}, error: BOOLEAN]
    PROVE  PageInv'
<1>1. TaskPageTypeOK /\ UNCHANGED <<reloadToken, result, loads, token, records, workLoads>>
  BY DEF PageInv, pageVars, workVars
<1>2. Mounted' = Mounted
  BY <1>1, ScreenKept
<1>3. AnswersAreOfTheTask'
  <2>1. AnswersAreOfTheTask
    BY DEF PageInv
  <2>2. ASSUME NEW answer, Version(answer)
        PROVE  /\ answer \in Loadable /\ answer.value \in {0} \cup DOMAIN history'
               /\ answer.status = "ready" => answer.value # 0
    BY <2>2 DEF Version, Grown
  <2>3. ASSUME NEW answer, Verdict(answer)
        PROVE  answer \in Loadable /\ answer.value \in {0} \cup DOMAIN verifications'
    BY <2>3 DEF Verdict, Grown
  <2>4. Version(result.answer)' /\ \A load \in loads' : Version(load.answer)'
    BY <1>1, <2>1, <2>2 DEF AnswersAreOfTheTask, Version
  <2>5. \A load \in workLoads' : Verdict(load.verification)'
    BY <1>1, <2>1, <2>3 DEF AnswersAreOfTheTask, Verdict
  <2>6. \A d \in Slots : Version(calls[d].bounty)' /\ Verdict(calls[d].record)'
    <3> SUFFICES ASSUME NEW d \in Slots \ {c}
                 PROVE  Version(calls[d].bounty)' /\ Verdict(calls[d].record)'
      OBVIOUS
    <3>1. calls'[d] = calls[d] /\ Version(calls[d].bounty) /\ Verdict(calls[d].record)
      BY <2>1 DEF AnswersAreOfTheTask
    <3> QED BY <2>2, <2>3, <3>1 DEF Version, Verdict
  <2> QED BY <2>4, <2>5, <2>6 DEF AnswersAreOfTheTask
<1>4. OneRequestEach'
  BY <1>1 DEF PageInv, OneRequestEach
<1>5. ASSUME NEW d \in Slots
      PROVE  CallInOrder(d)'
  <2> SUFFICES ASSUME d # c PROVE CallInOrder(d)'
    OBVIOUS
  <2>1. CallInOrder(d) /\ calls'[d] = calls[d] /\ inputs' = inputs
    BY DEF PageInv
  <2>2. calls[d].bounty.value \in {0} \cup DOMAIN history
    BY DEF PageInv, AnswersAreOfTheTask, Version
  <2>3. Current # "ASSIGNED" => Current' # "ASSIGNED"
    BY DEF SUBMITTED_STATUSES
  <2> QED BY <2>1, <2>2, <2>3 DEF CallInOrder, Grown
<1>6. panel'.running # 0 =>
        /\ panel' = panel /\ panel.running \in Running /\ panel'.running \in Running'
        /\ calls'[panel.running].kind = calls[panel.running].kind
  BY <1>1 DEF TaskPageTypeOK, Running
<1>7. PanelOfItsCall'
  BY <1>2, <1>6 DEF PageInv, PanelOfItsCall
<1>8. TaskPageTypeOK'
  <2>1. panel' \in [running: {0} \cup Slots, error: BOOLEAN]
    BY <1>1 DEF TaskPageTypeOK
  <2>2. /\ result'.answer.value \in {0} \cup DOMAIN history'
        /\ records'.verification.value \in {0} \cup DOMAIN verifications'
    BY <1>1 DEF TaskPageTypeOK, Grown
  <2> QED BY <1>1, <1>6, <2>1, <2>2 DEF TaskPageTypeOK, Statuses, Slots
<1> QED BY <1>3, <1>4, <1>5, <1>7, <1>8 DEF PageInv

\* A render: what is due may have been aborted, and a panel may start afresh.
LEMMA RenderKeeps ==
    ASSUME PageInv, NEW due, due \subseteq loads, NEW next,
           LoadEffect(due), WorkEffect(workLoads), Rerender(next),
           UNCHANGED <<apiVars, token>>,
           identity' \in Identities, reloadToken' \in Nat, late' \in BOOLEAN,
           inputs' \in 0..MaxInputs, inputs <= inputs',
           result' \in [token: Nat, identity: Identities, answer: Loadable],
           Version(result.answer)',
           records' \in [token: Int, verification: Loadable],
           Verdict(records.verification)',
           calls' \in [Slots -> Call], \A d \in Slots : calls'[d] \in {calls[d], NoCall},
           next \in [running: {0} \cup Slots, error: BOOLEAN],
           Mounted' = Mounted /\ next.running # 0 =>
                /\ next.running = panel.running
                /\ calls'[next.running] = calls[next.running]
    PROVE  PageInv'
<1>1. /\ TaskPageTypeOK /\ AnswersAreOfTheTask /\ OneRequestEach /\ PanelOfItsCall
      /\ \A c \in Slots : CallInOrder(c)
      /\ history' = history /\ verifications' = verifications
      /\ othersVerified' = othersVerified
  BY DEF PageInv, apiVars
<1>2. LOADING \in Loadable /\ LOADING.value = 0 /\ LOADING.status = "loading"
  BY DEF LOADING, Loadable
<1>3. /\ NoCall \in Call /\ NoCall.step = "idle" /\ NoCall.bounty = LOADING
      /\ NoCall.record = LOADING /\ ~NoCall.failed /\ NoCall.kind = "none"
  BY <1>2 DEF NoCall, Call
<1>4. /\ loads' \subseteq loads \cup {AskBounty'} /\ \A a, b \in loads' : a = b
      /\ AskBounty' \in [token: Nat, identity: Identities, answer: Loadable]
      /\ AskBounty'.answer = LOADING
  BY <1>1, <1>2 DEF LoadEffect, AskBounty, OneRequestEach
<1>5. /\ workLoads' \subseteq workLoads \cup {AskWork'} /\ \A a, b \in workLoads' : a = b
      /\ AskWork' \in [token: Nat, verification: Loadable]
      /\ AskWork'.verification = LOADING
  BY <1>1, <1>2 DEF WorkEffect, AskWork, OneRequestEach, TaskPageTypeOK
<1>6. AnswersAreOfTheTask'
  <2>1. \A load \in loads' : Version(load.answer)'
    BY <1>1, <1>2, <1>4 DEF AnswersAreOfTheTask, Version
  <2>2. \A load \in workLoads' : Verdict(load.verification)'
    BY <1>1, <1>2, <1>5 DEF AnswersAreOfTheTask, Verdict
  <2>3. \A c \in Slots : Version(calls[c].bounty)' /\ Verdict(calls[c].record)'
    BY <1>1, <1>2, <1>3 DEF AnswersAreOfTheTask, Version, Verdict
  <2> QED BY <2>1, <2>2, <2>3 DEF AnswersAreOfTheTask
<1>7. OneRequestEach'
  BY <1>4, <1>5 DEF OneRequestEach
<1>8. ASSUME NEW c \in Slots
      PROVE  CallInOrder(c)'
  <2>1. CallInOrder(c) /\ Current' = Current /\ (c > inputs' => c > inputs)
    <3>1. c \in Nat /\ inputs \in Nat /\ inputs' \in Nat
      BY <1>1, TaskPageAssumption DEF TaskPageTypeOK, Slots
    <3> QED BY <1>1, <3>1 DEF Current
  <2>2. CASE calls'[c] = calls[c]
    BY <1>1, <2>1, <2>2 DEF CallInOrder
  <2>3. CASE calls'[c] = NoCall
    BY <1>3, <2>3 DEF CallInOrder
  <2> QED BY <2>2, <2>3
<1>9. panel' = (IF Mounted' = Mounted THEN next ELSE FreshPanel) /\ FreshPanel.running = 0
  BY DEF Rerender, FreshPanel
<1>10. panel'.running # 0 =>
        /\ panel' = next /\ panel'.running = panel.running /\ Mounted' = Mounted
        /\ calls'[panel.running] = calls[panel.running]
  BY <1>9
<1>11. PanelOfItsCall'
  BY <1>1, <1>10 DEF PanelOfItsCall
<1>12. TaskPageTypeOK'
  <2>1. panel' \in [running: {0} \cup Slots, error: BOOLEAN]
    BY <1>9 DEF FreshPanel
  <2>2. panel'.running # 0 => panel'.running \in Running'
    BY <1>1, <1>10 DEF TaskPageTypeOK, Running
  <2>3. loads' \subseteq [token: Nat, identity: Identities, answer: Loadable]
    BY <1>1, <1>4 DEF TaskPageTypeOK
  <2>4. workLoads' \subseteq [token: Nat, verification: Loadable]
    BY <1>1, <1>5 DEF TaskPageTypeOK
  <2>5. /\ result'.answer.value \in {0} \cup DOMAIN history'
        /\ records'.verification.value \in {0} \cup DOMAIN verifications'
    BY <1>1 DEF Version, Verdict
  <2> QED BY <1>1, <2>1, <2>2, <2>3, <2>4, <2>5 DEF TaskPageTypeOK
<1> QED BY <1>6, <1>7, <1>8, <1>11, <1>12 DEF PageInv

\* Answers that are on their way, and those of the verification.
LEMMA DataKeeps ==
    ASSUME PageInv, UNCHANGED <<apiVars, identity, reloadToken, result, panelVars>>,
           late' \in BOOLEAN, token' \in Nat, inputs' \in 0..MaxInputs, inputs <= inputs',
           loads' \subseteq [token: Nat, identity: Identities, answer: Loadable],
           \A load \in loads' : Version(load.answer)', \A a, b \in loads' : a = b,
           workLoads' \subseteq [token: Nat, verification: Loadable],
           \A load \in workLoads' : Verdict(load.verification)',
           \A a, b \in workLoads' : a = b,
           records' \in [token: Int, verification: Loadable],
           Verdict(records.verification)'
    PROVE  PageInv'
<1>1. /\ TaskPageTypeOK /\ AnswersAreOfTheTask /\ PanelOfItsCall
      /\ \A c \in Slots : CallInOrder(c)
      /\ history' = history /\ verifications' = verifications
      /\ othersVerified' = othersVerified /\ panel' = panel /\ calls' = calls
  BY DEF PageInv, apiVars, panelVars
<1>2. Mounted' = Mounted
  BY <1>1, ScreenKept DEF Grown
<1>3. AnswersAreOfTheTask' /\ OneRequestEach'
  BY <1>1 DEF AnswersAreOfTheTask, Version, Verdict, OneRequestEach
<1>4. \A c \in Slots : CallInOrder(c)'
  <2> SUFFICES ASSUME NEW c \in Slots
               PROVE  CallInOrder(c)'
    OBVIOUS
  <2>1. c \in Nat /\ inputs \in Nat /\ inputs' \in Nat
    BY <1>1, TaskPageAssumption DEF TaskPageTypeOK, Slots
  <2>2. CallInOrder(c) /\ Current' = Current /\ (c > inputs' => c > inputs)
    BY <1>1, <2>1 DEF Current
  <2> QED BY <1>1, <2>2 DEF CallInOrder
<1>5. PanelOfItsCall'
  BY <1>1, <1>2 DEF PanelOfItsCall
<1>6. TaskPageTypeOK'
  <2>1. records'.verification.value \in {0} \cup DOMAIN verifications'
    BY DEF Verdict
  <2> QED BY <1>1, <2>1 DEF TaskPageTypeOK, Running
<1> QED BY <1>3, <1>4, <1>5, <1>6 DEF PageInv

-----------------------------------------------------------------------------
(* The actions, one by one. *)

\* What was just read is of the task as it is.
LEMMA FreshAnswers ==
    ASSUME PageInv
    PROVE  /\ Version(Ready(Len(history))) /\ Verdict(Ready(Latest)) /\ Verdict(Ready(0))
           /\ Version(LOADING) /\ Verdict(LOADING)
           /\ \A s \in {"error", "not-found"} : Version(Missing(s)) /\ Verdict(Missing(s))
<1>1. /\ Len(history) \in DOMAIN history /\ Len(history) # 0 /\ Len(history) \in Nat
      /\ Latest \in {0} \cup DOMAIN verifications /\ Latest \in Nat
  BY Versions DEF PageInv
<1> QED BY <1>1 DEF Version, Verdict, Ready, Missing, LOADING, Loadable

LEMMA ServeLoadKeeps ==
    ASSUME PageInv, NEW load \in loads, ServeLoad(load)
    PROVE  PageInv'
<1>1. PICK answer \in {Missing("error"), IF CanRead(load.identity)
                                          THEN Ready(Len(history)) ELSE Missing("not-found")} :
            loads' = (loads \ {load}) \cup {[load EXCEPT !.answer = answer]}
  BY DEF ServeLoad
<1>2. Version(answer)
  BY <1>1, FreshAnswers
<1>3. /\ TaskPageTypeOK /\ AnswersAreOfTheTask /\ OneRequestEach
      /\ UNCHANGED <<apiVars, identity, reloadToken, result, workVars, panelVars, late, inputs>>
      /\ UNCHANGED <<token, records, workLoads, history, verifications>>
  BY DEF PageInv, ServeLoad, apiVars, workVars
<1> DEFINE served == [load EXCEPT !.answer = answer]
<1>4. /\ served \in [token: Nat, identity: Identities, answer: Loadable]
      /\ served.answer = answer
  BY <1>2, <1>3 DEF TaskPageTypeOK, Version
<1> HIDE DEF served
<1>5. loads' = {served}
  BY <1>1, <1>3 DEF OneRequestEach, served
<1>6. \A l \in loads' : Version(l.answer)'
  BY <1>2, <1>3, <1>4, <1>5 DEF Version
<1>7. (\A l \in workLoads' : Verdict(l.verification)') /\ Verdict(records.verification)'
  BY <1>3 DEF AnswersAreOfTheTask, Verdict, TaskPageTypeOK
<1> QED BY <1>3, <1>4, <1>5, <1>6, <1>7, DataKeeps DEF TaskPageTypeOK, OneRequestEach

LEMMA ServeWorkKeeps ==
    ASSUME PageInv, NEW load \in workLoads, ServeWork(load)
    PROVE  PageInv'
<1>1. PICK verification \in {Ready(Latest), Missing("error")} :
            workLoads' = (workLoads \ {load}) \cup {[load EXCEPT !.verification = verification]}
  BY DEF ServeWork
<1>2. Verdict(verification)
  BY <1>1, FreshAnswers
<1>3. /\ TaskPageTypeOK /\ AnswersAreOfTheTask /\ OneRequestEach
      /\ UNCHANGED <<apiVars, identity, reloadToken, result, loads, token, records, panelVars,
                     late, inputs>>
      /\ UNCHANGED <<history, verifications>>
  BY DEF PageInv, ServeWork, apiVars, pageVars
<1> DEFINE served == [load EXCEPT !.verification = verification]
<1>4. /\ served \in [token: Nat, verification: Loadable] /\ served.verification = verification
  BY <1>2, <1>3 DEF TaskPageTypeOK, Verdict
<1> HIDE DEF served
<1>5. workLoads' = {served}
  BY <1>1, <1>3 DEF OneRequestEach, served
<1>6. \A l \in workLoads' : Verdict(l.verification)'
  BY <1>2, <1>3, <1>4, <1>5 DEF Verdict
<1>7. (\A l \in loads' : Version(l.answer)') /\ Verdict(records.verification)'
  BY <1>3 DEF AnswersAreOfTheTask, Version, Verdict, TaskPageTypeOK
<1> QED BY <1>3, <1>4, <1>5, <1>6, <1>7, DataKeeps DEF TaskPageTypeOK, OneRequestEach

LEMMA PublishWorkKeeps ==
    ASSUME PageInv, NEW load \in workLoads, PublishWork(load)
    PROVE  PageInv'
<1>1. /\ TaskPageTypeOK /\ AnswersAreOfTheTask /\ OneRequestEach
      /\ UNCHANGED <<apiVars, identity, reloadToken, result, loads, token, panelVars, inputs>>
      /\ UNCHANGED <<history, verifications>>
      /\ workLoads' = workLoads \ {load} /\ records' = load
      /\ late' = (late \/ Running # {})
  BY DEF PageInv, PublishWork, apiVars, pageVars
<1>2. /\ load \in [token: Nat, verification: Loadable] /\ Verdict(load.verification)
  BY <1>1 DEF TaskPageTypeOK, AnswersAreOfTheTask
<1>3. records' \in [token: Int, verification: Loadable] /\ Verdict(records.verification)'
  BY <1>1, <1>2 DEF Verdict
<1>4. /\ \A l \in loads' : Version(l.answer)'
      /\ \A l \in workLoads' : Verdict(l.verification)'
  BY <1>1 DEF AnswersAreOfTheTask, Version, Verdict
<1> QED BY <1>1, <1>3, <1>4, DataKeeps DEF TaskPageTypeOK, OneRequestEach

LEMMA ReloadWorkKeeps == PageInv /\ ReloadWork => PageInv'
<1> SUFFICES ASSUME PageInv, ReloadWork PROVE PageInv'
  OBVIOUS
<1>1. /\ TaskPageTypeOK /\ AnswersAreOfTheTask /\ OneRequestEach
      /\ UNCHANGED <<apiVars, identity, reloadToken, result, loads, records, panelVars, late>>
      /\ UNCHANGED <<history, verifications>>
      /\ token' = token + 1 /\ WorkEffect(workLoads)
      /\ inputs < MaxInputs /\ inputs' = inputs + 1
  BY DEF PageInv, ReloadWork, apiVars, pageVars, Input
<1>2. token' \in Nat /\ inputs' \in 0..MaxInputs /\ inputs <= inputs'
  BY <1>1, TaskPageAssumption DEF TaskPageTypeOK
<1>3. LOADING \in Loadable /\ AskWork'.verification = LOADING
  BY DEF LOADING, Loadable, AskWork
<1>4. /\ workLoads' \subseteq workLoads \cup {AskWork'} /\ \A a, b \in workLoads' : a = b
      /\ AskWork' \in [token: Nat, verification: Loadable]
  BY <1>1, <1>2, <1>3 DEF WorkEffect, AskWork, OneRequestEach
<1>5. /\ \A l \in loads' : Version(l.answer)'
      /\ \A l \in workLoads' : Verdict(l.verification)'
      /\ Verdict(records.verification)'
  BY <1>1, <1>3, <1>4, FreshAnswers DEF AnswersAreOfTheTask, Version, Verdict, TaskPageTypeOK
<1> QED BY <1>1, <1>2, <1>4, <1>5, DataKeeps DEF TaskPageTypeOK, OneRequestEach

LEMMA PublishLoadKeeps ==
    ASSUME PageInv, NEW load \in loads, PublishLoad(load)
    PROVE  PageInv'
<1>1. /\ TaskPageTypeOK /\ AnswersAreOfTheTask
      /\ UNCHANGED <<apiVars, identity, reloadToken, token, records, calls, inputs>>
      /\ UNCHANGED <<history, verifications>>
      /\ result' = load /\ late' = (late \/ Running # {})
      /\ LoadEffect(loads \ {load}) /\ WorkEffect(workLoads) /\ Rerender(panel)
  BY DEF PageInv, PublishLoad, apiVars
<1>2. /\ load \in [token: Nat, identity: Identities, answer: Loadable]
      /\ Version(load.answer)
  BY <1>1 DEF TaskPageTypeOK, AnswersAreOfTheTask
<1>3. Version(result.answer)' /\ Verdict(records.verification)'
  BY <1>1, <1>2 DEF Version, Verdict, TaskPageTypeOK
<1>4. loads \ {load} \subseteq loads /\ inputs \in Nat
  BY <1>1 DEF TaskPageTypeOK
<1> QED BY <1>1, <1>2, <1>3, <1>4, RenderKeeps DEF TaskPageTypeOK

LEMMA SwitchIdentityKeeps == PageInv /\ (SwitchIdentity \/ ReloadPage) => PageInv'
<1> SUFFICES ASSUME PageInv, SwitchIdentity \/ ReloadPage PROVE PageInv'
  OBVIOUS
<1>1. /\ TaskPageTypeOK /\ AnswersAreOfTheTask
      /\ UNCHANGED <<apiVars, result, token, records, calls, late>>
      /\ UNCHANGED <<history, verifications>>
      /\ identity' \in Identities /\ (reloadToken' = reloadToken \/ reloadToken' = reloadToken + 1)
      /\ LoadEffect(loads) /\ WorkEffect(workLoads) /\ Rerender(panel)
      /\ inputs < MaxInputs /\ inputs' = inputs + 1
  BY DEF PageInv, SwitchIdentity, ReloadPage, Input, apiVars, TaskPageTypeOK
<1>2. reloadToken' \in Nat /\ inputs' \in 0..MaxInputs /\ inputs <= inputs'
  BY <1>1, TaskPageAssumption DEF TaskPageTypeOK
<1>3. Version(result.answer)' /\ Verdict(records.verification)'
  BY <1>1 DEF Version, Verdict, AnswersAreOfTheTask, TaskPageTypeOK
<1> QED BY <1>1, <1>2, <1>3, RenderKeeps DEF TaskPageTypeOK

\* A button of the panel that is on the page.
LEMMA StartCallKeeps ==
    ASSUME PageInv, NEW call \in Call, StartCall(call),
           call.step # "idle", call.bounty = LOADING, Verdict(call.record), ~call.failed,
           call.kind = "submit" => call.step # "reading",
           Mounted = IF call.kind = "submit" THEN "submission" ELSE "verification"
    PROVE  PageInv' /\ Mounted' = Mounted
<1>1. /\ TaskPageTypeOK /\ AnswersAreOfTheTask /\ OneRequestEach
      /\ UNCHANGED <<apiVars, identity, pageVars, workVars, late>>
      /\ UNCHANGED <<history, verifications, othersVerified, reloadToken, result, loads,
                     token, records, workLoads>>
      /\ inputs < MaxInputs /\ inputs' = inputs + 1
      /\ panel' = [running |-> inputs', error |-> FALSE]
      /\ calls' = [calls EXCEPT ![inputs'] = call]
  BY DEF PageInv, StartCall, Input, apiVars, pageVars, workVars
<1>2. inputs \in Nat /\ inputs' \in Slots /\ inputs' \in 0..MaxInputs
  BY <1>1, TaskPageAssumption DEF TaskPageTypeOK, Slots
<1>3. /\ calls' \in [Slots -> Call] /\ calls'[inputs'] = call
      /\ \A c \in Slots : c # inputs' => calls'[c] = calls[c]
  BY <1>1, <1>2 DEF TaskPageTypeOK
<1>4. panel'.running = inputs' /\ panel' \in [running: {0} \cup Slots, error: BOOLEAN]
  BY <1>1, <1>2
<1>5. Mounted' = Mounted
  BY <1>1, ScreenKept DEF Grown
<1>6. AnswersAreOfTheTask'
  <2>1. Version(call.bounty) /\ Verdict(call.record)
    BY FreshAnswers
  <2> QED BY <1>1, <1>3, <2>1 DEF AnswersAreOfTheTask, Version, Verdict
<1>7. ASSUME NEW c \in Slots
      PROVE  CallInOrder(c)'
  <2>1. CallInOrder(c) /\ Current' = Current
    BY <1>1 DEF PageInv, Current
  <2>2. CASE c = inputs'
    BY <1>2, <1>3, <2>2 DEF CallInOrder
  <2>3. CASE c # inputs'
    <3>1. c \in Nat /\ (c > inputs' => c > inputs)
      BY <1>1, <1>2 DEF Slots
    <3> QED BY <1>1, <1>3, <2>1, <2>3, <3>1 DEF CallInOrder
  <2> QED BY <2>2, <2>3
<1>8. PanelOfItsCall'
  BY <1>3, <1>4, <1>5 DEF PanelOfItsCall
<1>9. OneRequestEach'
  BY <1>1 DEF OneRequestEach
<1>10. TaskPageTypeOK'
  <2>1. panel'.running # 0 => panel'.running \in Running'
    BY <1>2, <1>3, <1>4 DEF Running
  <2> QED BY <1>1, <1>2, <1>3, <1>4, <2>1 DEF TaskPageTypeOK
<1> QED BY <1>5, <1>6, <1>7, <1>8, <1>9, <1>10 DEF PageInv

\* The calls that buttons begin.
LEMMA NewCalls ==
    ASSUME PageInv
    PROVE  /\ SubmitPullRequest => \E call \in Call :
                /\ StartCall(call) /\ call.kind = "submit" /\ call.step = "posted"
                /\ call.bounty = LOADING /\ call.record = LOADING /\ ~call.failed
           /\ RunVerification => \E call \in Call :
                /\ StartCall(call) /\ call.kind = "verify" /\ call.step \in {"posted", "refused"}
                /\ call.bounty = LOADING /\ call.record = LOADING /\ ~call.failed
           /\ RefreshStatus => \E call \in Call :
                /\ StartCall(call) /\ call.kind = "refresh" /\ call.step = "reading"
                /\ call.bounty = LOADING /\ call.record = Ready(0) /\ ~call.failed
<1>1. LOADING \in Loadable /\ Ready(0) \in Loadable
  BY DEF LOADING, Ready, Loadable
<1>2. ASSUME SubmitPullRequest
      PROVE  \E call \in Call :
                /\ StartCall(call) /\ call.kind = "submit" /\ call.step = "posted"
                /\ call.bounty = LOADING /\ call.record = LOADING /\ ~call.failed
  <2> DEFINE call == [NoCall EXCEPT !.kind = "submit", !.step = "posted"]
  <2>1. StartCall(call)
    BY <1>2 DEF SubmitPullRequest
  <2>2. /\ call \in Call /\ call.kind = "submit" /\ call.step = "posted"
        /\ call.bounty = LOADING /\ call.record = LOADING /\ ~call.failed
    BY <1>1 DEF NoCall, Call
  <2> HIDE DEF call
  <2> QED BY <2>1, <2>2
<1>3. ASSUME RunVerification
      PROVE  \E call \in Call :
                /\ StartCall(call) /\ call.kind = "verify" /\ call.step \in {"posted", "refused"}
                /\ call.bounty = LOADING /\ call.record = LOADING /\ ~call.failed
  <2> DEFINE call == [NoCall EXCEPT !.kind = "verify",
                        !.step = IF Current \in VERIFIABLE_STATUSES THEN "posted" ELSE "refused"]
  <2>1. StartCall(call)
    BY <1>3 DEF RunVerification
  <2>2. /\ call \in Call /\ call.kind = "verify" /\ call.step \in {"posted", "refused"}
        /\ call.bounty = LOADING /\ call.record = LOADING /\ ~call.failed
    BY <1>1 DEF NoCall, Call
  <2> HIDE DEF call
  <2> QED BY <2>1, <2>2
<1>4. ASSUME RefreshStatus
      PROVE  \E call \in Call :
                /\ StartCall(call) /\ call.kind = "refresh" /\ call.step = "reading"
                /\ call.bounty = LOADING /\ call.record = Ready(0) /\ ~call.failed
  <2> DEFINE call == [NoCall EXCEPT !.kind = "refresh", !.step = "reading", !.record = Ready(0)]
  <2>1. StartCall(call)
    BY <1>4 DEF RefreshStatus
  <2>2. /\ call \in Call /\ call.kind = "refresh" /\ call.step = "reading"
        /\ call.bounty = LOADING /\ call.record = Ready(0) /\ ~call.failed
    BY <1>1 DEF NoCall, Call
  <2> HIDE DEF call
  <2> QED BY <2>1, <2>2
<1> QED BY <1>2, <1>3, <1>4

LEMMA ButtonKeeps ==
    ASSUME PageInv, SubmitPullRequest \/ RunVerification \/ RefreshStatus
    PROVE  PageInv' /\ Mounted' = Mounted
<1>1. Verdict(LOADING) /\ Verdict(Ready(0))
  BY FreshAnswers
<1>2. CASE SubmitPullRequest
  <2>1. PICK call \in Call :
            /\ StartCall(call) /\ call.kind = "submit" /\ call.step = "posted"
            /\ call.bounty = LOADING /\ call.record = LOADING /\ ~call.failed
    BY <1>2, NewCalls
  <2>2. Mounted = "submission"
    BY <1>2 DEF SubmitPullRequest
  <2> QED BY <1>1, <2>1, <2>2, StartCallKeeps
<1>3. CASE RunVerification
  <2>1. PICK call \in Call :
            /\ StartCall(call) /\ call.kind = "verify" /\ call.step \in {"posted", "refused"}
            /\ call.bounty = LOADING /\ call.record = LOADING /\ ~call.failed
    BY <1>3, NewCalls
  <2>2. Mounted = "verification"
    BY <1>3 DEF RunVerification
  <2> QED BY <1>1, <2>1, <2>2, StartCallKeeps
<1>4. CASE RefreshStatus
  <2>1. PICK call \in Call :
            /\ StartCall(call) /\ call.kind = "refresh" /\ call.step = "reading"
            /\ call.bounty = LOADING /\ call.record = Ready(0) /\ ~call.failed
    BY <1>4, NewCalls
  <2>2. Mounted = "verification"
    BY <1>4 DEF RefreshStatus
  <2> QED BY <1>1, <2>1, <2>2, StartCallKeeps
<1> QED BY <1>2, <1>3, <1>4

\* What a step makes of call c: the others are left alone.
OnlyCall(c) == calls' \in [Slots -> Call] /\ \A d \in Slots \ {c} : calls'[d] = calls[d]

Becomes(c, step, bounty, record, failed) ==
    /\ OnlyCall(c)
    /\ calls'[c].kind = calls[c].kind /\ calls'[c].step = step
    /\ calls'[c].bounty = bounty /\ calls'[c].record = record /\ calls'[c].failed = failed

LEMMA Rewritten ==
    ASSUME PageInv, NEW c \in Slots, NEW call \in Call, calls' = [calls EXCEPT ![c] = call],
           call.kind = calls[c].kind
    PROVE  Becomes(c, call.step, call.bounty, call.record, call.failed)
  BY DEF PageInv, TaskPageTypeOK, Becomes, OnlyCall

LEMMA CallSteps ==
    ASSUME PageInv, NEW c \in Slots
    PROVE  /\ RegisterSubmission(c) => \E step \in {"reading", "refused"} :
                Becomes(c, step, calls[c].bounty, Ready(0), calls[c].failed)
           /\ \A verdict \in Results : StoreVerdict(c, verdict) =>
                Becomes(c, IF verdict = "PASS" THEN "paying" ELSE "reading",
                        calls[c].bounty, Ready(Latest + 1), calls[c].failed)
           /\ Pay(c) => Becomes(c, "reading", calls[c].bounty, calls[c].record, calls[c].failed)
           /\ FailUpstream(c) => Becomes(c, "reading", calls[c].bounty, LOADING, TRUE)
           /\ ReadBounty(c) => \E answer \in {Ready(Len(history)), Missing("error")} :
                Becomes(c, "reading", answer, calls[c].record, calls[c].failed)
           /\ ReadRecord(c) => \E answer \in {Ready(Latest), Missing("error")} :
                Becomes(c, "reading", calls[c].bounty, answer, calls[c].failed)
<1>1. calls \in [Slots -> Call]
  BY DEF PageInv, TaskPageTypeOK
<1>2. calls[c] \in Call
  BY <1>1
<1>3. /\ Ready(0) \in Loadable /\ LOADING \in Loadable /\ Missing("error") \in Loadable
      /\ Ready(Latest) \in Loadable /\ Ready(Latest + 1) \in Loadable
      /\ Ready(Len(history)) \in Loadable
  BY Versions DEF PageInv, Ready, LOADING, Missing, Loadable
<1>4. ASSUME RegisterSubmission(c)
      PROVE  \E step \in {"reading", "refused"} :
                Becomes(c, step, calls[c].bounty, Ready(0), calls[c].failed)
  <2>3. PICK step \in {"reading", "refused"} :
            calls' = [calls EXCEPT ![c].step = step, ![c].record = Ready(0)]
    BY <1>4 DEF RegisterSubmission
  <2> DEFINE call == [calls[c] EXCEPT !.step = step, !.record = Ready(0)]
  <2>1. calls' = [calls EXCEPT ![c] = call]
    BY <1>1, <1>2, <2>3 DEF Call
  <2>2. /\ call \in Call /\ call.kind = calls[c].kind /\ call.step = step
        /\ call.bounty = calls[c].bounty /\ call.record = Ready(0)
        /\ call.failed = calls[c].failed
    BY <1>2, <1>3 DEF Call
  <2> HIDE DEF call
  <2> QED BY <2>1, <2>2, Rewritten
<1>5. ASSUME NEW verdict \in Results, StoreVerdict(c, verdict)
      PROVE  Becomes(c, IF verdict = "PASS" THEN "paying" ELSE "reading",
                     calls[c].bounty, Ready(Latest + 1), calls[c].failed)
  <2> DEFINE step == IF verdict = "PASS" THEN "paying" ELSE "reading"
             call == [calls[c] EXCEPT !.record = Ready(Latest + 1), !.step = step]
  <2>1. calls' = [calls EXCEPT ![c] = call]
    BY <1>1, <1>2, <1>5 DEF StoreVerdict, Call, Latest
  <2>2. /\ call \in Call /\ call.kind = calls[c].kind /\ call.step = step
        /\ call.bounty = calls[c].bounty /\ call.record = Ready(Latest + 1)
        /\ call.failed = calls[c].failed
    BY <1>2, <1>3 DEF Call
  <2> HIDE DEF call
  <2> QED BY <2>1, <2>2, Rewritten
<1>6. ASSUME Pay(c)
      PROVE  Becomes(c, "reading", calls[c].bounty, calls[c].record, calls[c].failed)
  <2> DEFINE call == [calls[c] EXCEPT !.step = "reading"]
  <2>1. calls' = [calls EXCEPT ![c] = call]
    BY <1>1, <1>2, <1>6 DEF Pay, Call
  <2>2. /\ call \in Call /\ call.kind = calls[c].kind /\ call.step = "reading"
        /\ call.bounty = calls[c].bounty /\ call.record = calls[c].record
        /\ call.failed = calls[c].failed
    BY <1>2 DEF Call
  <2> HIDE DEF call
  <2> QED BY <2>1, <2>2, Rewritten
<1>7. ASSUME FailUpstream(c)
      PROVE  Becomes(c, "reading", calls[c].bounty, LOADING, TRUE)
  <2> DEFINE call == [calls[c] EXCEPT !.step = "reading", !.failed = TRUE, !.record = LOADING]
  <2>1. calls' = [calls EXCEPT ![c] = call]
    BY <1>1, <1>2, <1>7 DEF FailUpstream, Call
  <2>2. /\ call \in Call /\ call.kind = calls[c].kind /\ call.step = "reading"
        /\ call.bounty = calls[c].bounty /\ call.record = LOADING /\ call.failed = TRUE
    BY <1>2, <1>3 DEF Call
  <2> HIDE DEF call
  <2> QED BY <2>1, <2>2, Rewritten
<1>8. ASSUME ReadBounty(c)
      PROVE  \E answer \in {Ready(Len(history)), Missing("error")} :
                Becomes(c, "reading", answer, calls[c].record, calls[c].failed)
  <2>1. PICK answer \in {Ready(Len(history)), Missing("error")} :
            calls' = [calls EXCEPT ![c].bounty = answer]
    BY <1>8 DEF ReadBounty
  <2> DEFINE call == [calls[c] EXCEPT !.bounty = answer]
  <2>2. calls' = [calls EXCEPT ![c] = call]
    BY <1>1, <1>2, <2>1
  <2>3. /\ call \in Call /\ call.kind = calls[c].kind /\ call.step = "reading"
        /\ call.bounty = answer /\ call.record = calls[c].record
        /\ call.failed = calls[c].failed
    BY <1>2, <1>3, <1>8 DEF Call, ReadBounty
  <2> HIDE DEF call
  <2> QED BY <2>2, <2>3, Rewritten
<1>9. ASSUME ReadRecord(c)
      PROVE  \E answer \in {Ready(Latest), Missing("error")} :
                Becomes(c, "reading", calls[c].bounty, answer, calls[c].failed)
  <2>1. PICK answer \in {Ready(Latest), Missing("error")} :
            calls' = [calls EXCEPT ![c].record = answer]
    BY <1>9 DEF ReadRecord
  <2> DEFINE call == [calls[c] EXCEPT !.record = answer]
  <2>2. calls' = [calls EXCEPT ![c] = call]
    BY <1>1, <1>2, <2>1
  <2>3. /\ call \in Call /\ call.kind = calls[c].kind /\ call.step = "reading"
        /\ call.bounty = calls[c].bounty /\ call.record = answer
        /\ call.failed = calls[c].failed
    BY <1>2, <1>3, <1>9 DEF Call, ReadRecord
  <2> HIDE DEF call
  <2> QED BY <2>2, <2>3, Rewritten
<1> QED BY <1>4, <1>5, <1>6, <1>7, <1>8, <1>9

\* A call that ends leaves its slot empty.
LEMMA CallEnds ==
    ASSUME PageInv, NEW c \in Slots, calls' = [calls EXCEPT ![c] = NoCall]
    PROVE  OnlyCall(c) /\ calls'[c] = NoCall
<1>1. NoCall \in Call
  BY DEF NoCall, Call, LOADING, Loadable
<1> QED BY <1>1 DEF PageInv, TaskPageTypeOK, OnlyCall

\* What the steps of a call leave alone.
LEMMA ServedLeaves ==
    ASSUME PageInv, Served
    PROVE  /\ UNCHANGED <<identity, pageVars, workVars, late, inputs, panel>>
           /\ UNCHANGED <<reloadToken, result, loads, token, records, workLoads>>
  BY DEF Served, pageVars, workVars

LEMMA SubmissionKeeps ==
    ASSUME PageInv, NEW c \in Slots, RegisterSubmission(c)
    PROVE  PageInv'
<1>1. /\ Served /\ calls[c].kind = "submit" /\ calls[c].step = "posted"
      /\ history' = Append(history, "SUBMITTED")
      /\ verifications' = verifications /\ othersVerified' = othersVerified
      /\ \E step \in {"reading", "refused"} :
            Becomes(c, step, calls[c].bounty, Ready(0), calls[c].failed)
  BY CallSteps DEF RegisterSubmission
<1>2. /\ TaskPageTypeOK /\ CallInOrder(c) /\ "SUBMITTED" \in SUBMITTED_STATUSES
  BY DEF PageInv, SUBMITTED_STATUSES
<1>3. /\ history' \in Seq(Statuses) /\ history' # <<>> /\ Current' = "SUBMITTED"
      /\ Grown
  BY <1>1, <1>2, RowGrows DEF Grown
<1>4. calls[c].bounty = LOADING /\ LOADING.value = 0
  BY <1>1, <1>2 DEF CallInOrder, LOADING
<1>5. Version(calls[c].bounty)' /\ Verdict(calls[c].record)'
  BY <1>1, <1>4 DEF Becomes, Version, Verdict, LOADING, Ready, Loadable
<1>6. CallInOrder(c)'
  BY <1>1, <1>2, <1>3, <1>4, ServedLeaves DEF CallInOrder, Becomes, NoCall
<1> QED
  BY <1>1, <1>2, <1>3, <1>5, <1>6, ServedLeaves, ServedKeeps
     DEF TaskPageTypeOK, Becomes, OnlyCall

\* A step that leaves row and verifications as they are.
LEMMA SameRow ==
    ASSUME PageInv, UNCHANGED apiVars
    PROVE  /\ Grown /\ history' = history /\ verifications' = verifications
           /\ history' \in Seq(Statuses) /\ history' # <<>> /\ Current' = Current
           /\ verifications' \in Seq(Results) /\ Len(verifications') <= MaxVerifications
           /\ othersVerified' \in BOOLEAN
  BY DEF PageInv, TaskPageTypeOK, Statuses, apiVars, Grown, Current

LEMMA StoreVerdictKeeps ==
    ASSUME PageInv, NEW c \in Slots, NEW verdict \in Results, StoreVerdict(c, verdict)
    PROVE  PageInv'
<1> DEFINE step == IF verdict = "PASS" THEN "paying" ELSE "reading"
<1>1. /\ Becomes(c, step, calls[c].bounty, Ready(Latest + 1), calls[c].failed) /\ Served
      /\ calls[c].kind = "verify" /\ calls[c].step = "posted" /\ Store(verdict)
      /\ othersVerified' = (othersVerified \/ panel.running # c)
  BY CallSteps DEF StoreVerdict
<1>2. TaskPageTypeOK /\ CallInOrder(c) /\ step \in {"paying", "reading"}
  BY DEF PageInv
<1> HIDE DEF step
<1>3. /\ history' \in Seq(Statuses) /\ history' # <<>> /\ Current' \in SUBMITTED_STATUSES
      /\ verifications' \in Seq(Results) /\ Len(verifications') <= MaxVerifications
      /\ Latest' = Latest + 1 /\ Grown
  BY <1>1, <1>2, RowGrows, VerdictsGrow DEF Grown
<1>4. calls[c].bounty = LOADING /\ ~calls[c].failed /\ LOADING.value = 0
  BY <1>1, <1>2 DEF CallInOrder, LOADING
<1>5. Version(calls[c].bounty)' /\ Verdict(calls[c].record)'
  <2>1. Latest + 1 \in Nat /\ Latest + 1 \in DOMAIN verifications'
    BY <1>2, <1>3, Versions DEF Latest
  <2> QED BY <1>1, <1>4, <2>1 DEF Becomes, Version, Verdict, LOADING, Ready, Loadable
<1>6. CallInOrder(c)'
  BY <1>1, <1>2, <1>4, ServedLeaves DEF CallInOrder, Becomes, NoCall
<1> QED
  BY <1>1, <1>2, <1>3, <1>5, <1>6, ServedLeaves, ServedKeeps
     DEF TaskPageTypeOK, Becomes, OnlyCall

LEMMA PayKeeps ==
    ASSUME PageInv, NEW c \in Slots, Pay(c)
    PROVE  PageInv'
<1>1. /\ Becomes(c, "reading", calls[c].bounty, calls[c].record, calls[c].failed) /\ Served
      /\ calls[c].step = "paying" /\ history' = Append(history, "PAID")
      /\ verifications' = verifications /\ othersVerified' = othersVerified
  BY CallSteps DEF Pay
<1>2. /\ TaskPageTypeOK /\ CallInOrder(c) /\ "PAID" \in SUBMITTED_STATUSES
  BY DEF PageInv, SUBMITTED_STATUSES
<1>3. /\ history' \in Seq(Statuses) /\ history' # <<>> /\ Current' = "PAID" /\ Grown
  BY <1>1, <1>2, RowGrows DEF Grown
<1>4. calls[c].bounty = LOADING /\ LOADING.value = 0 /\ Verdict(calls[c].record)
  BY <1>1, <1>2 DEF CallInOrder, LOADING, PageInv, AnswersAreOfTheTask
<1>5. Version(calls[c].bounty)' /\ Verdict(calls[c].record)'
  BY <1>1, <1>4 DEF Becomes, Version, Verdict, LOADING, Loadable
<1>6. CallInOrder(c)'
  BY <1>1, <1>2, <1>3, <1>4, ServedLeaves DEF CallInOrder, Becomes, NoCall
<1> QED
  BY <1>1, <1>2, <1>3, <1>5, <1>6, ServedLeaves, ServedKeeps
     DEF TaskPageTypeOK, Becomes, OnlyCall

LEMMA FailUpstreamKeeps ==
    ASSUME PageInv, NEW c \in Slots, FailUpstream(c)
    PROVE  PageInv'
<1>1. /\ Becomes(c, "reading", calls[c].bounty, LOADING, TRUE) /\ Served /\ UNCHANGED apiVars
      /\ calls[c].kind = "verify" /\ calls[c].step \in {"posted", "paying"}
  BY CallSteps DEF FailUpstream
<1>2. CallInOrder(c) /\ Version(calls[c].bounty) /\ Verdict(LOADING)
  BY FreshAnswers DEF PageInv, AnswersAreOfTheTask
<1>3. Version(calls[c].bounty)' /\ Verdict(calls[c].record)'
  BY <1>1, <1>2, SameRow DEF Becomes, Version, Verdict
<1>4. CallInOrder(c)'
  BY <1>1, <1>2, ServedLeaves DEF CallInOrder, Becomes, NoCall
<1> QED
  BY <1>1, <1>3, <1>4, SameRow, ServedLeaves, ServedKeeps
     DEF PageInv, TaskPageTypeOK, Becomes, OnlyCall

LEMMA ReadBountyKeeps ==
    ASSUME PageInv, NEW c \in Slots, ReadBounty(c)
    PROVE  PageInv'
<1>1. PICK answer \in {Ready(Len(history)), Missing("error")} :
            Becomes(c, "reading", answer, calls[c].record, calls[c].failed)
  BY CallSteps
<1>2. Served /\ UNCHANGED apiVars /\ calls[c].step = "reading"
  BY DEF ReadBounty
<1>3. CallInOrder(c) /\ Version(answer) /\ Verdict(calls[c].record)
  BY <1>1, FreshAnswers DEF PageInv, AnswersAreOfTheTask
<1>4. answer.value \in {0, Len(history)} /\ Current = history[Len(history)]
  BY <1>1 DEF Ready, Missing, Current
<1>5. Version(calls[c].bounty)' /\ Verdict(calls[c].record)'
  BY <1>1, <1>2, <1>3, SameRow DEF Becomes, Version, Verdict
<1>6. CallInOrder(c)'
  <2>1. calls'[c].kind = calls[c].kind /\ calls'[c].step = "reading" /\ calls'[c].bounty = answer
    BY <1>1 DEF Becomes
  <2>2. calls[c].kind = "submit" => Current # "ASSIGNED"
    BY <1>2, <1>3 DEF CallInOrder
  <2>3. ~(c > inputs)
    BY <1>2, <1>3 DEF CallInOrder, NoCall
  <2> QED BY <1>2, <1>4, <2>1, <2>2, <2>3, SameRow, ServedLeaves DEF CallInOrder
<1> QED
  BY <1>1, <1>2, <1>5, <1>6, SameRow, ServedLeaves, ServedKeeps
     DEF PageInv, TaskPageTypeOK, Becomes, OnlyCall

LEMMA ReadRecordKeeps ==
    ASSUME PageInv, NEW c \in Slots, ReadRecord(c)
    PROVE  PageInv'
<1>1. PICK answer \in {Ready(Latest), Missing("error")} :
            Becomes(c, "reading", calls[c].bounty, answer, calls[c].failed)
  BY CallSteps
<1>2. Served /\ UNCHANGED apiVars /\ calls[c].step = "reading"
  BY DEF ReadRecord
<1>3. CallInOrder(c) /\ Verdict(answer) /\ Version(calls[c].bounty)
  BY <1>1, FreshAnswers DEF PageInv, AnswersAreOfTheTask
<1>4. Version(calls[c].bounty)' /\ Verdict(calls[c].record)'
  BY <1>1, <1>2, <1>3, SameRow DEF Becomes, Version, Verdict
<1>5. CallInOrder(c)'
  BY <1>1, <1>2, <1>3, SameRow, ServedLeaves DEF CallInOrder, Becomes, NoCall
<1> QED
  BY <1>1, <1>2, <1>4, <1>5, SameRow, ServedLeaves, ServedKeeps
     DEF PageInv, TaskPageTypeOK, Becomes, OnlyCall

LEMMA RefuseKeeps ==
    ASSUME PageInv, NEW c \in Slots, Refuse(c)
    PROVE  PageInv'
<1>1. /\ OnlyCall(c) /\ calls'[c] = NoCall
      /\ panel' = IF panel.running = c THEN [running |-> 0, error |-> TRUE] ELSE panel
      /\ UNCHANGED apiVars /\ UNCHANGED <<identity, pageVars, workVars, late, inputs>>
  BY CallEnds DEF Refuse
<1>2. /\ NoCall.step = "idle" /\ NoCall.bounty = LOADING /\ NoCall.record = LOADING
      /\ ~NoCall.failed /\ NoCall.kind = "none"
  BY DEF NoCall
<1>3. Version(calls[c].bounty)' /\ Verdict(calls[c].record)'
  BY <1>1, <1>2, FreshAnswers, SameRow DEF Version, Verdict
<1>4. CallInOrder(c)'
  BY <1>1, <1>2 DEF CallInOrder
<1>5. \/ panel' = panel /\ panel.running # c
      \/ panel' \in [running: {0}, error: BOOLEAN]
  BY <1>1
<1> QED
  BY <1>1, <1>3, <1>4, <1>5, SameRow, ServedKeeps DEF PageInv, TaskPageTypeOK, OnlyCall

LEMMA VerifyElsewhereKeeps ==
    ASSUME PageInv, NEW verdict \in Results, VerifyElsewhere(verdict)
    PROVE  PageInv'
<1>1. TaskPageTypeOK /\ Served /\ Store(verdict) /\ calls' = calls /\ othersVerified' = TRUE
  BY DEF PageInv, VerifyElsewhere
<1>2. /\ history' \in Seq(Statuses) /\ history' # <<>> /\ Current' \in SUBMITTED_STATUSES
      /\ verifications' \in Seq(Results) /\ Len(verifications') <= MaxVerifications
      /\ Latest' = Latest + 1 /\ Grown
  BY <1>1, RowGrows, VerdictsGrow DEF Grown
<1>3. /\ UNCHANGED <<identity, reloadToken, result, loads, token, records, workLoads, late,
                     inputs, panel>>
  BY <1>1, ServedLeaves
<1>4. Mounted' = Mounted
  BY <1>2, <1>3, ScreenKept
<1>5. AnswersAreOfTheTask'
  BY <1>1, <1>2, <1>3 DEF PageInv, AnswersAreOfTheTask, Version, Verdict, Grown
<1>6. ASSUME NEW c \in Slots
      PROVE  CallInOrder(c)'
  <2>1. CallInOrder(c) /\ calls[c].bounty.value \in {0} \cup DOMAIN history
    BY DEF PageInv, AnswersAreOfTheTask, Version
  <2>2. Current' # "ASSIGNED"
    BY <1>2 DEF SUBMITTED_STATUSES
  <2> QED BY <1>1, <1>2, <1>3, <2>1, <2>2 DEF CallInOrder, Grown
<1>7. OneRequestEach' /\ PanelOfItsCall'
  BY <1>1, <1>3, <1>4 DEF PageInv, OneRequestEach, PanelOfItsCall
<1>8. TaskPageTypeOK'
  <2>1. /\ result'.answer.value \in {0} \cup DOMAIN history'
        /\ records'.verification.value \in {0} \cup DOMAIN verifications'
    BY <1>1, <1>2, <1>3 DEF TaskPageTypeOK, Grown
  <2> QED BY <1>1, <1>2, <1>3, <2>1 DEF TaskPageTypeOK, Statuses, Running
<1> QED BY <1>5, <1>6, <1>7, <1>8 DEF PageInv

\* What a panel publishes, spelled out.
LEMMA Published ==
    ASSUME PageInv, NEW c \in Slots, Publish(c)
    PROVE  /\ OnlyCall(c) /\ calls'[c] = NoCall /\ calls[c].step = "reading"
           /\ calls[c].bounty # LOADING /\ calls[c].record # LOADING
           /\ UNCHANGED <<apiVars, identity, token, inputs>>
           /\ \/ /\ calls[c].bounty.status = "ready" /\ result.answer.status # "loading"
                 /\ result' \in [token: {result.token}, identity: {result.identity}, answer: Loadable]
                 /\ result'.answer.status = result.answer.status
                 /\ result'.answer.value = calls[c].bounty.value
              \/ /\ ~(calls[c].bounty.status = "ready" /\ result.answer.status # "loading")
                 /\ result' = result
           /\ \/ /\ calls[c].record.value # 0 /\ records.verification # LOADING
                 /\ records' \in [token: {records.token}, verification: Loadable]
                 /\ records'.verification = calls[c].record
              \/ /\ ~(calls[c].record.value # 0 /\ records.verification # LOADING)
                 /\ records' = records
           /\ reloadToken' = IF calls[c].kind = "submit" /\ calls[c].bounty.status # "ready"
                             THEN reloadToken + 1 ELSE reloadToken
           /\ late' = (late \/ panel.running # c \/ Running # {c} \/ loads # {} \/ workLoads # {})
           /\ LoadEffect(loads) /\ WorkEffect(workLoads)
           /\ Rerender(IF panel.running = c /\ calls[c].kind # "submit"
                       THEN [running |-> 0,
                             error |-> calls[c].failed \/ calls[c].bounty.status # "ready"]
                       ELSE panel)
<1>1. /\ TaskPageTypeOK /\ Version(calls[c].bounty) /\ Verdict(calls[c].record)
  BY DEF PageInv, AnswersAreOfTheTask
<1>2. OnlyCall(c) /\ calls'[c] = NoCall
  BY CallEnds DEF Publish
<1>3. \/ /\ calls[c].bounty.status = "ready" /\ result.answer.status # "loading"
         /\ result' \in [token: {result.token}, identity: {result.identity}, answer: Loadable]
         /\ result'.answer.status = result.answer.status
         /\ result'.answer.value = calls[c].bounty.value
      \/ /\ ~(calls[c].bounty.status = "ready" /\ result.answer.status # "loading")
         /\ result' = result
  <2>1. CASE calls[c].bounty.status = "ready" /\ result.answer.status # "loading"
    <3>1. result' = [result EXCEPT !.answer.value = calls[c].bounty.value]
      BY <2>1 DEF Publish
    <3>2. result \in [token: Nat, identity: Identities, answer: Loadable]
      BY <1>1 DEF TaskPageTypeOK
    <3>3. calls[c].bounty.value \in Nat
      BY <1>1 DEF Version, Loadable
    <3>4. result' = [result EXCEPT !.answer = [result.answer EXCEPT !.value = calls[c].bounty.value]]
      BY <3>1, <3>2
    <3>5. [result.answer EXCEPT !.value = calls[c].bounty.value] \in Loadable
      BY <3>2, <3>3 DEF Loadable
    <3>6. /\ [result.answer EXCEPT !.value = calls[c].bounty.value].status = result.answer.status
          /\ [result.answer EXCEPT !.value = calls[c].bounty.value].value = calls[c].bounty.value
      BY <3>2 DEF Loadable
    <3> QED BY <2>1, <3>2, <3>4, <3>5, <3>6
  <2>2. CASE ~(calls[c].bounty.status = "ready" /\ result.answer.status # "loading")
    BY <2>2 DEF Publish
  <2> QED BY <2>1, <2>2
<1>4. \/ /\ calls[c].record.value # 0 /\ records.verification # LOADING
         /\ records' \in [token: {records.token}, verification: Loadable]
         /\ records'.verification = calls[c].record
      \/ /\ ~(calls[c].record.value # 0 /\ records.verification # LOADING)
         /\ records' = records
  <2>1. CASE calls[c].record.value # 0 /\ records.verification # LOADING
    <3>1. records' = [records EXCEPT !.verification = calls[c].record]
      BY <2>1 DEF Publish
    <3>2. records \in [token: Int, verification: Loadable] /\ calls[c].record \in Loadable
      BY <1>1 DEF TaskPageTypeOK, Verdict
    <3> QED BY <2>1, <3>1, <3>2
  <2>2. CASE ~(calls[c].record.value # 0 /\ records.verification # LOADING)
    BY <2>2 DEF Publish
  <2> QED BY <2>1, <2>2
<1>5. /\ calls[c].step = "reading" /\ calls[c].bounty # LOADING /\ calls[c].record # LOADING
      /\ UNCHANGED <<apiVars, identity, token, inputs>>
      /\ late' = (late \/ panel.running # c \/ Running # {c} \/ loads # {} \/ workLoads # {})
      /\ LoadEffect(loads) /\ WorkEffect(workLoads)
      /\ reloadToken' = IF calls[c].kind = "submit" /\ calls[c].bounty.status # "ready"
                        THEN reloadToken + 1 ELSE reloadToken
  BY DEF Publish
<1>6. Rerender(IF panel.running = c /\ calls[c].kind # "submit"
               THEN [running |-> 0, error |-> calls[c].failed \/ calls[c].bounty.status # "ready"]
               ELSE panel)
  BY DEF Publish
<1> QED BY <1>2, <1>3, <1>4, <1>5, <1>6

\* "Este panel desaparece": a submission that was read again, or could not be,
\* takes its panel off the page.
LEMMA SubmissionLeaves ==
    ASSUME PageInv, NEW c \in Slots, Publish(c), panel.running = c, calls[c].kind = "submit"
    PROVE  Mounted = "submission" /\ Mounted' # "submission"
<1>1. /\ Mounted = "submission" /\ CallInOrder(c) /\ Version(calls[c].bounty)
      /\ c # 0 /\ TaskPageTypeOK
  BY DEF PageInv, PanelOfItsCall, AnswersAreOfTheTask, Slots
<1>2. Settled /\ result.answer.status = "ready" /\ calls[c].step = "reading"
  BY <1>1, MountedIsReady, Published
<1>3. result.token = reloadToken /\ result.identity = identity /\ reloadToken \in Nat
  BY <1>1, <1>2 DEF Settled, TaskPageTypeOK
<1>4. identity' = identity /\ history' = history
  BY Published DEF apiVars
<1>5. CASE calls[c].bounty.status = "ready"
  <2>1. /\ result'.answer.value = calls[c].bounty.value /\ result'.answer.status = "ready"
        /\ result'.token = result.token /\ result'.identity = result.identity
    BY <1>2, <1>5, Published
  <2>2. reloadToken' = reloadToken
    BY <1>5, Published
  <2>3. Settled' /\ PageState' = "ready" /\ Bounty' = calls[c].bounty.value
    BY <1>3, <1>4, <2>1, <2>2 DEF Settled, PageState, Bounty
  <2>4. calls[c].bounty.value # 0 /\ calls[c].bounty.value \in DOMAIN history
    BY <1>1, <1>5 DEF Version
  <2>5. history[calls[c].bounty.value] \in SUBMITTED_STATUSES
    BY <1>1, <1>2, <2>4, Versions DEF CallInOrder, Statuses
  <2>6. Enabled'
    BY <1>4, <2>3, <2>4, <2>5 DEF Enabled
  <2> QED BY <1>1, <2>3, <2>6 DEF Mounted
<1>6. CASE calls[c].bounty.status # "ready"
  <2>1. result' = result /\ reloadToken' = reloadToken + 1
    BY <1>6, Published
  <2>2. PageState' = "loading"
    BY <1>3, <2>1 DEF PageState, Settled
  <2> QED BY <1>1, <2>2 DEF Mounted
<1> QED BY <1>5, <1>6

LEMMA PublishKeeps ==
    ASSUME PageInv, NEW c \in Slots, Publish(c)
    PROVE  PageInv'
<1> DEFINE next == IF panel.running = c /\ calls[c].kind # "submit"
                   THEN [running |-> 0,
                         error |-> calls[c].failed \/ calls[c].bounty.status # "ready"]
                   ELSE panel
<1>1. /\ TaskPageTypeOK /\ AnswersAreOfTheTask
      /\ UNCHANGED <<apiVars, token>> /\ UNCHANGED <<history, verifications>>
      /\ identity' = identity /\ inputs' = inputs
      /\ LoadEffect(loads) /\ WorkEffect(workLoads) /\ Rerender(next)
      /\ OnlyCall(c) /\ calls'[c] = NoCall
  BY Published DEF PageInv, apiVars
<1>2. Version(calls[c].bounty) /\ Verdict(calls[c].record)
  BY <1>1 DEF AnswersAreOfTheTask
<1>3. /\ result' \in [token: Nat, identity: Identities, answer: Loadable]
      /\ Version(result.answer)'
  <2>1. CASE result' = result
    BY <1>1, <2>1 DEF AnswersAreOfTheTask, Version, TaskPageTypeOK
  <2>2. CASE /\ calls[c].bounty.status = "ready"
             /\ result' \in [token: {result.token}, identity: {result.identity}, answer: Loadable]
             /\ result'.answer.value = calls[c].bounty.value
    BY <1>1, <1>2, <2>2 DEF Version, TaskPageTypeOK
  <2> QED BY <2>1, <2>2, Published
<1>4. records' \in [token: Int, verification: Loadable] /\ Verdict(records.verification)'
  <2>1. CASE records' = records
    BY <1>1, <2>1 DEF Verdict, TaskPageTypeOK
  <2>2. CASE /\ records' \in [token: {records.token}, verification: Loadable]
             /\ records'.verification = calls[c].record
    BY <1>1, <1>2, <2>2 DEF Verdict, TaskPageTypeOK
  <2> QED BY <2>1, <2>2, Published
<1>5. reloadToken' \in Nat /\ late' \in BOOLEAN /\ identity' \in Identities
  <2>1. reloadToken' \in {reloadToken, reloadToken + 1}
    BY Published
  <2>2. late' = (late \/ panel.running # c \/ Running # {c} \/ loads # {} \/ workLoads # {})
    BY DEF Publish
  <2>3. late' \in BOOLEAN
    BY <1>1, <2>2 DEF TaskPageTypeOK
  <2> QED BY <1>1, <2>1, <2>3 DEF TaskPageTypeOK
<1>6. inputs' \in 0..MaxInputs /\ inputs <= inputs'
  BY <1>1 DEF TaskPageTypeOK
<1>7. calls' \in [Slots -> Call] /\ \A d \in Slots : calls'[d] \in {calls[d], NoCall}
  BY <1>1 DEF OnlyCall
<1>8. next \in [running: {0} \cup Slots, error: BOOLEAN]
  <2>1. calls[c] \in Call
    BY <1>1 DEF TaskPageTypeOK
  <2> QED BY <1>1, <2>1 DEF TaskPageTypeOK, Call
<1>9. ASSUME Mounted' = Mounted, next.running # 0
      PROVE  /\ next.running = panel.running
             /\ calls'[next.running] = calls[next.running]
  <2>1. next = panel /\ panel.running # 0
    BY <1>9
  <2>2. panel.running # c
    BY <1>9, <2>1, SubmissionLeaves
  <2> QED BY <1>1, <2>1, <2>2 DEF TaskPageTypeOK, OnlyCall
<1> HIDE DEF next
<1> QED BY <1>1, <1>3, <1>4, <1>5, <1>6, <1>7, <1>8, <1>9, RenderKeeps

LEMMA PageStep == PageInv /\ [TaskPageNext]_vars => PageInv'
<1> SUFFICES ASSUME PageInv, [TaskPageNext]_vars PROVE PageInv'
  OBVIOUS
<1>1. CASE \E load \in loads : ServeLoad(load) \/ PublishLoad(load)
  BY <1>1, ServeLoadKeeps, PublishLoadKeeps
<1>2. CASE \E load \in workLoads : ServeWork(load) \/ PublishWork(load)
  BY <1>2, ServeWorkKeeps, PublishWorkKeeps
<1>3. CASE SwitchIdentity \/ ReloadPage \/ ReloadWork
  BY <1>3, SwitchIdentityKeeps, ReloadWorkKeeps
<1>4. CASE SubmitPullRequest \/ RunVerification \/ RefreshStatus
  BY <1>4, ButtonKeeps
<1>5. ASSUME NEW c \in Slots, CallStep(c)
      PROVE  PageInv'
  <2>1. CASE RegisterSubmission(c) \/ Pay(c) \/ FailUpstream(c) \/ Refuse(c)
    BY <2>1, SubmissionKeeps, PayKeeps, FailUpstreamKeeps, RefuseKeeps
  <2>2. CASE \E verdict \in Results : StoreVerdict(c, verdict)
    BY <2>2, StoreVerdictKeeps
  <2>3. CASE ReadBounty(c) \/ ReadRecord(c) \/ Publish(c)
    BY <2>3, ReadBountyKeeps, ReadRecordKeeps, PublishKeeps
  <2> QED BY <1>5, <2>1, <2>2, <2>3 DEF CallStep
<1>6. CASE \E verdict \in Results : VerifyElsewhere(verdict)
  BY <1>6, VerifyElsewhereKeeps
<1>7. CASE UNCHANGED vars
  <2>1. /\ UNCHANGED <<apiVars, identity, reloadToken, result, panelVars>>
        /\ UNCHANGED <<loads, token, records, workLoads, late, inputs, history, verifications>>
    BY <1>7 DEF vars, pageVars, workVars, apiVars
  <2>2. /\ \A load \in loads' : Version(load.answer)'
        /\ \A load \in workLoads' : Verdict(load.verification)'
        /\ Verdict(records.verification)'
    BY <2>1 DEF PageInv, AnswersAreOfTheTask, Version, Verdict, TaskPageTypeOK
  <2>3. inputs' \in 0..MaxInputs /\ inputs <= inputs'
    BY <2>1 DEF PageInv, TaskPageTypeOK
  <2> QED BY <2>1, <2>2, <2>3, DataKeeps DEF PageInv, TaskPageTypeOK, OneRequestEach
<1> QED
  BY <1>1, <1>2, <1>3, <1>4, <1>5, <1>6, <1>7 DEF TaskPageNext, Answer

THEOREM PageIsInvariant == TaskPageSpec => []PageInv
<1> QED BY InitialPage, PageStep, PTL DEF TaskPageSpec

\* Every reachable state of page, panels, calls and API is well typed; in particular
\* a panel is busy only while its function runs.
THEOREM TaskPageTypeCorrect == TaskPageSpec => []TaskPageTypeOK
<1>1. PageInv => TaskPageTypeOK
  BY DEF PageInv
<1> QED BY <1>1, PageIsInvariant, PTL

-----------------------------------------------------------------------------
(* Nothing on the page goes back. *)

\* Unless answers have crossed, what is due or held by a call is not older than what
\* is on the screen.
NothingOlder ==
    ~late =>
        /\ \A load \in loads :
                load.answer.value # 0 => load.answer.value >= result.answer.value
        /\ \A load \in workLoads : load.verification.status = "ready" =>
                load.verification.value >= records.verification.value
        /\ \A c \in Slots :
            /\ calls[c].bounty.value # 0 => calls[c].bounty.value >= result.answer.value
            /\ calls[c].record.value # 0 =>
                    calls[c].record.value >= records.verification.value

\* AnswersDoNotGoBack, of one step.
NotBack ==
    late' \/ (/\ result'.answer.value # 0 => result'.answer.value >= result.answer.value
              /\ {records.verification.status, records'.verification.status} = {"ready"} =>
                    records'.verification.value >= records.verification.value)

\* All that was read is of versions and verifications there are.
LEMMA ReadValues ==
    ASSUME PageInv
    PROVE  /\ Len(history) \in Nat \ {0} /\ Latest \in Nat
           /\ result.answer.value \in 0..Len(history)
           /\ records.verification.value \in 0..Latest
           /\ \A load \in loads : load.answer.value \in 0..Len(history)
           /\ \A load \in workLoads : load.verification.value \in 0..Latest
           /\ \A c \in Slots : /\ calls[c].bounty.value \in 0..Len(history)
                               /\ calls[c].record.value \in 0..Latest
<1>1. /\ {0} \cup DOMAIN history = 0..Len(history) /\ {0} \cup DOMAIN verifications = 0..Latest
      /\ Len(history) \in Nat \ {0} /\ Latest \in Nat
  BY Versions DEF PageInv
<1> QED BY <1>1 DEF PageInv, AnswersAreOfTheTask, Version, Verdict, TaskPageTypeOK

\* What a call reads or stores is the newest there is; one that ends holds nothing.
LEMMA CallsReadNewest ==
    ASSUME PageInv, NEW c \in Slots, CallStep(c), ~Publish(c)
    PROVE  /\ OnlyCall(c)
           /\ UNCHANGED <<identity, reloadToken, result, loads, token, records, workLoads, late,
                          inputs>>
           /\ calls'[c].bounty.value \in {0, calls[c].bounty.value, Len(history)}
           /\ calls'[c].record.value \in {0, calls[c].record.value, Latest, Latest + 1}
<1>1. /\ LOADING.value = 0 /\ Missing("error").value = 0 /\ NoCall.bounty = LOADING
      /\ NoCall.record = LOADING /\ Ready(0).value = 0 /\ Ready(Latest).value = Latest
      /\ Ready(Latest + 1).value = Latest + 1 /\ Ready(Len(history)).value = Len(history)
  BY DEF LOADING, Missing, NoCall, Ready
<1>2. CASE RegisterSubmission(c)
  BY <1>1, <1>2, CallSteps, ServedLeaves DEF RegisterSubmission, Becomes
<1>3. ASSUME NEW verdict \in Results, StoreVerdict(c, verdict)
      PROVE  /\ OnlyCall(c)
             /\ UNCHANGED <<identity, reloadToken, result, loads, token, records, workLoads, late,
                            inputs>>
             /\ calls'[c].bounty.value \in {0, calls[c].bounty.value, Len(history)}
             /\ calls'[c].record.value \in {0, calls[c].record.value, Latest, Latest + 1}
  BY <1>1, <1>3, CallSteps, ServedLeaves DEF StoreVerdict, Becomes
<1>4. CASE Pay(c)
  BY <1>1, <1>4, CallSteps, ServedLeaves DEF Pay, Becomes
<1>5. CASE FailUpstream(c)
  BY <1>1, <1>5, CallSteps, ServedLeaves DEF FailUpstream, Becomes
<1>6. CASE Refuse(c)
  BY <1>1, <1>6, CallEnds DEF Refuse, pageVars, workVars
<1>7. CASE ReadBounty(c)
  BY <1>1, <1>7, CallSteps, ServedLeaves DEF ReadBounty, Becomes
<1>8. CASE ReadRecord(c)
  BY <1>1, <1>8, CallSteps, ServedLeaves DEF ReadRecord, Becomes
<1> QED BY <1>2, <1>3, <1>4, <1>5, <1>6, <1>7, <1>8 DEF CallStep

\* The requests an effect sends have no answer yet.
LEMMA NewRequests ==
    ASSUME NEW due
    PROVE  /\ LoadEffect(due) => \A load \in loads' : load \in due \/ load.answer.value = 0
           /\ WorkEffect(due) => \A load \in workLoads' :
                load \in due \/ load.verification = LOADING
           /\ UNCHANGED <<reloadToken, identity>> /\ LoadEffect(due) => loads' = due
  BY DEF LoadEffect, WorkEffect, AskBounty, AskWork, LOADING

\* What is on the screen changes only when nothing is due but what is published.
LEMMA ScreenChanges ==
    ASSUME PageInv, ~late',
           \/ \E load \in loads : PublishLoad(load)
           \/ \E load \in workLoads : PublishWork(load)
           \/ \E c \in Slots : Publish(c)
    PROVE  ~late /\ \A c \in Slots : calls'[c] = NoCall
<1>1. \A c \in Slots : c \notin Running => calls[c] = NoCall
  BY DEF PageInv, CallInOrder, Running
<1>2. CASE \E load \in loads : PublishLoad(load)
  BY <1>1, <1>2 DEF PublishLoad
<1>3. CASE \E load \in workLoads : PublishWork(load)
  BY <1>1, <1>3 DEF PublishWork, panelVars
<1>4. ASSUME NEW c \in Slots, Publish(c)
      PROVE  ~late /\ \A d \in Slots : calls'[d] = NoCall
  <2>1. OnlyCall(c) /\ calls'[c] = NoCall /\ ~late /\ Running = {c}
    BY <1>4, Published
  <2> QED BY <1>1, <2>1 DEF OnlyCall
<1> QED BY <1>2, <1>3, <1>4

LEMMA NothingOlderStep ==
    ASSUME PageInv, NothingOlder, [TaskPageNext]_vars
    PROVE  NothingOlder' /\ (NotBack \/ UNCHANGED vars)
<1> SUFFICES ASSUME ~late' PROVE NothingOlder' /\ NotBack
  BY DEF NothingOlder, NotBack
<1>1. LOADING.value = 0 /\ LOADING.status = "loading" /\ NoCall.bounty.value = 0 /\ NoCall.record.value = 0
  BY DEF LOADING, NoCall
<1>2. ASSUME NEW load \in loads, ServeLoad(load)
      PROVE  NothingOlder' /\ NotBack
  <2>1. /\ UNCHANGED <<result, workLoads, records, calls, late>>
        /\ \A l \in loads' : l \in loads \/ l.answer.value \in {0, Len(history)}
    <3>1. PICK answer \in {Missing("error"), IF CanRead(load.identity)
                                            THEN Ready(Len(history)) ELSE Missing("not-found")} :
              loads' = (loads \ {load}) \cup {[load EXCEPT !.answer = answer]}
      BY <1>2 DEF ServeLoad
    <3>2. answer.value \in {0, Len(history)}
      BY <3>1 DEF Missing, Ready
    <3>3. load \in [token: Nat, identity: Identities, answer: Loadable]
      BY DEF PageInv, TaskPageTypeOK
    <3>4. [load EXCEPT !.answer = answer].answer = answer
      BY <3>3
    <3> QED BY <1>2, <3>1, <3>2, <3>4 DEF ServeLoad, workVars, panelVars
  <2> QED BY <2>1, ReadValues DEF NothingOlder, NotBack
<1>3. ASSUME NEW load \in workLoads, ServeWork(load)
      PROVE  NothingOlder' /\ NotBack
  <2>1. /\ UNCHANGED <<result, loads, records, calls, late>>
        /\ \A l \in workLoads' : \/ l \in workLoads \/ l.verification.value = Latest
                                 \/ l.verification.status # "ready"
    <3>1. PICK verification \in {Ready(Latest), Missing("error")} :
              workLoads' = (workLoads \ {load}) \cup {[load EXCEPT !.verification = verification]}
      BY <1>3 DEF ServeWork
    <3>2. verification.value = Latest \/ verification.status # "ready"
      BY <3>1 DEF Missing, Ready
    <3>3. load \in [token: Nat, verification: Loadable]
      BY DEF PageInv, TaskPageTypeOK
    <3>4. [load EXCEPT !.verification = verification].verification = verification
      BY <3>3
    <3> QED BY <1>3, <3>1, <3>2, <3>4 DEF ServeWork, pageVars, panelVars
  <2> QED BY <2>1, ReadValues DEF NothingOlder, NotBack
<1>4. ASSUME NEW load \in loads, PublishLoad(load)
      PROVE  NothingOlder' /\ NotBack
  <2>1. /\ ~late /\ \A c \in Slots : calls'[c] = NoCall
    BY <1>4, ScreenChanges
  <2>2. /\ result' = load /\ records' = records /\ WorkEffect(workLoads)
        /\ LoadEffect(loads \ {load}) /\ UNCHANGED <<reloadToken, identity>>
    BY <1>4 DEF PublishLoad
  <2>3. loads' = {}
    BY <2>2, NewRequests DEF PageInv, OneRequestEach
  <2>4. \A l \in workLoads' : l \in workLoads \/ l.verification.status # "ready"
    BY <1>1, <2>2, NewRequests
  <2> QED BY <1>1, <2>1, <2>2, <2>3, <2>4, ReadValues DEF NothingOlder, NotBack
<1>5. ASSUME NEW load \in workLoads, PublishWork(load)
      PROVE  NothingOlder' /\ NotBack
  <2>1. /\ ~late /\ \A c \in Slots : calls'[c] = NoCall
    BY <1>5, ScreenChanges
  <2>2. /\ result' = result /\ records' = load /\ loads' = loads /\ workLoads' = {}
    BY <1>5 DEF PublishWork, pageVars, PageInv, OneRequestEach
  <2>3. load.verification.status = "ready" =>
            load.verification.value >= records.verification.value
    BY <2>1 DEF NothingOlder
  <2>4. NothingOlder'
    BY <1>1, <2>1, <2>2, ReadValues DEF NothingOlder
  <2>5. result'.answer.value >= result.answer.value
    BY <2>2, ReadValues
  <2>6. records'.verification.status = "ready" =>
            records'.verification.value >= records.verification.value
    BY <2>2, <2>3
  <2>7. NotBack
    BY <2>5, <2>6 DEF NotBack
  <2> QED BY <2>4, <2>7
<1>6. CASE SwitchIdentity \/ ReloadPage \/ ReloadWork
  <2>1. /\ UNCHANGED <<result, records, calls, late>> /\ WorkEffect(workLoads)
        /\ LoadEffect(loads) \/ loads' = loads
    BY <1>6 DEF SwitchIdentity, ReloadPage, ReloadWork, pageVars, panelVars
  <2>2. /\ \A l \in workLoads' : l \in workLoads \/ l.verification.status # "ready"
        /\ \A l \in loads' : l \in loads \/ l.answer.value = 0
    BY <1>1, <2>1, NewRequests
  <2> QED BY <2>1, <2>2, ReadValues DEF NothingOlder, NotBack
<1>7. CASE SubmitPullRequest \/ RunVerification \/ RefreshStatus
  <2>1. PICK call \in Call : StartCall(call) /\ call.bounty.value = 0 /\ call.record.value = 0
    BY <1>1, <1>7, NewCalls DEF Ready
  <2>2. /\ UNCHANGED <<result, records, loads, workLoads, late>>
        /\ calls' = [calls EXCEPT ![inputs'] = call]
    BY <2>1 DEF StartCall, pageVars, workVars
  <2>3. \A c \in Slots : calls'[c] \in {calls[c], call}
    BY <2>2 DEF PageInv, TaskPageTypeOK
  <2> QED BY <2>1, <2>2, <2>3, ReadValues DEF NothingOlder, NotBack
<1>8. ASSUME NEW c \in Slots, CallStep(c), ~Publish(c)
      PROVE  NothingOlder' /\ NotBack
  <2>1. /\ UNCHANGED <<result, loads, records, workLoads, late>>
        /\ calls'[c].bounty.value \in {0, calls[c].bounty.value, Len(history)}
        /\ calls'[c].record.value \in {0, calls[c].record.value, Latest, Latest + 1}
        /\ \A d \in Slots \ {c} : calls'[d] = calls[d]
    BY <1>8, CallsReadNewest DEF OnlyCall
  <2> QED BY <2>1, ReadValues DEF NothingOlder, NotBack
<1>9. ASSUME NEW c \in Slots, Publish(c)
      PROVE  NothingOlder' /\ NotBack
  <2>1. ~late /\ \A d \in Slots : calls'[d] = NoCall
    BY <1>9, ScreenChanges
  <2>2. loads = {} /\ workLoads = {} /\ LoadEffect(loads) /\ WorkEffect(workLoads)
    BY <1>9, Published
  <2>3. /\ \A l \in workLoads' : l.verification.status # "ready"
        /\ \A l \in loads' : l.answer.value = 0
    BY <1>1, <2>2, NewRequests
  <2>4. \/ result'.answer.value = calls[c].bounty.value
        \/ result' = result
    BY <1>9, Published
  <2>5. \/ records'.verification = calls[c].record /\ calls[c].record.value # 0
        \/ records' = records
    BY <1>9, Published
  <2> QED BY <1>1, <2>1, <2>3, <2>4, <2>5, ReadValues DEF NothingOlder, NotBack
<1>10. CASE \E verdict \in Results : VerifyElsewhere(verdict)
  <2>1. UNCHANGED <<result, loads, records, workLoads, late, calls>>
    BY <1>10, ServedLeaves DEF VerifyElsewhere, Served
  <2> QED BY <2>1, ReadValues DEF NothingOlder, NotBack
<1>11. CASE UNCHANGED vars
  <2>1. UNCHANGED <<result, loads, records, workLoads, late, calls>>
    BY <1>11 DEF vars, pageVars, workVars, panelVars
  <2> QED BY <2>1, ReadValues DEF NothingOlder, NotBack
<1> QED
  BY <1>2, <1>3, <1>4, <1>5, <1>6, <1>7, <1>8, <1>9, <1>10, <1>11 DEF TaskPageNext, Answer

\* For any number of reloads, failed reads, sign-ins and verifications: the task and
\* the verification on the page are replaced by newer ones, or as late answers.
THEOREM NewerAnswersOnly == TaskPageSpec => AnswersDoNotGoBack
<1>1. TaskPageInit => NothingOlder
  BY DEF TaskPageInit, NothingOlder, AskBounty, NoCall, LOADING
<1>2. TaskPageSpec => []NothingOlder
  BY <1>1, NothingOlderStep, PageIsInvariant, PTL DEF TaskPageSpec
<1>3. PageInv /\ NothingOlder /\ [TaskPageNext]_vars => [NotBack]_vars
  BY NothingOlderStep
<1>4. TaskPageSpec => [][NotBack]_vars
  BY <1>2, <1>3, PageIsInvariant, PTL DEF TaskPageSpec
<1> QED BY <1>4, PTL DEF AnswersDoNotGoBack, NotBack

-----------------------------------------------------------------------------
(* A stored PASS is explained.                                              *)
(*                                                                          *)
(* The page shows a PASS beside a task that did not move on only while the  *)
(* task is about to be read again.  Read the other way round: whatever the  *)
(* page holds, or is about to hold, of the task has followed the newest     *)
(* verification if that one passed, or an error, a busy panel or a load of  *)
(* the page says that it has not.                                           *)

\* Nobody verified from elsewhere, and no answers crossed.
Undisturbed == ~late /\ ~othersVerified

IsPass(r) == r # 0 /\ verifications[r] = "PASS"
MovedOn(v) == history[v] \in {"ELIGIBLE", "PAID"}
Follows(v) == IsPass(Latest) => MovedOn(v)

\* The row follows the newest verification.
RowFollows == Follows(Len(history))

\* A function whose panel has left the page runs only until the page is loaded again.
LeftWhileLoading == \A c \in Running : panel.running # c => loads # {}

PageFollows ==
    Mounted = "verification" =>
        Follows(Bounty) \/ panel.error \/ panel.running # 0 \/ loads # {}

LoadsFollow ==
    \A load \in loads : load.answer.value # 0 =>
        \/ Follows(load.answer.value)
        \/ Mounted = "verification" /\ (panel.error \/ panel.running # 0)

\* What the function of the panel holds is the newest, or a function that will
\* be late has changed it since.
PanelReadsNewest ==
    panel.running # 0 =>
        /\ calls[panel.running].record.value \in {0, Latest}
        /\ \/ calls[panel.running].bounty.value \in {0, Len(history)}
           \/ \E c \in Slots \ {panel.running} : calls[c].step = "reading"

Reporting(c) ==
    /\ calls[c].kind = "verify" /\ calls[c].step = "reading" /\ ~calls[c].failed
    /\ calls[c].record = Ready(Latest)

\* A PASS on the page, or on its way, is the newest, or a newer one is coming.
PassesAreReplaced ==
    \A answer \in {records.verification} \cup {load.verification : load \in workLoads} :
        IsPass(answer.value) => IsPass(Latest) \/ \E c \in Slots : Reporting(c)

\* No verification runs that a PASS on the page, beside a task that did not move
\* on, would not have offered.
NoneBesidePass ==
    \A c \in Running : calls[c].kind = "verify" /\ result.answer.value # 0 =>
        MovedOn(result.answer.value) \/ ~IsPass(records.verification.value)

PassInv ==
    /\ RowFollows
    /\ Undisturbed =>
        /\ LeftWhileLoading /\ PageFollows /\ LoadsFollow
        /\ PanelReadsNewest /\ PassesAreReplaced /\ NoneBesidePass

\* What is known of an older version or verification stays.
LEMMA OlderKept ==
    ASSUME PageInv, Grown
    PROVE  /\ \A v \in 1..Len(history) :
                history'[v] = history[v] /\ (history'[v] \in {"ELIGIBLE", "PAID"} <=> MovedOn(v))
           /\ \A r \in 1..Latest : verifications'[r] = verifications[r]
  BY Versions DEF PageInv, Grown, MovedOn

\* A PASS leaves the page by its own explanation.
LEMMA PassInvExplains == PageInv /\ PassInv => PassIsExplained
<1> SUFFICES ASSUME PageInv, PassInv, Undisturbed, Mounted = "verification", View = "PASS",
                    ~panel.error, panel.running = 0, loads = {}
             PROVE  FALSE
  BY DEF PassIsExplained, PageReading, Undisturbed
<1>1. Bounty = result.answer.value /\ Bounty \in DOMAIN history /\ Bounty # 0
  BY MountedIsReady, Versions DEF PageInv
<1>2. ~MovedOn(Bounty) /\ IsPass(LatestVerification.value)
  BY DEF View, MovedOn, IsPass
<1>3. IsPass(records.verification.value)
  BY <1>2 DEF LatestVerification, LOADING, IsPass
<1>4. Follows(Bounty) /\ PassesAreReplaced /\ NoneBesidePass
  BY DEF PassInv, PageFollows
<1>5. PICK c \in Slots : Reporting(c)
  BY <1>2, <1>3, <1>4 DEF Follows, PassesAreReplaced
<1>6. c \in Running /\ calls[c].kind = "verify"
  BY <1>5 DEF Running, Reporting
<1> QED BY <1>1, <1>2, <1>3, <1>4, <1>6 DEF NoneBesidePass

LEMMA InitialPass == TaskPageInit => PassInv
  BY DEF TaskPageInit, PassInv, RowFollows, Follows, IsPass, Latest, LeftWhileLoading, PageFollows,
         LoadsFollow, PanelReadsNewest, PassesAreReplaced, NoneBesidePass, Running, NoCall, LOADING,
         AskBounty, FreshPanel

\* Row, verifications, page and panel stay, and what is newly on its way is the newest.
LEMMA DataKeepsPass ==
    ASSUME PageInv, PassInv, UNCHANGED <<apiVars, identity, reloadToken, result, panelVars>>,
           late \/ Running # {} => late' \/ records' = records,
           late => late',
           loads # {} => loads' # {},
           \A load \in loads' : load \in loads \/ load.answer.value \in {0, Len(history)},
           \A answer \in {records'.verification} \cup {load.verification : load \in workLoads'} :
              \/ answer.value \in {0, Latest}
              \/ answer \in {records.verification} \cup {load.verification : load \in workLoads}
    PROVE  PassInv'
<1>1. /\ history' = history /\ verifications' = verifications /\ panel' = panel /\ calls' = calls
      /\ othersVerified' = othersVerified /\ Mounted' = Mounted /\ Bounty' = Bounty
      /\ Latest' = Latest /\ Running' = Running
  BY ScreenKept DEF apiVars, panelVars, Grown, Latest, Running
<1>2. RowFollows'
  BY <1>1 DEF PassInv, RowFollows, Follows, IsPass, MovedOn
<1> SUFFICES ASSUME Undisturbed'
             PROVE  /\ LeftWhileLoading' /\ PageFollows' /\ LoadsFollow'
                    /\ PanelReadsNewest' /\ PassesAreReplaced' /\ NoneBesidePass'
  BY <1>2 DEF PassInv
<1>3. Undisturbed /\ RowFollows /\ (Running # {} => records' = records)
  BY <1>1 DEF Undisturbed, PassInv
<1>4. LeftWhileLoading'
  BY <1>1, <1>3 DEF PassInv, LeftWhileLoading
<1>5. PageFollows'
  BY <1>1, <1>3 DEF PassInv, PageFollows, Follows, IsPass, MovedOn
<1>6. LoadsFollow'
  BY <1>1, <1>3 DEF PassInv, LoadsFollow, RowFollows, Follows, IsPass, MovedOn
<1>7. PanelReadsNewest'
  BY <1>1, <1>3 DEF PassInv, PanelReadsNewest
<1>8. PassesAreReplaced'
  BY <1>1, <1>3 DEF PassInv, PassesAreReplaced, IsPass, Reporting
<1>9. NoneBesidePass'
  BY <1>1, <1>3 DEF PassInv, NoneBesidePass, IsPass, MovedOn
<1> QED BY <1>4, <1>5, <1>6, <1>7, <1>8, <1>9

\* The page is loaded again: for another reader, or by "Try again".
LEMMA ReloadKeepsPass ==
    ASSUME PageInv, PassInv, SwitchIdentity \/ ReloadPage
    PROVE  PassInv'
<1>1. /\ UNCHANGED <<apiVars, result, records, calls, late>>
      /\ LoadEffect(loads) /\ WorkEffect(workLoads) /\ Rerender(panel)
      /\ <<reloadToken, identity>>' # <<reloadToken, identity>>
  <2>1. CASE SwitchIdentity
    BY <2>1 DEF SwitchIdentity
  <2>2. CASE ReloadPage
    <3>1. reloadToken' # reloadToken
      BY <2>2 DEF ReloadPage, PageInv, TaskPageTypeOK
    <3> QED BY <2>2, <3>1 DEF ReloadPage
  <2> QED BY <2>1, <2>2
<1>2. /\ history' = history /\ verifications' = verifications /\ othersVerified' = othersVerified
      /\ Latest' = Latest /\ Running' = Running /\ LOADING.value = 0
      /\ loads' # {} /\ \A load \in loads' : load.answer = LOADING
      /\ \A load \in workLoads' : load \in workLoads \/ load.verification = LOADING
      /\ panel' = panel \/ panel'.running = 0
  <2>1. loads' = {AskBounty'}
    BY <1>1 DEF LoadEffect
  <2>2. loads' # {} /\ \A load \in loads' : load.answer = LOADING
    BY <2>1 DEF AskBounty
  <2>3. \A load \in workLoads' : load \in workLoads \/ load.verification = LOADING
    BY <1>1, NewRequests
  <2>4. panel' = panel \/ panel'.running = 0
    BY <1>1 DEF Rerender, FreshPanel
  <2> QED BY <1>1, <2>2, <2>3, <2>4 DEF apiVars, Latest, Running, LOADING
<1>3. RowFollows'
  BY <1>2 DEF PassInv, RowFollows, Follows, IsPass, MovedOn
<1> SUFFICES ASSUME Undisturbed
             PROVE  /\ LeftWhileLoading' /\ PageFollows' /\ LoadsFollow'
                    /\ PanelReadsNewest' /\ PassesAreReplaced' /\ NoneBesidePass'
  BY <1>1, <1>2, <1>3 DEF PassInv, Undisturbed
<1>4. LeftWhileLoading' /\ PageFollows' /\ LoadsFollow'
  BY <1>2 DEF LeftWhileLoading, PageFollows, LoadsFollow
<1>5. PanelReadsNewest'
  BY <1>1, <1>2 DEF PassInv, PanelReadsNewest
<1>6. PassesAreReplaced'
  <2>1. PassesAreReplaced
    BY DEF PassInv
  <2> QED BY <1>1, <1>2, <2>1 DEF PassesAreReplaced, IsPass, Reporting
<1>7. NoneBesidePass'
  BY <1>1, <1>2 DEF PassInv, NoneBesidePass, IsPass, MovedOn
<1> QED BY <1>4, <1>5, <1>6, <1>7

\* A PASS on the page beside a task that did not move on does not offer to verify.
LEMMA NotOffered ==
    ASSUME PageInv, VerificationOffered, Mounted = "verification"
    PROVE  result.answer.value # 0 /\
           (MovedOn(result.answer.value) \/ ~IsPass(records.verification.value))
<1>1. Bounty = result.answer.value /\ Bounty \in DOMAIN history /\ Bounty # 0
  BY MountedIsReady, Versions DEF PageInv
<1>2. LatestVerification = records.verification /\ View # "PASS"
  BY DEF VerificationOffered, LatestVerification, LOADING
<1>3. MovedOn(Bounty) \/ ~IsPass(records.verification.value)
  BY <1>2 DEF View, MovedOn, IsPass
<1> QED BY <1>1, <1>3

LEMMA StartKeepsPass ==
    ASSUME PageInv, PassInv, SubmitPullRequest \/ RunVerification \/ RefreshStatus
    PROVE  PassInv'
<1>1. PICK call \in Call :
        /\ StartCall(call) /\ call.bounty.value = 0 /\ call.record.value = 0
        /\ call.kind = "verify" => Mounted = "verification" /\ VerificationOffered
  BY NewCalls DEF RunVerification, LOADING, Ready
<1>2. /\ UNCHANGED <<apiVars, identity, pageVars, workVars, late>>
      /\ panel.running = 0 /\ panel'.running = inputs' /\ inputs' = inputs + 1
      /\ inputs < MaxInputs /\ calls' = [calls EXCEPT ![inputs'] = call]
  BY <1>1 DEF StartCall, Input
<1>3. /\ history' = history /\ verifications' = verifications /\ othersVerified' = othersVerified
      /\ result' = result /\ loads' = loads /\ records' = records /\ workLoads' = workLoads
      /\ reloadToken' = reloadToken /\ Latest' = Latest
  BY <1>2 DEF apiVars, pageVars, workVars, Latest
<1>4. Mounted' = Mounted /\ Bounty' = Bounty
  BY <1>2, <1>3, ScreenKept DEF Grown
<1>5. inputs' \in Slots /\ inputs' # 0 /\ inputs' > inputs
  BY <1>2, TaskPageAssumption DEF PageInv, TaskPageTypeOK, Slots
<1>6. /\ calls[inputs'].step = "idle" /\ calls'[inputs'] = call
      /\ \A c \in Slots \ {inputs'} : calls'[c] = calls[c]
  BY <1>2, <1>5 DEF PageInv, CallInOrder, TaskPageTypeOK, NoCall
<1>7. RowFollows'
  BY <1>3 DEF PassInv, RowFollows, Follows, IsPass, MovedOn
<1> SUFFICES ASSUME Undisturbed
             PROVE  /\ LeftWhileLoading' /\ PageFollows' /\ LoadsFollow'
                    /\ PanelReadsNewest' /\ PassesAreReplaced' /\ NoneBesidePass'
  BY <1>2, <1>3, <1>7 DEF PassInv, Undisturbed
<1>8. Running' \subseteq Running \cup {inputs'} /\ \A c \in Running : panel.running # c
  BY <1>2, <1>6 DEF Running, Slots
<1>9. LeftWhileLoading'
  BY <1>2, <1>3, <1>8 DEF PassInv, LeftWhileLoading
<1>10. PageFollows' /\ LoadsFollow'
  BY <1>2, <1>3, <1>4, <1>5 DEF PassInv, PageFollows, LoadsFollow, Follows, IsPass, MovedOn
<1>11. PanelReadsNewest'
  BY <1>1, <1>2, <1>6 DEF PanelReadsNewest
<1>12. PassesAreReplaced'
  <2>1. \A c \in Slots : Reporting(c) => Reporting(c)'
    BY <1>3, <1>6 DEF Reporting
  <2> QED BY <1>3, <2>1 DEF PassInv, PassesAreReplaced, IsPass
<1>13. NoneBesidePass'
  <2> SUFFICES ASSUME NEW c \in Running', calls'[c].kind = "verify", result'.answer.value # 0
               PROVE  (MovedOn(result.answer.value) \/ ~IsPass(records.verification.value))'
    BY DEF NoneBesidePass
  <2>1. MovedOn(result.answer.value) \/ ~IsPass(records.verification.value)
    <3>1. CASE c = inputs'
      BY <1>1, <1>6, <3>1, NotOffered
    <3>2. CASE c # inputs'
      BY <1>3, <1>6, <1>8, <3>2 DEF PassInv, NoneBesidePass, Running
    <3> QED BY <3>1, <3>2
  <2> QED BY <1>3, <2>1 DEF MovedOn, IsPass
<1> QED BY <1>9, <1>10, <1>11, <1>12, <1>13

\* A function goes on without a new verification: it submits, is paid, fails or reads.
LEMMA ProgressKeepsPass ==
    ASSUME PageInv, PageInv', PassInv, NEW c \in Slots, OnlyCall(c), Grown,
           UNCHANGED <<verifications, othersVerified, identity, pageVars, workVars, panel, late>>,
           calls[c].step \in {"posted", "paying", "reading"},
           calls'[c].step \in {"reading", "refused"},
           calls[c].step = "reading" => calls'[c].step = "reading",
           \/ calls'[c].step = "reading" \/ history' = history
           \/ \A d \in Slots : calls[d].bounty.value = 0,
           calls'[c].kind = calls[c].kind,
           calls[c].step = "reading" \/ calls'[c].bounty = LOADING,
           calls'[c].record.value \in {0, calls[c].record.value, Latest},
           calls[c].step = "reading" => calls'[c].bounty.value \in {calls[c].bounty.value, 0, Len(history)},
           Reporting(c) => calls'[c].record = calls[c].record /\ calls'[c].failed = calls[c].failed,
           \/ history' = history
           \/ history' = Append(history, "PAID")
           \/ history' = Append(history, "SUBMITTED") /\ Current = "ASSIGNED",
           history' = history \/ calls[c].step \in {"posted", "paying"}
    PROVE  PassInv'
<1>1. /\ result' = result /\ loads' = loads /\ records' = records /\ workLoads' = workLoads
      /\ reloadToken' = reloadToken /\ Latest' = Latest /\ LOADING.value = 0
  BY DEF pageVars, workVars, Latest, LOADING
<1>2. Mounted' = Mounted /\ Bounty' = Bounty
  BY <1>1, ScreenKept
<1>3. Running' = Running /\ c \in Running
  BY DEF Running, OnlyCall
<1>4. RowFollows'
  <2>1. CASE history' = history
    BY <1>1, <2>1 DEF PassInv, RowFollows, Follows, IsPass, MovedOn
  <2>2. CASE history' = Append(history, "PAID")
    <3>1. "PAID" \in SUBMITTED_STATUSES
      BY DEF SUBMITTED_STATUSES
    <3>2. Current' = "PAID"
      BY <2>2, <3>1, RowGrows DEF PageInv
    <3> QED BY <3>2 DEF RowFollows, Follows, MovedOn, Current
  <2>3. CASE history' = Append(history, "SUBMITTED") /\ Current = "ASSIGNED"
    <3>1. ~IsPass(Latest)
      BY <2>3 DEF PassInv, RowFollows, Follows, MovedOn, Current
    <3> QED BY <1>1, <3>1 DEF RowFollows, Follows, IsPass
  <2> QED BY <2>1, <2>2, <2>3
<1>5. \A v \in DOMAIN history : Follows(v) => Follows(v)'
  BY <1>1 DEF Grown, Follows, IsPass, MovedOn
<1> SUFFICES ASSUME Undisturbed
             PROVE  /\ LeftWhileLoading' /\ PageFollows' /\ LoadsFollow'
                    /\ PanelReadsNewest' /\ PassesAreReplaced' /\ NoneBesidePass'
  BY <1>4 DEF PassInv, Undisturbed
<1>6. LeftWhileLoading'
  BY <1>1, <1>3 DEF PassInv, LeftWhileLoading
<1>7. PageFollows'
  <2>1. Mounted = "verification" => Bounty \in DOMAIN history
    BY MountedIsReady
  <2>2. Mounted = "verification" => (Follows(Bounty) => Follows(Bounty)')
    BY <1>1, <1>2, <2>1 DEF Grown, Follows, IsPass, MovedOn
  <2> QED BY <1>1, <1>2, <2>2 DEF PassInv, PageFollows
<1>8. LoadsFollow'
  <2> SUFFICES ASSUME NEW load \in loads, load.answer.value # 0
               PROVE  \/ Follows(load.answer.value)'
                      \/ Mounted = "verification" /\ (panel.error \/ panel.running # 0)
    BY <1>1, <1>2 DEF LoadsFollow
  <2>1. load.answer.value \in DOMAIN history
    BY DEF PageInv, AnswersAreOfTheTask, Version
  <2> QED BY <1>5, <2>1 DEF PassInv, LoadsFollow
<1>9. PanelReadsNewest'
  <2> SUFFICES ASSUME panel.running # 0
               PROVE  /\ calls'[panel.running].record.value \in {0, Latest'}
                      /\ \/ calls'[panel.running].bounty.value \in {0, Len(history')}
                         \/ \E d \in Slots \ {panel.running} : calls'[d].step = "reading"
    BY DEF PanelReadsNewest
  <2>1. /\ calls[panel.running].record.value \in {0, Latest}
        /\ \/ calls[panel.running].bounty.value \in {0, Len(history)}
           \/ \E d \in Slots \ {panel.running} : calls[d].step = "reading"
    BY DEF PassInv, PanelReadsNewest
  <2>2. panel.running \in Slots
    BY DEF PageInv, TaskPageTypeOK, Running
  <2>5. \A d \in Slots : calls[d].step = "reading" => calls'[d].step = "reading"
    BY DEF OnlyCall
  <2>3. CASE panel.running = c
    <3>1. calls'[c].record.value \in {0, Latest'}
      BY <1>1, <2>1, <2>3
    <3>2. \/ calls'[c].bounty.value \in {0, Len(history')}
          \/ \E d \in Slots \ {c} : calls'[d].step = "reading"
      BY <1>1, <2>1, <2>3 DEF OnlyCall
    <3> QED BY <2>3, <3>1, <3>2
  <2>4. CASE panel.running # c
    <3>1. calls'[panel.running] = calls[panel.running]
      BY <2>2, <2>4 DEF OnlyCall
    <3>2. CASE history' = history \/ calls[panel.running].bounty.value = 0
      BY <1>1, <2>1, <2>5, <3>1, <3>2
    <3>3. CASE calls'[c].step = "reading"
      BY <1>1, <2>1, <2>2, <2>4, <3>1, <3>3
    <3> QED BY <2>2, <3>2, <3>3
  <2> QED BY <2>3, <2>4
<1>10. PassesAreReplaced'
  <2>1. \A d \in Slots : Reporting(d) => Reporting(d)'
    BY <1>1 DEF Reporting, OnlyCall
  <2> QED BY <1>1, <2>1 DEF PassInv, PassesAreReplaced, IsPass
<1>11. NoneBesidePass'
  <2> SUFFICES ASSUME NEW d \in Running, calls'[d].kind = "verify", result.answer.value # 0
               PROVE  (MovedOn(result.answer.value) \/ ~IsPass(records.verification.value))'
    BY <1>1, <1>3 DEF NoneBesidePass
  <2>1. calls[d].kind = "verify"
    BY DEF OnlyCall, Running
  <2>2. result.answer.value \in DOMAIN history
    BY DEF PageInv, AnswersAreOfTheTask, Version
  <2> QED BY <1>1, <2>1, <2>2 DEF PassInv, NoneBesidePass, MovedOn, IsPass, Grown
<1> QED BY <1>6, <1>7, <1>8, <1>9, <1>10, <1>11

\* COMMIT #1, of the function of the panel: the others' would disturb.
LEMMA StoreKeepsPass ==
    ASSUME PageInv, PassInv, NEW c \in Slots, NEW verdict \in Results, StoreVerdict(c, verdict)
    PROVE  PassInv'
<1>1. /\ Becomes(c, IF verdict = "PASS" THEN "paying" ELSE "reading",
                 calls[c].bounty, Ready(Latest + 1), calls[c].failed)
      /\ calls[c].kind = "verify" /\ calls[c].step = "posted" /\ Store(verdict) /\ Served
      /\ othersVerified' = (othersVerified \/ panel.running # c)
  BY CallSteps DEF StoreVerdict
<1>2. UNCHANGED <<identity, reloadToken, result, loads, token, records, workLoads, panel, late>>
  BY <1>1, ServedLeaves
<1>3. /\ Latest' = Latest + 1 /\ Latest' # 0 /\ verifications'[Latest'] = verdict
      /\ Grown /\ Len(history') = Len(history) + 1
      /\ Current' = BOUNTY_STATUS_BY_VERIFICATION[verdict]
  BY <1>1, VerdictsGrow, RowGrows, Versions DEF PageInv, Grown
<1>4. Mounted' = Mounted /\ Running' = Running /\ c \in Running
  BY <1>1, <1>2, <1>3, ScreenKept DEF Running, Becomes, OnlyCall
<1>5. RowFollows'
  BY <1>3 DEF RowFollows, Follows, IsPass, MovedOn, Current, BOUNTY_STATUS_BY_VERIFICATION
<1> SUFFICES ASSUME Undisturbed'
             PROVE  /\ LeftWhileLoading' /\ PageFollows' /\ LoadsFollow'
                    /\ PanelReadsNewest' /\ PassesAreReplaced' /\ NoneBesidePass'
  BY <1>5 DEF PassInv
<1>6. Undisturbed /\ panel.running = c /\ c # 0
  <2>1. ~late' /\ ~othersVerified'
    BY DEF Undisturbed
  <2>2. ~late /\ ~othersVerified /\ panel.running = c
    BY <1>1, <1>2, <2>1
  <2> QED BY <2>2 DEF Undisturbed, Slots
<1>7. Mounted = "verification" /\ calls[c].bounty.value = 0 /\ ~calls[c].failed
  BY <1>1, <1>6 DEF PageInv, PanelOfItsCall, CallInOrder, LOADING
<1>8. LeftWhileLoading' /\ PageFollows' /\ LoadsFollow'
  BY <1>2, <1>4, <1>6, <1>7 DEF PassInv, LeftWhileLoading, PageFollows, LoadsFollow
<1>9. PanelReadsNewest'
  BY <1>1, <1>2, <1>3, <1>6, <1>7 DEF PanelReadsNewest, Becomes, Ready
<1>10. PassesAreReplaced'
  <2>1. verdict # "PASS" => Reporting(c)'
    BY <1>1, <1>3, <1>7 DEF Reporting, Becomes
  <2> QED BY <1>3, <2>1 DEF PassesAreReplaced, IsPass
<1>11. NoneBesidePass'
  <2>1. result.answer.value \in {0} \cup DOMAIN history
    BY DEF PageInv, AnswersAreOfTheTask, Version
  <2>2. records.verification.value \in {0} \cup DOMAIN verifications
    BY DEF PageInv, TaskPageTypeOK
  <2>3. \A d \in Running : calls'[d].kind = calls[d].kind
    BY <1>1 DEF Running, Becomes, OnlyCall
  <2> QED BY <1>2, <1>3, <1>4, <1>6, <2>1, <2>2, <2>3
          DEF PassInv, NoneBesidePass, MovedOn, IsPass, Grown
<1> QED BY <1>8, <1>9, <1>10, <1>11

\* A call that is refused or not answered: its panel shows the error.
LEMMA RefuseKeepsPass ==
    ASSUME PageInv, PassInv, NEW c \in Slots, Refuse(c)
    PROVE  PassInv'
<1>1. /\ OnlyCall(c) /\ calls'[c] = NoCall /\ calls[c].step \in {"posted", "refused", "paying"}
      /\ panel' = IF panel.running = c THEN [running |-> 0, error |-> TRUE] ELSE panel
      /\ UNCHANGED <<history, verifications, othersVerified, identity, reloadToken, result, loads,
                     records, workLoads, late>>
  BY CallEnds DEF Refuse, apiVars, pageVars, workVars
<1>2. /\ Mounted' = Mounted /\ Bounty' = Bounty /\ Latest' = Latest /\ c # 0
      /\ Running' \subseteq Running \ {c}
  BY <1>1, ScreenKept DEF Grown, Latest, Running, OnlyCall, NoCall, Slots
<1>3. RowFollows'
  BY <1>1, <1>2 DEF PassInv, RowFollows, Follows, IsPass, MovedOn
<1> SUFFICES ASSUME Undisturbed
             PROVE  /\ LeftWhileLoading' /\ PageFollows' /\ LoadsFollow'
                    /\ PanelReadsNewest' /\ PassesAreReplaced' /\ NoneBesidePass'
  BY <1>1, <1>3 DEF PassInv, Undisturbed
<1>4. LeftWhileLoading'
  BY <1>1, <1>2 DEF PassInv, LeftWhileLoading
<1>5. PageFollows' /\ LoadsFollow'
  BY <1>1, <1>2 DEF PassInv, PageFollows, LoadsFollow, Follows, IsPass, MovedOn
<1>6. PanelReadsNewest'
  <2> SUFFICES ASSUME panel'.running # 0
               PROVE  /\ calls'[panel'.running].record.value \in {0, Latest'}
                      /\ \/ calls'[panel'.running].bounty.value \in {0, Len(history')}
                         \/ \E d \in Slots \ {panel'.running} : calls'[d].step = "reading"
    BY DEF PanelReadsNewest
  <2>1. panel' = panel /\ panel.running # c /\ panel.running \in Slots
    BY <1>1 DEF PageInv, TaskPageTypeOK, Running
  <2>2. calls'[panel.running] = calls[panel.running]
    BY <1>1, <2>1 DEF OnlyCall
  <2>3. \A d \in Slots : calls[d].step = "reading" => calls'[d].step = "reading"
    BY <1>1 DEF OnlyCall
  <2> QED BY <1>1, <1>2, <2>1, <2>2, <2>3 DEF PassInv, PanelReadsNewest
<1>7. PassesAreReplaced'
  <2>1. \A d \in Slots : Reporting(d) => Reporting(d)'
    BY <1>1, <1>2 DEF Reporting, OnlyCall
  <2> QED BY <1>1, <1>2, <2>1 DEF PassInv, PassesAreReplaced, IsPass
<1>8. NoneBesidePass'
  BY <1>1, <1>2 DEF PassInv, NoneBesidePass, IsPass, MovedOn, OnlyCall, Running
<1> QED BY <1>4, <1>5, <1>6, <1>7, <1>8

\* The answer of the page's own request, when no function runs.
LEMMA PublishLoadKeepsPass ==
    ASSUME PageInv, PageInv', PassInv, NEW load \in loads, PublishLoad(load)
    PROVE  PassInv'
<1>1. /\ result' = load /\ records' = records /\ calls' = calls /\ WorkEffect(workLoads)
      /\ Rerender(panel) /\ late' = (late \/ Running # {})
      /\ UNCHANGED <<history, verifications, othersVerified>>
      /\ UNCHANGED <<reloadToken, identity>> /\ LoadEffect(loads \ {load})
  BY DEF PublishLoad, apiVars
<1>2. /\ loads' = {} /\ Latest' = Latest /\ Running' = Running /\ LOADING.value = 0
      /\ \A w \in workLoads' : w \in workLoads \/ w.verification = LOADING
  BY <1>1, NewRequests DEF PageInv, OneRequestEach, Latest, Running, LOADING
<1>3. RowFollows'
  BY <1>1, <1>2 DEF PassInv, RowFollows, Follows, IsPass, MovedOn
<1> SUFFICES ASSUME Undisturbed'
             PROVE  /\ LeftWhileLoading' /\ PageFollows' /\ LoadsFollow'
                    /\ PanelReadsNewest' /\ PassesAreReplaced' /\ NoneBesidePass'
  BY <1>3 DEF PassInv
<1>4. ~late' /\ ~othersVerified'
  BY DEF Undisturbed
<1>5. Undisturbed /\ Running = {}
  BY <1>1, <1>4 DEF Undisturbed
<1>6. panel.running = 0 /\ panel'.running = 0
  BY <1>2, <1>5 DEF PageInv, TaskPageTypeOK
<1>7. LeftWhileLoading' /\ LoadsFollow' /\ PanelReadsNewest' /\ NoneBesidePass'
  BY <1>2, <1>5, <1>6 DEF LeftWhileLoading, LoadsFollow, PanelReadsNewest, NoneBesidePass
<1>8. PageFollows'
  <2> SUFFICES ASSUME Mounted' = "verification"
               PROVE  Follows(Bounty)' \/ panel'.error
    BY DEF PageFollows
  <2>1. Bounty' = load.answer.value /\ load.answer.value # 0
    <3>1. Settled'
      BY DEF Mounted, PageState
    <3>2. Enabled'
      BY DEF Mounted
    <3> QED BY <1>1, <3>1, <3>2 DEF Bounty, Enabled
  <2>2. CASE Follows(load.answer.value)
    BY <1>1, <1>2, <2>1, <2>2 DEF Follows, IsPass, MovedOn
  <2>3. CASE ~Follows(load.answer.value)
    <3>1. Mounted = "verification" /\ panel.error
      BY <1>5, <1>6, <2>1, <2>3 DEF PassInv, LoadsFollow
    <3> QED BY <1>1, <3>1 DEF Rerender
  <2> QED BY <2>2, <2>3
<1>9. PassesAreReplaced'
  <2>1. PassesAreReplaced /\ \A c \in Slots : Reporting(c)' <=> Reporting(c)
    BY <1>1, <1>2, <1>5 DEF PassInv, Reporting
  <2> QED BY <1>1, <1>2, <2>1 DEF PassesAreReplaced, IsPass
<1> QED BY <1>7, <1>8, <1>9

\* What the panel publishes, when it is the only one and nothing is being loaded.
LEMMA PublishKeepsPass ==
    ASSUME PageInv, PageInv', PassInv, NEW c \in Slots, Publish(c)
    PROVE  PassInv'
<1>1. UNCHANGED <<history, verifications, othersVerified, identity>> /\ Latest' = Latest
  BY Published DEF apiVars, Latest
<1>2. RowFollows'
  BY <1>1 DEF PassInv, RowFollows, Follows, IsPass, MovedOn
<1> SUFFICES ASSUME Undisturbed'
             PROVE  /\ LeftWhileLoading' /\ PageFollows' /\ LoadsFollow'
                    /\ PanelReadsNewest' /\ PassesAreReplaced' /\ NoneBesidePass'
  BY <1>2 DEF PassInv
<1>3. ~late' /\ ~othersVerified'
  BY DEF Undisturbed
<1>4. /\ ~late /\ panel.running = c /\ Running = {c} /\ loads = {} /\ workLoads = {} /\ c # 0
      /\ OnlyCall(c) /\ calls'[c] = NoCall
  <2>1. late' = (late \/ panel.running # c \/ Running # {c} \/ loads # {} \/ workLoads # {})
    BY DEF Publish
  <2>2. ~late /\ panel.running = c /\ Running = {c} /\ loads = {} /\ workLoads = {}
    BY <1>3, <2>1
  <2>3. OnlyCall(c) /\ calls'[c] = NoCall
    BY Published
  <2> QED BY <2>2, <2>3 DEF Slots
<1>5. Undisturbed /\ RowFollows /\ PanelReadsNewest /\ PassesAreReplaced /\ PageFollows
  BY <1>1, <1>3, <1>4 DEF Undisturbed, PassInv
<1>6. Running' = {} /\ panel'.running = 0
  <2>1. Running' = {}
    BY <1>4 DEF Running, OnlyCall, NoCall
  <2> QED BY <2>1 DEF PageInv, TaskPageTypeOK
<1>7. /\ LOADING.value = 0 /\ \A load \in loads' : load.answer.value = 0
      /\ \A load \in workLoads' : load.verification = LOADING
  BY <1>4, Published, NewRequests DEF LOADING
<1>8. LeftWhileLoading' /\ LoadsFollow' /\ PanelReadsNewest' /\ NoneBesidePass'
  BY <1>6, <1>7 DEF LeftWhileLoading, LoadsFollow, PanelReadsNewest, NoneBesidePass
<1>9. /\ calls[c].record.value \in {0, Latest}
      /\ calls[c].bounty.value \in {0, Len(history)}
  <2>1. \A d \in Slots \ {c} : calls[d].step # "reading"
    BY <1>4 DEF Running
  <2> QED BY <1>4, <1>5, <2>1 DEF PanelReadsNewest
<1>10. PageFollows'
  <2> SUFFICES ASSUME Mounted' = "verification"
               PROVE  Follows(Bounty)' \/ panel'.error \/ loads' # {}
    BY DEF PageFollows
  <2>1. CASE calls[c].bounty.status = "ready"
    <3>1. Mounted # "none"
      BY <1>4 DEF PageInv, PanelOfItsCall
    <3>2. result'.answer.value = calls[c].bounty.value
      BY <2>1, <3>1, MountedIsReady, Published
    <3>3. calls[c].bounty.value # 0
      BY <2>1 DEF PageInv, AnswersAreOfTheTask, Version
    <3>4. Bounty' = Len(history)
      BY <1>9, <3>2, <3>3, MountedIsReady DEF Mounted, PageState, Bounty
    <3> QED BY <1>1, <1>5, <3>4 DEF RowFollows, Follows, IsPass, MovedOn
  <2>2. CASE calls[c].bounty.status # "ready" /\ calls[c].kind = "submit"
    <3>1. reloadToken' # reloadToken
      <4>1. reloadToken \in Nat
        BY DEF PageInv, TaskPageTypeOK
      <4>2. reloadToken' = reloadToken + 1
        BY <2>2, Published
      <4> QED BY <4>1, <4>2
    <3>2. LoadEffect(loads)
      BY Published
    <3> QED BY <3>1, <3>2 DEF LoadEffect
  <2>3. CASE calls[c].bounty.status # "ready" /\ calls[c].kind # "submit"
    <3>1. UNCHANGED <<identity, reloadToken, result>>
      BY <1>1, <2>3, Published
    <3>2. Mounted' = Mounted
      BY <1>1, <3>1, ScreenKept DEF Grown
    <3>3. Rerender(IF panel.running = c /\ calls[c].kind # "submit"
                   THEN [running |-> 0,
                         error |-> calls[c].failed \/ calls[c].bounty.status # "ready"]
                   ELSE panel)
      BY Published
    <3>4. panel' = [running |-> 0, error |-> calls[c].failed \/ calls[c].bounty.status # "ready"]
      BY <1>4, <2>3, <3>2, <3>3 DEF Rerender
    <3> QED BY <2>3, <3>4
  <2> QED BY <2>1, <2>2, <2>3
<1>11. PassesAreReplaced'
  <2> SUFFICES ASSUME IsPass(records.verification.value)'
               PROVE  IsPass(Latest)'
    BY <1>7 DEF PassesAreReplaced, IsPass
  <2>1. CASE records'.verification = calls[c].record /\ calls[c].record.value # 0
    BY <1>1, <1>9, <2>1 DEF IsPass
  <2>2. CASE records' = records /\ calls[c].record.value # 0 /\ records.verification = LOADING
    BY <1>7, <2>2 DEF IsPass
  <2>3. CASE records' = records /\ calls[c].record.value = 0
    <3>1. IsPass(records.verification.value)
      BY <1>1, <2>3 DEF IsPass
    <3>2. records.verification.value \in 1..Latest /\ Latest # 0
      BY <3>1, ReadValues DEF IsPass
    <3>3. \A d \in Slots : ~Reporting(d)
      BY <1>4, <2>3, <3>2 DEF Reporting, Running, Ready
    <3> QED BY <1>1, <1>5, <3>1, <3>3 DEF PassesAreReplaced, IsPass
  <2> QED BY <2>1, <2>2, <2>3, Published
<1> QED BY <1>8, <1>10, <1>11

\* Before the pull request is registered nothing but submissions was begun.
OnlySubmissions ==
    Current = "ASSIGNED" =>
        /\ \A v \in DOMAIN history : history[v] = "ASSIGNED"
        /\ \A c \in Slots : /\ calls[c].kind \in {"none", "submit"}
                            /\ calls[c].kind = "none" => calls[c].step = "idle"

LEMMA OnlySubmissionsStep ==
    ASSUME PageInv, OnlySubmissions, [TaskPageNext]_vars
    PROVE  OnlySubmissions'
<1>1. CASE UNCHANGED <<history, calls>>
  BY <1>1 DEF OnlySubmissions, Current
<1>2. ASSUME NEW s \in SUBMITTED_STATUSES, history' = Append(history, s)
      PROVE  OnlySubmissions'
  <2>1. Current' = s
    BY <1>2, RowGrows DEF PageInv
  <2> QED BY <2>1 DEF OnlySubmissions, SUBMITTED_STATUSES
<1>3. ASSUME history' = history, NEW c \in Slots, OnlyCall(c),
             calls'[c] = NoCall \/ (calls'[c].kind = calls[c].kind /\ calls[c].step # "idle")
      PROVE  OnlySubmissions'
  BY <1>3 DEF OnlySubmissions, Current, OnlyCall, NoCall
<1>4. CASE SubmitPullRequest
  <2>1. PICK call \in Call : StartCall(call) /\ call.kind = "submit"
    BY <1>4, NewCalls
  <2>2. calls' = [calls EXCEPT ![inputs'] = call] /\ history' = history
    BY <2>1 DEF StartCall, apiVars
  <2> QED BY <2>1, <2>2 DEF OnlySubmissions, Current, PageInv, TaskPageTypeOK
<1>5. CASE RunVerification \/ RefreshStatus
  <2>1. Mounted = "verification" /\ history' = history
    BY <1>5 DEF RunVerification, RefreshStatus, StartCall, apiVars
  <2>2. Bounty \in DOMAIN history /\ history[Bounty] \in SUBMITTED_STATUSES
    BY <2>1, MountedIsReady DEF Mounted, Enabled
  <2>3. Current # "ASSIGNED"
    BY <2>2 DEF OnlySubmissions, SUBMITTED_STATUSES
  <2> QED BY <2>1, <2>3 DEF OnlySubmissions, Current
<1>6. ASSUME NEW c \in Slots, CallStep(c)
      PROVE  OnlySubmissions'
  <2>1. CASE RegisterSubmission(c)
    BY <2>1, <1>2 DEF RegisterSubmission, SUBMITTED_STATUSES
  <2>2. ASSUME NEW verdict \in Results, StoreVerdict(c, verdict)
        PROVE  OnlySubmissions'
    BY <2>2, <1>2, VerdictsGrow DEF StoreVerdict, PageInv
  <2>3. CASE Pay(c)
    BY <2>3, <1>2 DEF Pay, SUBMITTED_STATUSES
  <2>4. CASE FailUpstream(c) \/ ReadBounty(c) \/ ReadRecord(c)
    BY <2>4, <1>3, CallSteps DEF FailUpstream, ReadBounty, ReadRecord, Becomes, apiVars
  <2>5. CASE Refuse(c)
    BY <2>5, <1>3, CallEnds DEF Refuse, apiVars
  <2>6. CASE Publish(c)
    BY <2>6, <1>3, CallEnds DEF Publish, apiVars
  <2> QED BY <1>6, <2>1, <2>2, <2>3, <2>4, <2>5, <2>6 DEF CallStep
<1>7. ASSUME NEW verdict \in Results, VerifyElsewhere(verdict)
      PROVE  OnlySubmissions'
  BY <1>7, <1>2, VerdictsGrow DEF VerifyElsewhere, PageInv
<1>8. CASE Answer
  BY <1>1, <1>8 DEF Answer, ServeLoad, PublishLoad, ServeWork, PublishWork, apiVars, panelVars,
                    Rerender
<1>9. CASE SwitchIdentity \/ ReloadPage \/ ReloadWork
  BY <1>1, <1>9 DEF SwitchIdentity, ReloadPage, ReloadWork, apiVars, panelVars
<1>10. CASE UNCHANGED vars
  BY <1>1, <1>10 DEF vars, apiVars, panelVars
<1> QED
  BY <1>4, <1>5, <1>6, <1>7, <1>8, <1>9, <1>10 DEF TaskPageNext

LEMMA PassInvStep ==
    PageInv /\ PageInv' /\ PassInv /\ OnlySubmissions /\ [TaskPageNext]_vars => PassInv'
<1> SUFFICES ASSUME PageInv, PageInv', PassInv, OnlySubmissions, [TaskPageNext]_vars
             PROVE  PassInv'
  OBVIOUS
<1>1. /\ LOADING.value = 0 /\ NoCall.step = "idle"
      /\ Missing("error").value = 0 /\ Missing("not-found").value = 0
      /\ \A n \in Nat : Ready(n).value = n /\ Ready(n) # LOADING
      /\ Latest \in Nat /\ Len(history) \in Nat
  BY ReadValues DEF LOADING, NoCall, Missing, Ready
<1>2. ASSUME NEW load \in loads, ServeLoad(load)
      PROVE  PassInv'
  <2>1. PICK answer \in {Missing("error"), IF CanRead(load.identity)
                                          THEN Ready(Len(history)) ELSE Missing("not-found")} :
            loads' = (loads \ {load}) \cup {[load EXCEPT !.answer = answer]}
    BY <1>2 DEF ServeLoad
  <2>2. /\ UNCHANGED <<apiVars, identity, reloadToken, result, panelVars, late>>
        /\ records' = records /\ workLoads' = workLoads
    BY <1>2 DEF ServeLoad, workVars
  <2>3. [load EXCEPT !.answer = answer].answer = answer
    BY DEF PageInv, TaskPageTypeOK
  <2>4. \A l \in loads' : l \in loads \/ l.answer.value \in {0, Len(history)}
    BY <1>1, <2>1, <2>3
  <2>5. loads' # {}
    BY <2>1
  <2> QED BY <2>2, <2>4, <2>5, DataKeepsPass
<1>3. ASSUME NEW load \in loads, PublishLoad(load)
      PROVE  PassInv'
  BY <1>3, PublishLoadKeepsPass
<1>4. ASSUME NEW load \in workLoads, ServeWork(load)
      PROVE  PassInv'
  <2>1. PICK verification \in {Ready(Latest), Missing("error")} :
            workLoads' = (workLoads \ {load}) \cup {[load EXCEPT !.verification = verification]}
    BY <1>4 DEF ServeWork
  <2>2. /\ UNCHANGED <<apiVars, identity, reloadToken, result, panelVars, late>>
        /\ records' = records /\ loads' = loads
    BY <1>4 DEF ServeWork, pageVars
  <2>3. [load EXCEPT !.verification = verification].verification = verification
    BY DEF PageInv, TaskPageTypeOK
  <2>4. \A answer \in {records'.verification} \cup {l.verification : l \in workLoads'} :
              \/ answer.value \in {0, Latest}
              \/ answer \in {records.verification} \cup {l.verification : l \in workLoads}
    BY <1>1, <2>1, <2>2, <2>3
  <2> QED BY <2>2, <2>4, DataKeepsPass
<1>5. ASSUME NEW load \in workLoads, PublishWork(load)
      PROVE  PassInv'
  <2>1. /\ UNCHANGED <<apiVars, identity, reloadToken, result, panelVars>> /\ loads' = loads
        /\ records' = load /\ workLoads' \subseteq workLoads
        /\ late' = (late \/ Running # {})
    BY <1>5 DEF PublishWork, pageVars
  <2> QED BY <2>1, DataKeepsPass
<1>6. CASE SwitchIdentity \/ ReloadPage
  BY <1>6, ReloadKeepsPass
<1>7. CASE ReloadWork
  <2>1. /\ UNCHANGED <<apiVars, identity, reloadToken, result, panelVars, late>>
        /\ loads' = loads /\ records' = records /\ WorkEffect(workLoads)
    BY <1>7 DEF ReloadWork, pageVars
  <2>2. \A load \in workLoads' : load \in workLoads \/ load.verification = LOADING
    BY <2>1, NewRequests
  <2> QED BY <1>1, <2>1, <2>2, DataKeepsPass
<1>8. CASE SubmitPullRequest \/ RunVerification \/ RefreshStatus
  BY <1>8, StartKeepsPass
<1>9. ASSUME NEW c \in Slots, CallStep(c)
      PROVE  PassInv'
  <2>1. /\ CallInOrder(c) /\ calls[c].record.value \in 0..Latest
        /\ Reporting(c) => calls[c].record # LOADING /\ calls[c].step = "reading"
    BY <1>1, ReadValues DEF PageInv, Reporting
  <2>2. CASE RegisterSubmission(c)
    <3>1. /\ Served /\ calls[c].step = "posted" /\ calls[c].kind = "submit"
          /\ Current = "ASSIGNED" /\ history' = Append(history, "SUBMITTED")
          /\ verifications' = verifications /\ othersVerified' = othersVerified
          /\ \E step \in {"reading", "refused"} :
                Becomes(c, step, calls[c].bounty, Ready(0), calls[c].failed)
      BY <2>2, CallSteps DEF RegisterSubmission
    <3>2. "SUBMITTED" \in SUBMITTED_STATUSES
      BY DEF SUBMITTED_STATUSES
    <3>3. Grown
      BY <3>1, <3>2, RowGrows DEF Grown, PageInv
    <3>4. PICK step \in {"reading", "refused"} :
            Becomes(c, step, calls[c].bounty, Ready(0), calls[c].failed)
      BY <3>1
    <3>5. /\ OnlyCall(c) /\ calls'[c].step \in {"reading", "refused"}
          /\ calls'[c].kind = calls[c].kind /\ calls'[c].bounty = LOADING
          /\ calls'[c].record.value = 0 /\ ~Reporting(c)
      BY <2>1, <3>1, <3>4 DEF Becomes, CallInOrder, Ready, Reporting
    <3>6. \A d \in Slots : calls[d].bounty.value = 0
      <4> TAKE d \in Slots
      <4>1. calls[d].kind \in {"none", "submit"} /\ CallInOrder(d)
        BY <3>1 DEF OnlySubmissions, PageInv
      <4>2. calls[d].kind = "none" => calls[d].step # "reading"
        BY <4>1, <3>1 DEF OnlySubmissions
      <4> QED BY <1>1, <3>1, <4>1, <4>2 DEF CallInOrder
    <3> QED BY <1>1, <3>1, <3>3, <3>5, <3>6, ServedLeaves, ProgressKeepsPass
  <2>3. CASE \E verdict \in Results : StoreVerdict(c, verdict)
    BY <2>3, StoreKeepsPass
  <2>4. CASE Pay(c)
    <3>1. /\ Becomes(c, "reading", calls[c].bounty, calls[c].record, calls[c].failed) /\ Served
          /\ calls[c].step = "paying" /\ history' = Append(history, "PAID")
          /\ verifications' = verifications /\ othersVerified' = othersVerified
      BY <2>4, CallSteps DEF Pay
    <3>2. "PAID" \in SUBMITTED_STATUSES
      BY DEF SUBMITTED_STATUSES
    <3>3. Grown
      BY <3>1, <3>2, RowGrows DEF Grown, PageInv
    <3> QED BY <1>1, <2>1, <3>1, <3>3, ServedLeaves, ProgressKeepsPass
            DEF Becomes, CallInOrder
  <2>5. CASE FailUpstream(c)
    <3>1. /\ Becomes(c, "reading", calls[c].bounty, LOADING, TRUE) /\ Served
          /\ calls[c].step \in {"posted", "paying"} /\ UNCHANGED apiVars
      BY <2>5, CallSteps DEF FailUpstream
    <3> QED BY <1>1, <2>1, <3>1, SameRow, ServedLeaves, ProgressKeepsPass
            DEF Becomes, CallInOrder, apiVars
  <2>6. CASE Refuse(c)
    BY <2>6, RefuseKeepsPass
  <2>7. CASE ReadBounty(c)
    <3>1. PICK answer \in {Ready(Len(history)), Missing("error")} :
            Becomes(c, "reading", answer, calls[c].record, calls[c].failed)
      BY <2>7, CallSteps
    <3>2. calls[c].step = "reading" /\ Served /\ UNCHANGED apiVars
      BY <2>7 DEF ReadBounty
    <3> QED BY <1>1, <2>1, <3>1, <3>2, SameRow, ServedLeaves, ProgressKeepsPass
            DEF Becomes, apiVars
  <2>8. CASE ReadRecord(c)
    <3>1. PICK answer \in {Ready(Latest), Missing("error")} :
            Becomes(c, "reading", calls[c].bounty, answer, calls[c].failed)
      BY <2>8, CallSteps
    <3>2. calls[c].step = "reading" /\ calls[c].record = LOADING /\ Served /\ UNCHANGED apiVars
      BY <2>8 DEF ReadRecord
    <3> QED BY <1>1, <2>1, <3>1, <3>2, SameRow, ServedLeaves, ProgressKeepsPass
            DEF Becomes, apiVars
  <2>9. CASE Publish(c)
    BY <2>9, PublishKeepsPass
  <2> QED BY <1>9, <2>2, <2>3, <2>4, <2>5, <2>6, <2>7, <2>8, <2>9 DEF CallStep
<1>10. ASSUME NEW verdict \in Results, VerifyElsewhere(verdict)
       PROVE  PassInv'
  <2>1. Store(verdict) /\ othersVerified'
    BY <1>10 DEF VerifyElsewhere
  <2>2. /\ Latest' = Latest + 1 /\ verifications'[Latest'] = verdict
        /\ Current' = BOUNTY_STATUS_BY_VERIFICATION[verdict]
    BY <2>1, VerdictsGrow, RowGrows DEF PageInv
  <2>3. RowFollows'
    BY <2>2 DEF RowFollows, Follows, IsPass, MovedOn, Current, BOUNTY_STATUS_BY_VERIFICATION
  <2> QED BY <2>1, <2>3 DEF PassInv, Undisturbed
<1>11. CASE UNCHANGED vars
  <2>1. /\ UNCHANGED <<apiVars, identity, reloadToken, result, panelVars, late>>
        /\ loads' = loads /\ records' = records /\ workLoads' = workLoads
    BY <1>11 DEF vars, pageVars, workVars
  <2> QED BY <2>1, DataKeepsPass
<1> QED
  BY <1>2, <1>3, <1>4, <1>5, <1>6, <1>7, <1>8, <1>9, <1>10, <1>11 DEF TaskPageNext, Answer

\* For any number of buttons pressed, reads that fail and verifications stored: a PASS
\* beside a task that is neither eligible nor paid comes with an error, with the
\* refresh that follows it or with another load of the page.
THEOREM PassAlwaysExplained == TaskPageSpec => []PassIsExplained
<1>1. TaskPageInit => OnlySubmissions
  BY DEF TaskPageInit, OnlySubmissions, Current, NoCall
<1>2. TaskPageSpec => []OnlySubmissions
  BY <1>1, OnlySubmissionsStep, PageIsInvariant, PTL DEF TaskPageSpec
<1>3. TaskPageSpec => []PassInv
  BY <1>2, InitialPass, PassInvStep, PageIsInvariant, PTL DEF TaskPageSpec
<1> QED BY <1>3, PassInvExplains, PageIsInvariant, PTL

=============================================================================
