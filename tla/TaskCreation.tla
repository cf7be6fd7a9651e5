---------------------------- MODULE TaskCreation ----------------------------
(***************************************************************************)
(* How a task comes into being: the wizard of CreateBountyPage, the POST    *)
(* that stores the draft, and the board of MarketplacePage where the task   *)
(* appears once it is funded, with the routes between them.                 *)
(*                                                                         *)
(* The wizard lives as long as its page.  The function that posts the form  *)
(* does not: it goes on after the page was left, and its answer moves the   *)
(* browser to the new task from wherever it is by then.                     *)
(***************************************************************************)
EXTENDS Xlm

CONSTANTS
    Wallets,
    None,
    TaskFields,         \* of title, description, repository and baseBranch
    Rewards,            \* what may be typed as the reward
    Deadlines,          \* what may be chosen as the deadline
    MAX_INTEGER,        \* the largest value of the database's Integer columns
    MaxCriteria,        \* bound on the criteria of the form
    MaxTime,            \* bound on the clock
    MaxReloads,         \* bound on "Try again" of one visit to the board
    MaxTurns            \* bound on the times the wizard is opened and its form
                        \* sent, together

Blank == [whole |-> <<>>, fraction |-> <<>>]

ASSUME CreationAssumption ==
    /\ None \notin Wallets
    /\ TaskFields \subseteq {"title", "description", "repository", "baseBranch"}
    /\ Rewards \subseteq Text /\ Blank \in Rewards
    /\ Deadlines \subseteq Nat \ {0}
    /\ MAX_INTEGER \in Nat /\ MaxTime \in Nat /\ MaxReloads \in Nat
    /\ MaxCriteria \in Nat \ {0} /\ MaxTurns \in Nat

VARIABLES
    now,                \* the clock of the browser, the API and the ledger
    session,            \* the wallet that is signed in
    route,              \* the page
    visit,              \* how often the wizard was opened
    step,               \* 0 task, 1 acceptance, 2 reward, 3 review
    form,               \* what is typed
    fieldErrors,        \* the fields with an error
    criteriaErrors,     \* for each criterion, whether it has an error
    submitting,
    posts,              \* the POSTs of all visits
    drafts,             \* the tasks in the database
    board               \* the state of MarketplacePage

wizardVars == <<step, form, fieldErrors, criteriaErrors, submitting>>
vars == <<now, session, route, visit, wizardVars, posts, drafts, board>>

-----------------------------------------------------------------------------
\* `refused` is history: the criterion was blank when it was last validated.
Criterion == [text: BOOLEAN, refused: BOOLEAN]
NewCriterion == [text |-> FALSE, refused |-> FALSE]

Form == [filled: SUBSET TaskFields, criteria: Seq(Criterion), reward: Rewards,
         deadline: Deadlines \cup {0}]

EmptyForm == [filled |-> TaskFields \cap {"baseBranch"}, criteria |-> <<NewCriterion>>,
              reward |-> Blank, deadline |-> 0]

FieldNames == TaskFields \cup {"reward", "deadline"}

\* A POST, what its function heard of it and the task stored for it, if any.
Post == [visit: 1..MaxTurns, form: Form, client_wallet: Wallets,
         answer: {"awaited", "created", "error"}, draft: Nat]

Draft == [client_wallet: Wallets, reward: Rewards, amount_stroops: 1..MAX_INTEGER,
          deadline: Nat, created_at: Nat, status: {"DRAFT", "OPEN_FUNDED"}]

\* `asked` are the tokens of the requests that were neither answered nor aborted.
Board == [reloadToken: 0..MaxReloads, asked: SUBSET (0..MaxReloads),
          result: [token: -1..MaxReloads, state: {"loading", "ready", "error"},
                   bounties: SUBSET Nat]]

\* The page before its first effect, and while another one is shown.
NoBoard == [reloadToken |-> 0, asked |-> {},
            result |-> [token |-> -1, state |-> "loading", bounties |-> {}]]

\* Mutant of LoadEffect: it runs when the page appears, and then never again.
LoadEffectOnce(b) == [b EXCEPT !.asked = IF b.reloadToken = 0 THEN {0} ELSE @]

\* The effect of a render with another token: it aborts the request and asks again.
LoadEffect(b) == [b EXCEPT !.asked = {b.reloadToken}]

\* What is shown: a result under another token does not count.
settled == board.result.token = board.reloadToken
boardState == IF settled THEN board.result.state ELSE "loading"
shownBounties == IF settled THEN board.result.bounties ELSE {}

CreationInit ==
    /\ now = 0
    /\ session \in Wallets \cup {None}
    /\ route = "marketplace"
    /\ visit = 0
    /\ step = 0 /\ form = EmptyForm /\ fieldErrors = {} /\ criteriaErrors = <<>>
    /\ submitting = FALSE
    /\ posts = <<>> /\ drafts = <<>>
    /\ board = LoadEffect(NoBoard)

-----------------------------------------------------------------------------
(* The routes. *)

\* A page that is left loses its state; one that is opened starts afresh.
ResetWizard ==
    /\ step' = 0 /\ form' = EmptyForm /\ fieldErrors' = {} /\ criteriaErrors' = <<>>
    /\ submitting' = FALSE

OpenMarketplace ==
    /\ route # "marketplace"
    /\ route' = "marketplace"
    /\ board' = LoadEffect(NoBoard)
    /\ ResetWizard
    /\ UNCHANGED <<now, session, visit, posts, drafts>>

OpenWizard ==
    /\ route # "create" /\ visit + Len(posts) < MaxTurns
    /\ route' = "create"
    /\ visit' = visit + 1
    /\ board' = NoBoard
    /\ ResetWizard
    /\ UNCHANGED <<now, session, posts, drafts>>

\* Mutant of list_bounties: the drafts are listed as well.
list_all_bounties == DOMAIN drafts

\* "solo tasks financiadas y todavia sin developer"
list_bounties == {d \in DOMAIN drafts : drafts[d].status = "OPEN_FUNDED"}

\* setResult, with the answer to getBounties or with an error.
LoadBoard ==
    /\ \E token \in board.asked, state \in {"ready", "error"} :
        board' = [board EXCEPT
            !.asked = @ \ {token},
            !.result = [token |-> token, state |-> state,
                        bounties |-> IF state = "ready" THEN list_bounties ELSE {}]]
    /\ UNCHANGED <<now, session, route, visit, wizardVars, posts, drafts>>

\* "Try again"
ReloadBoard ==
    /\ route = "marketplace" /\ boardState = "error"
    /\ board.reloadToken < MaxReloads
    /\ board' = LoadEffect([board EXCEPT !.reloadToken = @ + 1])
    /\ UNCHANGED <<now, session, route, visit, wizardVars, posts, drafts>>

-----------------------------------------------------------------------------
(* The form.  The sections of the other steps are hidden. *)

Edit(s, f) ==
    /\ route = "create" /\ step = s
    /\ form' = f /\ f # form
    /\ UNCHANGED <<now, session, route, visit, step, fieldErrors, submitting, posts,
                   drafts, board>>

EditTask ==
    \E filled \in SUBSET TaskFields :
        Edit(0, [form EXCEPT !.filled = filled]) /\ UNCHANGED criteriaErrors

EditReward ==
    \E reward \in Rewards, deadline \in Deadlines \cup {0} :
        /\ Edit(2, [form EXCEPT !.reward = reward, !.deadline = deadline])
        /\ UNCHANGED criteriaErrors

updateCriterion(i) ==
    Edit(1, [form EXCEPT !.criteria[i].text = ~@]) /\ UNCHANGED criteriaErrors

addCriterion ==
    /\ Len(form.criteria) < MaxCriteria
    /\ Edit(1, [form EXCEPT !.criteria = Append(@, NewCriterion)])
    /\ criteriaErrors' = Append(criteriaErrors, FALSE)

\* Mutant of removeCriterion: the errors stay as they are.
removeCriterionOnly(i) ==
    /\ Len(form.criteria) > 1
    /\ Edit(1, [form EXCEPT !.criteria = RemoveAt(@, i)])
    /\ UNCHANGED criteriaErrors

\* Criteria and errors are two lists, kept in step by hand.
removeCriterion(i) ==
    /\ Len(form.criteria) > 1
    /\ Edit(1, [form EXCEPT !.criteria = RemoveAt(@, i)])
    /\ criteriaErrors' = RemoveAt(criteriaErrors, i)

\* Mutants of GoBack: it is possible while the form is on its way; it leads to
\* any step.
GoBackAnyTime(s) ==
    /\ route = "create" /\ s < step
    /\ step' = s
    /\ UNCHANGED <<now, session, route, visit, form, fieldErrors, criteriaErrors,
                   submitting, posts, drafts, board>>

GoAnywhere(s) ==
    /\ route = "create" /\ s # step /\ ~submitting
    /\ step' = s
    /\ UNCHANGED <<now, session, route, visit, form, fieldErrors, criteriaErrors,
                   submitting, posts, drafts, board>>

\* "Back", and the steps that are complete.
GoBack(s) ==
    /\ route = "create" /\ s < step /\ ~submitting
    /\ step' = s
    /\ UNCHANGED <<now, session, route, visit, form, fieldErrors, criteriaErrors,
                   submitting, posts, drafts, board>>

-----------------------------------------------------------------------------
(* Validation and the POST. *)

WrongFields ==
    (TaskFields \ form.filled)
        \cup {field \in {"reward"} : ~Parses(form.reward)}
        \cup {field \in {"deadline"} : form.deadline <= now}

FieldsOf(s) ==
    CASE s = 0 -> TaskFields
      [] s = 1 -> {}
      [] s = 2 -> {"reward", "deadline"}
      [] s = 3 -> FieldNames

\* The errors of step s, of all steps when it is the last.
FieldErrors(s) == WrongFields \cap FieldsOf(s)
CriteriaErrors(s) == [i \in DOMAIN form.criteria |-> s \in {1, 3} /\ ~form.criteria[i].text]

HasErrors(fields, criteria) == fields # {} \/ \E i \in DOMAIN criteria : criteria[i]

Refused(s) == [i \in DOMAIN form.criteria |->
    [text |-> form.criteria[i].text, refused |-> CriteriaErrors(s)[i]]]

\* setFieldErrors and setCriteriaErrors
ShowErrors(s) ==
    /\ fieldErrors' = FieldErrors(s)
    /\ criteriaErrors' = CriteriaErrors(s)
    /\ form' = [form EXCEPT !.criteria = Refused(s)]

FirstStepWithErrors ==
    IF FieldErrors(0) # {} THEN 0
    ELSE IF HasErrors({}, CriteriaErrors(3)) THEN 1 ELSE 2

\* "Continue": validates the step and goes on to the next.
Continue ==
    /\ route = "create" /\ step < 3
    /\ ShowErrors(step)
    /\ step' = IF HasErrors(FieldErrors(step), CriteriaErrors(step)) THEN step ELSE step + 1
    /\ UNCHANGED <<now, session, route, visit, submitting, posts, drafts, board>>

\* Mutant of MaySubmit: the button stays enabled while the form is on its way.
MaySubmitAgain == route = "create" /\ step = 3 /\ session # None

MaySubmit == route = "create" /\ step = 3 /\ session # None /\ ~submitting

\* "Create draft & continue" of a form that is not right, or not any more.
RefuseForm ==
    /\ MaySubmit
    /\ HasErrors(FieldErrors(3), CriteriaErrors(3))
    /\ ShowErrors(3)
    /\ step' = FirstStepWithErrors
    /\ UNCHANGED <<now, session, route, visit, submitting, posts, drafts, board>>

SubmitForm ==
    /\ MaySubmit
    /\ visit + Len(posts) < MaxTurns
    /\ ~HasErrors(FieldErrors(3), CriteriaErrors(3))
    /\ ShowErrors(3)
    /\ submitting' = TRUE
    /\ posts' = Append(posts, [visit |-> visit, form |-> form', client_wallet |-> session,
                               answer |-> "awaited", draft |-> 0])
    /\ UNCHANGED <<now, session, route, visit, step, drafts, board>>

\* create_bounty.  A number that does not fit its column makes the INSERT fail;
\* the deadline is not compared with any clock.
StoreDraft(p) ==
    LET f == posts[p].form
        amount == xlmToStroops(f.reward)
    IN
    /\ posts[p].draft = 0 /\ posts[p].answer # "created"
    /\ f.filled = TaskFields /\ \A i \in DOMAIN f.criteria : f.criteria[i].text
    /\ amount \in 1..MAX_INTEGER /\ f.deadline <= MAX_INTEGER
    /\ drafts' = Append(drafts, [client_wallet |-> posts[p].client_wallet,
                                 reward |-> f.reward, amount_stroops |-> amount,
                                 deadline |-> f.deadline, created_at |-> now,
                                 status |-> "DRAFT"])
    /\ posts' = [posts EXCEPT ![p].draft = Len(drafts) + 1]
    /\ UNCHANGED <<now, session, route, visit, wizardVars, board>>

\* navigate(`/bounties/${created.id}`), although the page may have been left.
HearCreated(p) ==
    /\ posts[p].answer = "awaited" /\ posts[p].draft # 0
    /\ posts' = [posts EXCEPT ![p].answer = "created"]
    /\ route' = "task"
    /\ board' = NoBoard
    /\ ResetWizard
    /\ UNCHANGED <<now, session, visit, drafts>>

\* Whether the wizard of post p is still on the page.
OnPage(p) == route = "create" /\ posts[p].visit = visit

\* Mutant of HearError: the button stays disabled.
HearErrorOnly(p) ==
    /\ posts[p].answer = "awaited"
    /\ posts' = [posts EXCEPT ![p].answer = "error"]
    /\ UNCHANGED <<now, session, route, visit, wizardVars, drafts, board>>

\* The POST was refused, or there was no answer: then the task may be stored
\* already, or be stored yet.
HearError(p) ==
    /\ posts[p].answer = "awaited"
    /\ posts' = [posts EXCEPT ![p].answer = "error"]
    /\ submitting' = IF OnPage(p) THEN FALSE ELSE submitting
    /\ UNCHANGED <<now, session, route, visit, step, form, fieldErrors, criteriaErrors,
                   drafts, board>>

-----------------------------------------------------------------------------
(* What happens elsewhere. *)

SwitchSession ==
    /\ session' \in (Wallets \cup {None}) \ {session}
    /\ UNCHANGED <<now, route, visit, wizardVars, posts, drafts, board>>

PassTime ==
    /\ now < MaxTime
    /\ now' = now + 1
    /\ UNCHANGED <<session, route, visit, wizardVars, posts, drafts, board>>

\* The funding of a task (see BountyService), which the contract only takes
\* before the deadline.
FundDraft(d) ==
    /\ drafts[d].status = "DRAFT" /\ drafts[d].deadline > now
    /\ drafts' = [drafts EXCEPT ![d].status = "OPEN_FUNDED"]
    /\ UNCHANGED <<now, session, route, visit, wizardVars, posts, board>>

Answer == LoadBoard \/ \E p \in DOMAIN posts : HearCreated(p) \/ HearError(p)

CreationNext ==
    \/ OpenMarketplace \/ OpenWizard \/ ReloadBoard
    \/ EditTask \/ EditReward
    \/ \E i \in DOMAIN form.criteria : updateCriterion(i) \/ removeCriterion(i)
    \/ addCriterion
    \/ \E s \in 0..2 : GoBack(s)
    \/ Continue \/ RefuseForm \/ SubmitForm
    \/ \E p \in DOMAIN posts : StoreDraft(p)
    \/ Answer
    \/ SwitchSession \/ PassTime
    \/ \E d \in DOMAIN drafts : FundDraft(d)

\* Every request of the pages is answered or fails.
CreationSpec == CreationInit /\ [][CreationNext]_vars /\ WF_vars(Answer)

-----------------------------------------------------------------------------
WizardTypeOK ==
    /\ step \in 0..3
    /\ form \in Form /\ Len(form.criteria) \in 1..MaxCriteria
    /\ fieldErrors \subseteq FieldNames
    /\ criteriaErrors \in Seq(BOOLEAN)
    /\ submitting \in BOOLEAN

RecordsTypeOK ==
    /\ visit \in 0..MaxTurns
    /\ posts \in Seq(Post) /\ visit + Len(posts) <= MaxTurns
    /\ drafts \in Seq(Draft)
    /\ \A p \in DOMAIN posts : posts[p].draft \in {0} \cup DOMAIN drafts

CreationTypeOK ==
    /\ now \in 0..MaxTime
    /\ session \in Wallets \cup {None}
    /\ route \in {"marketplace", "create", "task"}
    /\ board \in Board
    /\ WizardTypeOK /\ RecordsTypeOK

\* The steps behind the one on the screen are right, whatever way the user went
\* back and forth: only a deadline that has passed since is found out at the end.
StepsBehindAreRight ==
    \A s \in 0..(step - 1) :
        FieldErrors(s) \subseteq {"deadline"} /\ ~HasErrors({}, CriteriaErrors(s))

\* An error stands beside the criterion it was found in, and beside no other,
\* however criteria are added and removed: errors and criteria are two lists.
CriterionErrorIsItsOwn ==
    \A i \in DOMAIN criteriaErrors :
        criteriaErrors[i] =>
            i \in DOMAIN form.criteria /\ form.criteria[i].refused

\* While a task is being created the review on the screen is what was sent: the
\* steps are locked until the answer, so nothing is edited behind its back.
ReviewedIsCreated ==
    submitting =>
        /\ step = 3
        /\ \E p \in DOMAIN posts :
                /\ posts[p].answer = "awaited"
                /\ posts[p].visit = visit /\ posts[p].form = form

\* One wizard does not make two tasks, with two rewards to pay for, unless it
\* was told that the first attempt had failed.
NoSecondDraft ==
    \A p, q \in DOMAIN posts :
        /\ p < q /\ posts[p].visit = posts[q].visit
        /\ posts[p].draft # 0 /\ posts[q].draft # 0
        => posts[p].answer = "error"

\* A task that was stored too late is on nobody's board: the POST may reach the
\* database after the deadline it was validated against, and the API takes it, but
\* nobody can pay for it any more and what is not paid for is not listed.
LateDraftsAreNotListed ==
    \A d \in shownBounties : drafts[d].created_at < drafts[d].deadline

\* The reward stored is the reward typed, to the last stroop, and is shown as such.
StoredRewardIsExact ==
    \A d \in DOMAIN drafts :
        /\ drafts[d].amount_stroops = Denoted(drafts[d].reward)
        /\ Denoted(formatXlm(drafts[d].amount_stroops)) = drafts[d].amount_stroops

\* Neither the button nor the board is busy for ever, wherever the user goes.
VisitSettles ==
    []<>(~submitting /\ (route = "marketplace" => boardState # "loading"))
=============================================================================
