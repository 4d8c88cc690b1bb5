----------------------------- MODULE ReviewDesk -----------------------------
(***************************************************************************)
(* The approvals page of one reviewer: useApprovalQueue.ts, ApprovalQueue, *)
(* DepartmentReviewPanel and the form of the reviewer's department, with   *)
(* the operations of the server they call and whatever the owners and the  *)
(* colleagues do meanwhile.                                                *)
(*                                                                         *)
(* The queue is of one stage, so the panel shows one kind of form, and no  *)
(* key ties the form to its row: it lives as long as a row is shown, and   *)
(* takes its values from the row it was opened for.  Calls are handled at  *)
(* once; calls and answers overtake one another, and either may be lost.   *)
(***************************************************************************)
EXTENDS Integers, FiniteSets

CONSTANTS
    Departments,  \* of the reviewers considered
    Requests,     \* that are or will be in the reviewer's queue
    Figures,      \* what a department verifies: accommodation, method, dates
    Methods,      \* the figures the form of transportation can show
    FirstMethod,
    None,         \* no request
    MaxCalls,     \* bound: the calls of the page, but for the reloads of decisions
    MaxWrites,    \* bound: the writes to each request up to which others make any
    MaxPending    \* bound: the calls that are under way at a time

ASSUME ReviewAssumption ==
    /\ Departments \subseteq {"manager", "pr", "transportation", "timing"}
    /\ FirstMethod \in Methods /\ Methods \subseteq Figures
    /\ None \notin Requests
    /\ MaxCalls \in Nat /\ MaxPending \in Nat
    /\ MaxWrites \in [Requests -> Nat]

\* Seen from the reviewer's department; "passed" is approved or rejected.
Item == [stage : {"earlier", "here", "passed"}, figures : Figures, updates : Nat]

IsQueue(q) == DOMAIN q \subseteq Requests /\ q \in [DOMAIN q -> Item]

\* note: the request that was shown when the comment was written.  typed: the
\* reviewer entered the figures.  moved: another row was chosen since the form
\* was opened.  seen: how often the row had been written to by then.
Form == [figures : Figures, note : Requests \union {None}, typed : BOOLEAN,
         moved : BOOLEAN, seen : Nat]

NoForm == [figures |-> FirstMethod, note |-> None, typed |-> FALSE, moved |-> FALSE, seen |-> 0]

IsLoad(l) ==
    /\ DOMAIN l = {"n", "state", "answer"}
    /\ l.n \in Nat /\ l.state \in {"sent", "answered"} /\ IsQueue(l.answer)

Decision == [n : Nat, kind : {"approve", "reject"}, request : Requests, form : Form,
             state : {"sent", "accepted"}]

EmptyQueue == [r \in {} |-> None]

VARIABLES
    department,        \* the reviewer's
    record,            \* the stored requests
    queue, loading, failed,
    selected, form,    \* of the mounted queue and panel
    loads, decisions,  \* the calls whose outcome the page awaits
    sent               \* how many calls were made

pageVars == <<queue, loading, failed, selected, form>>
vars == <<department, record, queue, loading, failed, selected, form, loads, decisions, sent>>

TypeOK ==
    /\ department \in Departments
    /\ record \in [Requests -> Item]
    /\ IsQueue(queue)
    /\ loading \in BOOLEAN /\ failed \in BOOLEAN
    /\ selected \in DOMAIN queue \union {None}
    /\ form \in Form
    /\ (\A l \in loads : IsLoad(l)) /\ decisions \subseteq Decision
    /\ sent \in Nat

-----------------------------------------------------------------------------
(* The server. *)

\* The stored stage decides, whatever the page shows; managers edit nothing.
Decided(item, d) ==
    [item EXCEPT !.stage = "passed",
                 !.figures = IF d.kind = "approve" /\ department # "manager" THEN d.form.figures ELSE @,
                 !.updates = @ + 1]

\* GET /requests?scope=queue.
Waiting == [r \in {q \in Requests : record[q].stage = "here"} |-> record[r]]

\* The owner corrects a request, an earlier department or a colleague edits it;
\* it is passed on to this department, or by a colleague to the next.  What a
\* review by timing enters is verified times, which the form does not show.
Elsewhere(r) ==
    /\ record[r].stage # "passed"
    /\ record[r].updates < MaxWrites[r]
    /\ \/ /\ record[r].stage = "earlier" \/ department # "timing"
          /\ \E figures \in Figures :
                record' = [record EXCEPT ![r].figures = figures, ![r].updates = @ + 1]
       \/ record' = [record EXCEPT
             ![r].stage = IF @ = "earlier" THEN "here" ELSE "passed", ![r].updates = @ + 1]
    /\ UNCHANGED <<department, pageVars, loads, decisions, sent>>

-----------------------------------------------------------------------------
(* What the page shows. *)

FreeNumber(calls) == CHOOSE n \in 1..(2 * MaxCalls) : \A c \in calls : c.n # n

MayCall ==
    /\ sent < MaxCalls
    /\ Cardinality(loads) + Cardinality(decisions) < MaxPending

\* A select shows one of its options, the first if the stored method is none.
Displayed(figures) ==
    IF department = "transportation" /\ figures \notin Methods THEN FirstMethod ELSE figures

\* useState runs its initial value once, when the form is mounted.
Opened(item) ==
    [NoForm EXCEPT !.figures = Displayed(item.figures), !.seen = item.updates]

\* A plausible slip: the selection moves to the first row without a render
\* between, so that the form stays.
KeptForm(r, current) ==
    IF r = None THEN NoForm ELSE IF selected # None THEN current ELSE Opened(queue'[r])

FormFor(r, current) == IF r = None THEN NoForm ELSE Opened(queue'[r])

\* A plausible slip: the selection is kept without a look at the list.
KeepsAnySelection(rows) == selected # None /\ rows # {}

KeepsSelection(rows) == selected \in rows

\* The page after its state was set.  The loading and error states unmount the
\* queue; a mounted one keeps its row if the list still has it, else an effect
\* selects the first, after a render without a panel.
Render ==
    LET mounted == ~loading' /\ ~failed'
        rows == IF mounted THEN DOMAIN queue' ELSE {}
    IN  IF KeepsSelection(rows) THEN UNCHANGED <<selected, form>>
        ELSE \E r \in IF rows = {} THEN {None} ELSE rows :
                /\ selected' = r
                /\ form' = FormFor(r, form)

-----------------------------------------------------------------------------
(* The queue: fetchQueue. *)

\* Up to its await.  What was shown stays in the state, behind the loading one.
FetchQueue ==
    /\ loading' = TRUE
    /\ loads' = loads \union {[n |-> FreeNumber(loads), state |-> "sent", answer |-> EmptyQueue]}
    /\ UNCHANGED <<department, record, queue, failed>>
    /\ Render

\* The button of the error state.
Retry ==
    /\ failed /\ ~loading
    /\ MayCall /\ sent' = sent + 1
    /\ FetchQueue
    /\ UNCHANGED decisions

\* A new localizeError runs the effect again.
SwitchLanguage ==
    /\ MayCall /\ sent' = sent + 1
    /\ FetchQueue
    /\ UNCHANGED decisions

AnswerLoad(l) ==
    /\ l.state = "sent"
    /\ loads' = (loads \ {l}) \union {[l EXCEPT !.state = "answered", !.answer = Waiting]}
    /\ UNCHANGED <<department, record, pageVars, decisions, sent>>

EndLoad(l) ==
    /\ l.state = "answered"
    /\ queue' = l.answer /\ failed' = FALSE /\ loading' = FALSE
    /\ loads' = loads \ {l}
    /\ UNCHANGED <<department, record, decisions, sent>>
    /\ Render

FailLoad(l) ==
    /\ failed' = TRUE /\ loading' = FALSE
    /\ loads' = loads \ {l}
    /\ UNCHANGED <<department, record, queue, decisions, sent>>
    /\ Render

-----------------------------------------------------------------------------
(* The panel.  No button is disabled while a decision is under way. *)

SelectRow(r) ==
    /\ selected \notin {r, None}
    /\ r \in DOMAIN queue
    /\ selected' = r
    /\ form' = [form EXCEPT !.moved = TRUE]
    /\ UNCHANGED <<department, record, queue, loading, failed, loads, decisions, sent>>

EnterFigures(figures) ==
    /\ selected # None
    /\ department # "manager"
    /\ figures # form.figures /\ Displayed(figures) = figures
    /\ form' = [form EXCEPT !.figures = figures, !.typed = TRUE]
    /\ UNCHANGED <<department, record, queue, loading, failed, selected, loads, decisions, sent>>

WriteComment ==
    /\ \E note \in {selected, None} \ {form.note} : form' = [form EXCEPT !.note = note]
    /\ UNCHANGED <<department, record, queue, loading, failed, selected, loads, decisions, sent>>

Decide(kind, content) ==
    /\ selected # None
    /\ MayCall /\ sent' = sent + 1
    /\ decisions' = decisions \union
         {[n |-> FreeNumber(decisions), kind |-> kind, request |-> selected, form |-> content,
           state |-> "sent"]}
    /\ UNCHANGED <<department, record, pageVars, loads>>

Approve == Decide("approve", form)

\* The manager's form asks for a reason; that of timing prompts for one.
Reject ==
    \/ /\ department = "manager" /\ form.note # None
       /\ Decide("reject", form)
    \/ /\ department = "timing"
       /\ Decide("reject", [form EXCEPT !.note = IF @ = None THEN selected ELSE @])

AnswerDecision(d) ==
    /\ d.state = "sent"
    /\ record[d.request].stage = "here"
    /\ record' = [record EXCEPT ![d.request] = Decided(@, d)]
    /\ decisions' = (decisions \ {d}) \union {[d EXCEPT !.state = "accepted"]}
    /\ UNCHANGED <<department, pageVars, loads, sent>>

\* handleAction of the hook.
EndDecision(d) ==
    /\ d.state = "accepted"
    /\ decisions' = decisions \ {d}
    /\ FetchQueue
    /\ UNCHANGED sent

\* The server refuses, or the call or its answer is lost.
FailDecision(d) ==
    /\ decisions' = decisions \ {d}
    /\ failed' = TRUE
    /\ UNCHANGED <<department, record, queue, loading, loads, sent>>
    /\ Render

-----------------------------------------------------------------------------
\* The page is opened: the effect of the hook loads the queue.
Init ==
    /\ department \in Departments
    /\ record \in [Requests -> {[stage |-> s, figures |-> claimed, updates |-> 0] :
                                 s \in {"earlier", "here"}, claimed \in Figures}]
    /\ queue = EmptyQueue
    /\ loading = TRUE /\ failed = FALSE
    /\ selected = None /\ form = NoForm
    /\ loads = {[n |-> 1, state |-> "sent", answer |-> EmptyQueue]}
    /\ decisions = {}
    /\ sent = 1

PageStep ==
    \/ Retry \/ SwitchLanguage
    \/ \E r \in Requests : SelectRow(r)
    \/ \E figures \in Figures : EnterFigures(figures)
    \/ WriteComment \/ Approve \/ Reject

LoadStep(l) == AnswerLoad(l) \/ EndLoad(l) \/ FailLoad(l)
DecisionStep(d) == AnswerDecision(d) \/ EndDecision(d) \/ FailDecision(d)

Next ==
    \/ \E r \in Requests : Elsewhere(r)
    \/ PageStep
    \/ \E l \in loads : LoadStep(l)
    \/ \E d \in decisions : DecisionStep(d)

Spec == Init /\ [][Next]_vars

-----------------------------------------------------------------------------
(* Properties *)

\* Why an approval may store other figures than the request had: the reviewer
\* entered them, somebody wrote to the request after the form was opened, or
\* the form cannot show the method that is stored.
ChangeIsExplained(d) ==
    \/ d.form.typed
    \/ record[d.request].updates # d.form.seen
    \/ Displayed(record[d.request].figures) # record[d.request].figures

Accepts(d) == d.state = "sent" /\ [d EXCEPT !.state = "accepted"] \in decisions'

\* A reviewer who stays on the row the form was opened for decides about that
\* request with what was entered for it: lists that arrive late, or one after
\* the other, put no other request's figures or comment under the buttons.
\* After the choice of another row this holds no more: the form keeps its values.
DecidedAsEntered ==
    [][\A d \in decisions :
         Accepts(d) /\ ~d.form.moved =>
             /\ d.form.note \in {None, d.request}
             /\ record'[d.request].figures # record[d.request].figures => ChangeIsExplained(d)]_vars
=============================================================================
