---------------------------- MODULE PayrollDesk ----------------------------
(***************************************************************************)
(* One payroll officer's browser at the requests that wait for payment:    *)
(* SalaryDashboardPage.tsx, SalaryReviewPanel.tsx and salaryApi.ts, with   *)
(* the operations of the server they call and whatever the departments and *)
(* the other officers do meanwhile.                                        *)
(*                                                                         *)
(* A call is handled at once, as in RequestLifecycle; the calls and their  *)
(* answers overtake one another, and either may be lost.  The panel is     *)
(* mounted while the active tab shows the request it was opened for.       *)
(***************************************************************************)
EXTENDS Integers, FiniteSets

CONSTANTS
    Requests,
    Figures,      \* what payroll enters: ticket price, addition, penalty
    Blank,        \* a form without a ticket price
    None,         \* no request
    MaxCalls,     \* bound: the calls of the page
    MaxWrites,    \* bound: the writes to each request up to which others make any
    MaxPending    \* bound: the calls that are under way at a time

ASSUME DeskAssumption ==
    /\ Blank \notin Figures
    /\ None \notin Requests
    /\ MaxCalls \in Nat /\ MaxPending \in Nat
    /\ MaxWrites \in [Requests -> Nat]

Tabs == {"track", "check-request", "salary"}

\* "earlier": with one of the departments.  updatedAt counts the writes.
Item == [stage : {"earlier", "salary-finalization", "completed"}, verified : BOOLEAN,
         figures : Figures, updatedAt : Nat]

Absent == [stage |-> "none"]

\* The order of a list matters only for what is selected first.
List == [Requests -> Item \union {Absent}]

EmptyList == [r \in Requests |-> Absent]

Ids(list) == {r \in Requests : list[r] # Absent}

\* What the officer had entered, and in which state of the request it was saved.
Reliance == [figures : Figures \union {Blank}, updatedAt : Nat]

NothingRelied == [figures |-> Blank, updatedAt |-> 0]

Panel == [request : Requests, form : Figures \union {Blank}, saving : BOOLEAN,
          finalizing : BOOLEAN, dialog : BOOLEAN, relied : Reliance]

NoPanel == [request |-> None]

CallState == {"sent", "answered"}

Load == [n : Nat, tab : Tabs, state : CallState, answer : List]

\* opens: the dialog follows.  mounted: the panel that sent it is still there.
Save == [n : Nat, request : Requests, input : Figures, opens : BOOLEAN, mounted : BOOLEAN,
         state : CallState, answer : Item \union {Absent}]

Finalization == [n : Nat, request : Requests, relied : Reliance, mounted : BOOLEAN,
                 state : CallState, answer : Item \union {Absent}]

VARIABLES
    record,                          \* the stored requests
    activeTab,
    queue, selected,                 \* of each tab
    loading, failed,                 \* of each tab
    panel,
    completedThisSession,
    loads, saves, finalizations,     \* the calls whose outcome the page awaits
    sent                             \* how many calls were made

tabVars == <<queue, selected, loading, failed>>
callVars == <<loads, saves, finalizations, sent>>
vars == <<record, activeTab, queue, selected, loading, failed, panel, completedThisSession,
          loads, saves, finalizations, sent>>

TypeOK ==
    /\ record \in [Requests -> Item]
    /\ activeTab \in Tabs
    /\ queue \in [Tabs -> List]
    /\ selected \in [Tabs -> Requests \union {None}]
    /\ loading \in [Tabs -> BOOLEAN] /\ failed \in [Tabs -> BOOLEAN]
    /\ panel \in Panel \union {NoPanel}
    /\ completedThisSession \in Nat
    /\ loads \subseteq Load /\ saves \subseteq Save /\ finalizations \subseteq Finalization
    /\ sent \in Nat

-----------------------------------------------------------------------------
(* The server. *)

\* PATCH /requests/:id/review by payroll or by the department before it,
\* POST /requests/:id/finalize.
Saved(item, figures) ==
    [item EXCEPT !.verified = TRUE, !.figures = figures, !.updatedAt = @ + 1]

PassedOn(item) == [item EXCEPT !.stage = "salary-finalization", !.updatedAt = @ + 1]

Finalized(item) == [item EXCEPT !.stage = "completed", !.updatedAt = @ + 1]

Savable(item) == item.stage = "salary-finalization"

Finalizable(item) == item.stage = "salary-finalization" /\ item.verified

\* GET /requests by scope, and the filter of getCheckRequestList.
InScope(tab, item) ==
    CASE tab = "track"         -> TRUE
      [] tab = "check-request" -> item.stage = "salary-finalization"
      [] tab = "salary"        -> item.stage = "completed"

Listed(tab) == [r \in Requests |-> IF InScope(tab, record[r]) THEN record[r] ELSE Absent]

\* The departments pass a request on; another officer saves or finalizes.
Elsewhere(r) ==
    /\ record[r].updatedAt < MaxWrites[r]
    /\ \/ /\ record[r].stage = "earlier"
          /\ record' = [record EXCEPT ![r] = PassedOn(@)]
       \/ /\ Savable(record[r])
          /\ \E figures \in Figures : record' = [record EXCEPT ![r] = Saved(@, figures)]
       \/ /\ Finalizable(record[r])
          /\ record' = [record EXCEPT ![r] = Finalized(@)]
    /\ UNCHANGED <<activeTab, tabVars, panel, completedThisSession, callVars>>

-----------------------------------------------------------------------------
(* What the page shows. *)

\* Tells calls under way apart.
FreeNumber(calls) == CHOOSE n \in 1..MaxCalls : \A c \in calls : c.n # n

\* The bounds allow k more calls.
MayCall(k) ==
    /\ sent + k <= MaxCalls
    /\ Cardinality(loads) + Cardinality(saves) + Cardinality(finalizations) + k <= MaxPending

\* selectedRequest, behind the loading and error states.
SelectedRequest(tab, lists, chosen, busy, broken) ==
    IF busy[tab] \/ broken[tab] \/ chosen[tab] \notin Ids(lists[tab]) THEN None ELSE chosen[tab]

\* useState runs its initial value once, when the panel is mounted.
Opened(r, item) ==
    [request |-> r, form |-> IF item.verified THEN item.figures ELSE Blank, saving |-> FALSE,
     finalizing |-> FALSE, dialog |-> FALSE, relied |-> NothingRelied]

\* key={selectedRequest.id}: the panel p stays as long as its request is selected.
Rendered(p, r, list) ==
    IF r = None THEN NoPanel ELSE IF p.request = r THEN p ELSE Opened(r, list[r])

\* The calls of a panel that is unmounted no longer touch one.
Followed(calls, kept) == {[c EXCEPT !.mounted = @ /\ kept] : c \in calls}

\* The page after its state was set, p being the panel that was there.
Render(p, pending, locking) ==
    LET shown == SelectedRequest(activeTab', queue', selected', loading', failed')
        kept == p.request = shown
    IN  /\ panel' = Rendered(p, shown, queue'[activeTab'])
        /\ saves' = Followed(pending, kept)
        /\ finalizations' = Followed(locking, kept)

\* Plausible slips: the selection is kept without a look at the list; the
\* first of an empty list is taken as it comes.
AnySelection(current, list) ==
    IF current # None THEN {current} ELSE IF Ids(list) = {} THEN {None} ELSE Ids(list)

FirstSelection(current, list) ==
    IF current \in Ids(list) THEN {current} ELSE IF Ids(list) = {} THEN {Blank} ELSE Ids(list)

\* selectedId kept if the list still has it, else the first.
Selections(current, list) ==
    IF current \in Ids(list) THEN {current} ELSE IF Ids(list) = {} THEN {None} ELSE Ids(list)

-----------------------------------------------------------------------------
(* The lists. *)

\* loadTrack, loadCheck, loadSalary for each of the tabs ts, up to their await.
StartLoads(ts) ==
    /\ MayCall(Cardinality(ts))
    /\ loading' = [t \in Tabs |-> t \in ts \/ loading[t]]
    /\ failed' = [t \in Tabs |-> t \notin ts /\ failed[t]]
    /\ sent' = sent + Cardinality(ts)
    /\ loads' = loads \union {[n |-> FreeNumber(loads), tab |-> t, state |-> "sent", answer |-> EmptyList] : t \in ts}
    /\ UNCHANGED <<record, queue, selected, completedThisSession>>
    /\ Render(panel, saves, finalizations)

OpenTab(tab) ==
    /\ tab # activeTab
    /\ activeTab' = tab
    /\ StartLoads({tab} \ {"track"})

\* Refresh, or Retry.
Reload ==
    /\ ~loading[activeTab]
    /\ UNCHANGED activeTab
    /\ StartLoads({activeTab})

\* A new localizeError runs the effects of the loads again.
SwitchLanguage ==
    /\ UNCHANGED activeTab
    /\ StartLoads({"track", activeTab})

AnswerLoad(l) ==
    /\ l.state = "sent"
    /\ loads' = (loads \ {l}) \union {[l EXCEPT !.state = "answered", !.answer = Listed(l.tab)]}
    /\ UNCHANGED <<record, activeTab, tabVars, panel, completedThisSession, saves, finalizations, sent>>

LoadEnds(l) ==
    /\ loads' = loads \ {l}
    /\ loading' = [loading EXCEPT ![l.tab] = FALSE]
    /\ UNCHANGED <<record, activeTab, completedThisSession, sent>>
    /\ Render(panel, saves, finalizations)

\* A load that succeeds leaves an older error where it is.
EndLoad(l) ==
    /\ l.state = "answered"
    /\ queue' = [queue EXCEPT ![l.tab] = l.answer]
    /\ \E r \in Selections(selected[l.tab], l.answer) :
         selected' = [selected EXCEPT ![l.tab] = r]
    /\ UNCHANGED failed
    /\ LoadEnds(l)

\* The server refuses, or the call or its answer is lost.
FailLoad(l) ==
    /\ failed' = [failed EXCEPT ![l.tab] = TRUE]
    /\ UNCHANGED <<queue, selected>>
    /\ LoadEnds(l)

SelectRow(r) ==
    /\ ~loading[activeTab] /\ ~failed[activeTab]
    /\ r \in Ids(queue[activeTab])
    /\ selected' = [selected EXCEPT ![activeTab] = r]
    /\ UNCHANGED <<record, activeTab, queue, loading, failed, completedThisSession, loads, sent>>
    /\ Render(panel, saves, finalizations)

-----------------------------------------------------------------------------
(* The panel.  The dialog covers the form but does not disable it. *)

ShownItem == queue[activeTab][panel.request]

\* canFinalize, and neither button disabled.
Ready ==
    /\ panel # NoPanel
    /\ Savable(ShownItem)
    /\ ~panel.saving /\ ~panel.finalizing

Dirty == ~ShownItem.verified \/ panel.form # ShownItem.figures

PanelChanges == UNCHANGED <<record, activeTab, tabVars, completedThisSession, loads>>

Edit(form) ==
    /\ Ready
    /\ form # panel.form
    /\ panel' = [panel EXCEPT !.form = form]
    /\ PanelChanges /\ UNCHANGED <<saves, finalizations, sent>>

\* onSave with what the form holds.
SendSave(opens) ==
    /\ MayCall(1)
    /\ sent' = sent + 1
    /\ saves' = saves \union
         {[n |-> FreeNumber(saves), request |-> panel.request, input |-> panel.form, opens |-> opens,
           mounted |-> TRUE, state |-> "sent", answer |-> Absent]}
    /\ panel' = [panel EXCEPT !.saving = TRUE]

\* saveAdjustments of the panel.
SaveAdjustments ==
    /\ Ready /\ Dirty
    /\ panel.form # Blank
    /\ SendSave(FALSE)
    /\ PanelChanges /\ UNCHANGED finalizations

DialogOpened(p, figures, updatedAt) ==
    [p EXCEPT !.dialog = TRUE, !.relied = [figures |-> figures, updatedAt |-> updatedAt]]

\* A plausible slip: the dialog opens whatever the form holds.
RequestFinalizationAtOnce ==
    /\ Ready
    /\ panel.form # Blank
    /\ panel' = DialogOpened(panel, panel.form, ShownItem.updatedAt)
    /\ PanelChanges /\ UNCHANGED <<saves, finalizations, sent>>

\* What differs from the saved figures is saved before the dialog opens.
RequestFinalization ==
    /\ Ready
    /\ panel.form # Blank
    /\ \/ /\ Dirty
          /\ SendSave(TRUE)
       \/ /\ ~Dirty
          /\ panel' = DialogOpened(panel, panel.form, ShownItem.updatedAt)
          /\ UNCHANGED <<saves, sent>>
    /\ PanelChanges /\ UNCHANGED finalizations

CancelDialog ==
    /\ panel # NoPanel
    /\ panel.dialog /\ ~panel.finalizing
    /\ panel' = [panel EXCEPT !.dialog = FALSE]
    /\ PanelChanges /\ UNCHANGED <<saves, finalizations, sent>>

ConfirmFinalization ==
    /\ panel # NoPanel
    /\ panel.dialog /\ ~panel.finalizing
    /\ MayCall(1)
    /\ sent' = sent + 1
    /\ finalizations' = finalizations \union
         {[n |-> FreeNumber(finalizations), request |-> panel.request, relied |-> panel.relied,
           mounted |-> TRUE, state |-> "sent", answer |-> Absent]}
    /\ panel' = [panel EXCEPT !.finalizing = TRUE]
    /\ PanelChanges /\ UNCHANGED saves

Answered(c, item) == [c EXCEPT !.state = "answered", !.answer = item]

CallChanges == UNCHANGED <<activeTab, tabVars, panel, completedThisSession, loads, sent>>

AnswerSave(s) ==
    /\ s.state = "sent"
    /\ Savable(record[s.request])
    /\ record' = [record EXCEPT ![s.request] = Saved(@, s.input)]
    /\ saves' = (saves \ {s}) \union {Answered(s, record'[s.request])}
    /\ CallChanges /\ UNCHANGED finalizations

AnswerFinalization(f) ==
    /\ f.state = "sent"
    /\ Finalizable(record[f.request])
    /\ record' = [record EXCEPT ![f.request] = Finalized(@)]
    /\ finalizations' = (finalizations \ {f}) \union {Answered(f, record'[f.request])}
    /\ CallChanges /\ UNCHANGED saves

\* current.map: the item in place of the one of its id.
Replaced(list, r, item) == IF r \in Ids(list) THEN [list EXCEPT ![r] = item] ELSE list

\* onSave has returned to the panel: the dialog opens if it was asked for.
AfterSave(p, s) ==
    LET idle == [p EXCEPT !.saving = FALSE]
    IN  IF ~s.mounted THEN p
        ELSE IF s.opens THEN DialogOpened(idle, s.input, s.answer.updatedAt) ELSE idle

AfterFailedSave(p, s) == IF s.mounted THEN [p EXCEPT !.saving = FALSE] ELSE p

SaveEnds == UNCHANGED <<record, activeTab, selected, loading, failed, completedThisSession, loads, sent>>

\* saveAdjustments of the page puts the answer into all three lists.
EndSave(s) ==
    /\ s.state = "answered"
    /\ queue' = [t \in Tabs |-> Replaced(queue[t], s.request, s.answer)]
    /\ SaveEnds
    /\ Render(AfterSave(panel, s), saves \ {s}, finalizations)

FailSave(s) ==
    /\ UNCHANGED queue
    /\ SaveEnds
    /\ Render(AfterFailedSave(panel, s), saves \ {s}, finalizations)

AfterFinalization(p, f) ==
    IF f.mounted THEN [p EXCEPT !.finalizing = FALSE, !.dialog = FALSE] ELSE p

FinalizationEnds(f) ==
    /\ UNCHANGED <<record, activeTab, loading, failed, loads, sent>>
    /\ Render(AfterFinalization(panel, f), saves, finalizations \ {f})

\* finalizeRequest of the page.
EndFinalization(f) ==
    /\ f.state = "answered"
    /\ queue' = [queue EXCEPT !["track"] = Replaced(@, f.request, f.answer),
                              !["check-request"] = [@ EXCEPT ![f.request] = Absent],
                              !["salary"] = [@ EXCEPT ![f.request] = f.answer]]
    /\ \E next \in Selections(selected["check-request"], queue'["check-request"]) :
         selected' = [selected EXCEPT !["salary"] = f.request, !["check-request"] = next]
    /\ completedThisSession' = completedThisSession + 1
    /\ FinalizationEnds(f)

FailFinalization(f) ==
    /\ UNCHANGED <<queue, selected, completedThisSession>>
    /\ FinalizationEnds(f)

-----------------------------------------------------------------------------
\* The page is opened: the first effect loads the track list.
Init ==
    /\ record \in [Requests -> {[stage |-> s, verified |-> FALSE, figures |-> claimed, updatedAt |-> 0] :
                                 s \in {"earlier", "salary-finalization"}, claimed \in Figures}]
    /\ activeTab = "track"
    /\ queue = [t \in Tabs |-> EmptyList]
    /\ selected = [t \in Tabs |-> None]
    /\ loading = [t \in Tabs |-> TRUE]
    /\ failed = [t \in Tabs |-> FALSE]
    /\ panel = NoPanel
    /\ completedThisSession = 0
    /\ loads = {[n |-> 1, tab |-> "track", state |-> "sent", answer |-> EmptyList]}
    /\ saves = {} /\ finalizations = {}
    /\ sent = 1

LoadStep(l) == AnswerLoad(l) \/ EndLoad(l) \/ FailLoad(l)
SaveStep(s) == AnswerSave(s) \/ EndSave(s) \/ FailSave(s)
FinalizationStep(f) == AnswerFinalization(f) \/ EndFinalization(f) \/ FailFinalization(f)

PanelStep ==
    \/ \E form \in Figures \union {Blank} : Edit(form)
    \/ SaveAdjustments \/ RequestFinalization \/ CancelDialog \/ ConfirmFinalization

PageStep ==
    \/ \E tab \in Tabs : OpenTab(tab)
    \/ Reload \/ SwitchLanguage
    \/ \E r \in Requests : SelectRow(r)

Next ==
    \/ \E r \in Requests : Elsewhere(r)
    \/ PageStep \/ PanelStep
    \/ \E l \in loads : LoadStep(l)
    \/ \E s \in saves : SaveStep(s)
    \/ \E f \in finalizations : FinalizationStep(f)

Spec == Init /\ [][Next]_vars

-----------------------------------------------------------------------------
(* Properties *)

\* What was in the form when "Finalize payment" was pressed is what the server
\* locks, unless somebody wrote to the request between the state the officer
\* relied on and the lock: the form is saved first, the dialog opens on the
\* answer, and a list that arrives late or for another tab puts nothing else
\* under the officer's confirmation.
LockedAsEntered ==
    \A f \in finalizations :
        f.state = "answered" /\ f.answer.updatedAt = f.relied.updatedAt + 1
            => f.answer.figures = f.relied.figures

\* Each tab's selection is on its list, and a list with requests has one
\* selected, whichever way answers of loads, saves and finalizations overtake
\* one another.
SelectionBelongsToList ==
    \A t \in Tabs :
        IF Ids(queue[t]) = {} THEN selected[t] = None ELSE selected[t] \in Ids(queue[t])
=============================================================================
