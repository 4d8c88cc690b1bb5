# Travel reimbursement: verification project

TLA+ models of the travel reimbursement application in this repository, the TLC
runs that check them on small instances, and TLAPS proofs of their main
properties for every company, trip, price list, browser and number of calls.
Paths below are relative to the repository root.

## The system

An employee claims a business trip. The request passes manager, PR,
transportation and timing review and is finalized by payroll, which locks the
amount to be paid. The backend is an Express server (`backend/src`), the rules
and types are shared with the browser (`shared`), requests live either in a
process-local array or in PostgreSQL.

| Component | State it keeps | Operations | What is hard about it |
|---|---|---|---|
| Workflow rules: `services/workflowService.ts`, `workflowApplicationService.ts` | none; functions from a request to a request | submit, correct, approve, reject, ask, review, finalize | who may do what when; the audit trail, the price history and the preview must agree with the record after any sequence of calls |
| Request creation: `NewRequestPage.tsx`, `services/requestService.ts`, `shared/date`, `shared/transportation` | the form and its clicks; the number sequence | fill, submit, number, price, insert | awaits between the check and the insertion, double clicks, answers that are lost, numbers allocated before an await |
| Routes: `routes/requestRoutes.ts`, `workflowRoutes.ts`, `services/responseViews.ts` | none across calls | one handler per operation: read, compute, replace, respond | several awaits per handler, so handlers interleave; the response may fail after the commit |
| Request store: `storage/postgresStore.ts`, `memoryStore.ts` | requests, audit events, price revisions | find, list, create, replace, next number | concurrent replacement; a read made of three statements; append-only histories; order of rows with equal timestamps |
| Salary calculation: `services/salaryService.ts`, `shared/salary` | none | initial preview, recalculation | UTC and Cairo days, seven-hour boundary, rounding |
| Authentication: `services/authService.ts`, `middleware/`, `routes/authRoutes.ts` | sessions, failed attempts, limiter (in memory) | login, logout, logout of other sessions, lookup, CSRF check | counters read before and used after an await, idle and absolute expiry, session cap, restart |
| Directory import and migrations: `database/` | users, roles, schema version | import, sync, migrate, seed | accounts that disappear under open requests |
| Browser session: `context/AuthContext.tsx`, `services/authApi.ts`, `api.ts` | per tab the user shown and the CSRF token; per browser the cookie | restore, login, logout, any call | answers that arrive late, tabs that share a cookie, writes that carry another user's session |
| Payroll page: `SalaryDashboardPage.tsx`, `SalaryReviewPanel.tsx` | three lists, selections, a form, a dialog | load, select, save, finalize | lists replaced under an open form, a save awaited before the dialog |
| Approvals page: `useApprovalQueue.ts`, `components/workflow/` | a queue, a selection, a form | load, select, approve, reject | a form that survives the choice of another row, decisions not awaited |
| Development repository: `services/developmentRepository.ts` | mock records in the page | the whole workflow, a second time | must keep the same promise as the server |

The routes call the workflow functions on what the store returned and hand the
result back to the store. The store is the only shared state between handlers;
the directory (users and roles) is shared with the import script, which runs as
a process of its own. The browser sees requests only through the routes, and
every call but a sign-in carries the cookie of the browser and, if it writes,
the token of the tab.

What makes each part correct:

* workflow: a department signs once, in its turn, and only the selected manager
  for the manager; settled figures do not move; the trail accounts for every
  field; the price is always that of the current fields; what is paid was
  verified; every request is eventually decided if the departments work;
* creation: numbers are unique; what is acknowledged is what was filled in;
  nobody submits twice without a reason; the submission window only advances;
* store: concurrent handlers behave as if each call happened at once; what was
  acknowledged stays; terminal requests stay locked;
* calculation: the amount follows the published rules for every calendar date;
* sessions: a session ends at its deadlines, at logout and at eviction, and no
  refresh brings one back; a lockout holds for whoever begins under it;
* browser: a tab acts as the user it shows; what is decided or paid is what was
  entered for the request on the screen;
* import: who is active may change under any call, and the rest stays right.

## Modules

Five abstract parts and the programs that implement or use them:

```
ApprovalRoute  <-- RequestLifecycle (WorkflowService)  <-- RequestStore
       ^                    ^
       |                    +-- TravelAllowance (SalaryCalculation)
       +------- DevelopmentRepository
SessionTable   <-- AuthService
       ^ extended by BrowserSession
RequestSubmission (TravelDatePolicy, TransportationRates)
PayrollDesk
ReviewDesk
```

### The workflow

`ApprovalRoute` is what the documents promise, whichever program keeps it:
departments sign one after the other, each once, and only the manager may take
a request off the route (`random.md/WORKFLOW.md:13`,
`backend.md/README.md:285-296`). Neither program keeps to this `Spec`, because
both let timing reject; `timing_rejects` shows it for the server.
`SpecButForTiming` allows that one step more and nothing else, and this both
programs implement.

`WorkflowService` holds the rules as operators on a request record: for each
handler, `Accepts...` is the conjunction of its guards and early returns and
`...Outcome` the record it stores. It has no variables. The data of a request
is grouped by who may change it (`trip`, `accommodationType`, `transportation`,
`verifiedDates`, `hoursCredited`, `adjustments`, `ticket`, and the three
flags), because that is all the rules tell apart; `Calculate` is a constant
operator, so that everything said about prices holds for any calculation.
The module states two assumptions on its constants: the data are of the right
kinds, and the calculation yields an integer total that does not depend on the
flag for an open question (`recalculateSalaryPreview` does not read it). Its
last section says what a well-kept record looks like (`ContiguousTrail`,
`SignedOnceInOrder`, `TrailExplainsFields`, `ContinuousPrices`,
`PaidAsVerified`): of the request in `RequestLifecycle`, and of the row that
`RequestStore` keeps.

`RequestLifecycle` runs one request through these operators, one call per step.
`request` is the stored record, `windowOpen` says that the owner's 30 minutes
have not passed, `active` is the set of users `findUserById` still finds. Its
actions are the six operations of the routes on a submitted request, the end of
the edit window and a directory import, which may take an account away and give
it back. It implements `ApprovalRoute` but for timing's rejections
(`FollowsRouteButForTiming`; the signatures are the approvals and the
finalization in the trail), and is itself the abstract specification of the
store.

`RequestStore` runs the handlers as the code does: read, compute, replace,
respond, with other handlers at every await. `adapter` is chosen at the start.

| Step | Code |
|---|---|
| `ReadRow`, `ReadAuditEvents`, `ReadPriceRevisions` | `findRequestById`: one step in memory; in PostgreSQL the row first and the two histories in either order, each from its own snapshot |
| `ComputeCorrection`, `ComputeDecision` | the handler's guards and computation, on what it read |
| `ReplaceRequest` | `replaceRequest`: refused if what is stored is terminal or if a stored history is not a prefix of the handler's |
| `Respond` | the view is built and sent; it may fail, and nothing is undone |
| `Fail` | a guard refuses, a statement fails or the process dies before the commit |

Rows of the histories carry ids, which is all the append-only check needs to
tell them apart. `ReadBackOrders` models `ORDER BY created_at, id`: two events
of one call may share a millisecond, and then random ids decide. With
PostgreSQL the directory may change; the development users never do.

`Lifecycle == INSTANCE RequestLifecycle WITH request <- stored.record,
windowOpen <- WindowHeld` is the refinement mapping. A correction is admitted
while the window is open and committed a moment later; in the abstract the
window stays open until its handler is done.

`DevelopmentRepository` is the second implementation of the workflow: the ten
seed records, `createRequest`, `approveRequest`, `rejectRequest`, `requestInfo`,
`updateSalary` and `finalizeSalary`, with the field-by-field updates of the
code, as the API modules call it. A behaviour is one load of the page. Any demo
employee with the right role may act; which page offers which button is left
out. The pages send no `revisedCost`, so the model has none, and `confirmTime`
is never accepted. The numbers of new requests follow the largest one there is;
`Joined` is the spread of TypeScript. It follows the route as far as the server
does: `Stage` and `Signed` read the route's two variables off the records and
their trails. The one cancelled seed was rejected by its manager.

### The amounts

`SalaryCalculation` is the amount of a trip as pure operators: the rates and
factors of `shared/constants`, `calculateSalary`, and the calendar of
`salaryService.ts`. An instant is a number of minutes in UTC; `CairoOffset`, a
constant operator, turns it into the clock in Cairo, summer time included.
Amounts are whole hundredths of the currency and, inside `CalculateSalary`,
fortieths of a hundredth, in which every factor is exact; `Rounded` is the
rounding of the code on them. Hours are kept in minutes.

`TravelAllowance` extends `RequestLifecycle` and `SalaryCalculation`. It adds no
action: `AllowanceParameters` says that the lifecycle's trips are itineraries of
two instants and that its `Calculate` is `RecalculateSalaryPreview` (TLC finds
it true of the instance that is checked, and the theorems that need it name it),
and the module states what an employee must be paid after any sequence of calls. `AllowanceByTheRules` is the
reference, written from `random.md/SALARY_RULES.md`: midnights are counted one
by one, hours are seven or not, and no input of `calculateSalary` is mentioned.

`hoursCredited` stands for the two fields `verifiedSameDayHours` and
`verifiedReturnDayHours`, of which at most one is set. Which one follows from
the dates they were recorded with (`VerifiedOnOneDay`), and the code never
changes the hours without those dates.

### Submitting

`RequestSubmission` follows a request from the form to the store:
`NewRequestPage` with its managers, its files and its button, `useRequest` with
the one loading flag that the list and the submission share, `POST /requests`
with a step at every await (allocate a number, look up the manager, insert,
look up the owner for the answer), and the insertion of both adapters. A
connection may break at any time, before or after its call is handled. A click
remembers what the form held (`shown`), so that the answer can be compared with
it. `TravelDatePolicy` is the submission window over a calendar given as a
sequence of months; `TransportationRates` the fares of the two price lists.
Role and token checks are in `BrowserSession`, the salary preview in
`SalaryCalculation`, the memory adapter's fixtures and the date input's `min`
are left out, and the server's UTC year and the browser's local day are of one
calendar. With PostgreSQL a manager may have left by the time he is looked up.

### Sessions

`SessionTable` is what browsers may rely on: a token is issued once, for one
user, and a session that has ended stays ended.

`AuthService` is `authService.ts` with the three ways to sign in (development
passwords, LDAP, IIS). Failure entries are a heap: an attempt holds a reference
to its entry across the awaited comparison, while others lock, expire, evict or
delete it. Sessions have a last use and an absolute deadline; `Restart` empties
everything. `wrong` counts the wrong passwords since a name's entry began and is
there for the properties only. The module implements `SessionTable`.

`BrowserSession` extends `SessionTable` with the tabs of one browser, the cookie
they share, and calls with all their steps: sent, taken up by
`csrfProtection` and `authMiddleware` (which behind IIS may open a session),
handled, answered, delivered or lost. A reload gives up calls that the server
may still handle. Time is abstracted into sessions that end when they like;
behind IIS the browser has one Windows identity.

### Pages

`PayrollDesk` is the payroll officer's page: three tabs with their lists, the
panel with its form and dialog, loads, saves and finalizations under way, and
everybody else (`Elsewhere`). `Figures` are ticket, addition and penalty as one
value, `Blank` is a form without a ticket price. `relied` records what was
entered and the state it was saved in when *Finalize payment* was pressed; a
finalization carries it along. The order of a list is abstracted (any row may
come first), invalid amounts send nothing, and the backdrop of the dialog does
not disable the form under it, as in the page.

`ReviewDesk` is the approvals page of the other departments, one department per
visit: the queue is that of the role's stage, so all rows use the same form.
Leaving the loaded state unmounts the queue and the form with it; a list that
replaces another without a pause keeps the form if its row stays. The form
remembers which request was shown when its comment was written (`note`),
whether figures were typed, whether another row was chosen since (`moved`), and
how often the row had been written to (`seen`). Managers verify no figures; the
form of timing does not show the times a review has entered. The PR form
differs from that of timing only in having no rejection. No button is disabled
while a decision is under way. Requests for information and
time confirmations have no form in these pages.

In both modules a call is handled at once, as in `RequestLifecycle`. A call that
is lost for the page and handled later is a write by `Elsewhere`.

### Proofs and instances

`X_proofs` holds the theorems of module `X`; `MCX` gives its constants small
values. `WorkflowService_proofs` says what each handler makes of a record and is
extended by the proofs of the lifecycle and of the store;
`RequestLifecycle_proofs` has the lemmas about `ApprovalRoute`, and the theorems
of `TravelAllowance` with those about `SalaryCalculation`;
`BrowserServices_proofs` has the theorems of `BrowserSession` and, apart from
them, those of `DevelopmentRepository`, whose initial state, steps and type
therefore bear names of their own (`RepositoryInit`, `RepositoryNext`, ...).

## Runs

| Run | Checks | Shows |
|---|---|---|
| `lifecycle` | `AuditTrailIsContiguous`, `DepartmentsSignOnceInOrder`, `AuditTrailExplainsFields`, `PreviewFollowsFields`, `PriceHistoryIsContinuous`, `PaidOnVerifiedFigures`, `SettledFieldsStayFrozen`, `FollowsRouteButForTiming`, `EventuallyDecided` | the rules are right when calls do not overlap, implement `ApprovalRoute` but for timing's rejections, and have no stage that is a dead end |
| `timing_rejects` | violated: `FollowsRoute` | with them the server leaves the documents' route |
| `allowance` | `InitialPreviewIsRecalculated`, `OneWayPaysExpensesOnly`, `VerifiedTripsFollowTheRules` | what is claimed, corrected and verified is paid by the published rules, where both calendars agree on one-day trips |
| `same_day_doc` | violated: `SameDayTravelReceivesHalf` | where they do not, a same-day trip is paid nothing for its hours |
| `store` | type, `ActsAtomically`, `PaidOnStoredFigures`, `AcknowledgedRowsStay`, `TerminalStaysLocked` | with the memory adapter overlapping handlers implement the lifecycle; with both, what survives torn reads |
| `torn_read_order` | violated: `DepartmentsDecideInOrder` | what does not survive them with PostgreSQL |
| `auth` | type, `RefusedWhileLocked`, `LockedAfterMaxAttempts`, `NewestSessionsSurvive`, `KeepsSessionTable` | overlapping attempts neither pass nor lose a lock; the session cap ends the oldest good session and only at the limit; tokens behave as a `SessionTable` |
| `browser_session` | type, `TabHoldsItsUsersToken`, `WritesAreMadeAsShown`, `WritesActInTheirSession`, `LoadingEndsWithACall` (and deadlock) | late answers and shared cookies never make a tab act as somebody else |
| `submission` | type, `NumbersAreUnique`, `AcknowledgedAsShown`, `DuplicatesHaveAReason`, `WindowMovesForward` | submission with double clicks, late files and lost answers, under both adapters |
| `payroll_desk` | type, `LockedAsEntered`, `SelectionBelongsToList` | what was in the form at *Finalize payment* is what is locked, unless somebody else wrote in between |
| `review_desk` | type, `DecidedAsEntered` | a reviewer who stays on the row decides with what was entered for it, whatever the queue does |
| `dev_repository` | type, `PricesAreExplained`, `FollowsRouteButForTiming` | the mock implements `ApprovalRoute` but for timing's rejections, and its prices can be followed |

The lifecycle's `TypeOK` and `StagesOnlyAdvance` are proved (below);
`FollowsRouteButForTiming` covers the second in the run.

### Findings

* `torn_read_order`: a handler that reads the row, is overtaken by a commit, and
  then reads the histories holds an old row with a complete history. The check
  in `replaceRequest` compares histories only, so the old row is stored: a
  request moves back a stage (`storage/postgresStore.ts:245`). The row's
  `version` column is incremented and never compared. In the same way an
  adjustment that was saved can be missing from the amount that is locked,
  although the trail still shows it.
* `same_day_doc`: timing's hours go to the same-day field if the two dates agree
  in UTC, but the calculation reads that field only if they agree in Cairo. A
  trip that starts between midnight and two (in summer, three) in the morning in
  Cairo and ends the same day loses its half day's allowance, and one that spans
  midnight in Cairo but not in UTC loses its return day.
* `timing_rejects`: the request passes manager, PR and transportation and is then
  cancelled by timing (`workflowService.ts:173`), although
  `random.md/WORKFLOW.md:13` says "Only Manager may reject" and
  `backend.md/README.md:296`, of the table that the backend must implement
  exactly, "Later departments cannot reject". The development repository does the
  same (`developmentRepository.ts:401`), although its test has the title "enforces
  manager-only rejection" (`developmentRepository.test.ts:49`; it tries PR alone).
  No run repeats the finding there; `FollowsRouteButForTiming` names the exception
  in both.

What else was met while reading and modelling, and no run is about:

* `components/workflow/ApprovalQueue.tsx:50` mounts `DepartmentReviewPanel`
  without a key (the payroll page has one, `SalaryDashboardPage.tsx:422`).
  Choosing another row keeps the accommodation, the method, the times, the
  attendance tick and the comment of the row the form was opened for, and
  *Approve* stores them with the request that is shown. `DecidedAsEntered`
  excludes forms that were `moved`, so it says nothing of this; no document
  speaks of it that a run could hold the code to.
* `TransportationReviewForm.tsx:18-22` shows the first option, "Employee's
  Private Car", for a stored method that is not one of the options, such as the
  company bus of the seeds, and *Approve* stores it. `ChangeIsExplained` allows
  for this.
* `TimingReviewForm.tsx:7` puts the UTC digits of a time into an input that is
  read back as local time.
* A double click on *Approve* sends two decisions; the first is accepted, the
  second refused, and the page reports a failure.
* The answer to a payroll save goes into all three lists
  (`SalaryDashboardPage.tsx:240-242`), contrary to the comment at 128-129.
* A correction by the owner changes the calculation without a price revision
  (`requestRoutes.ts:159`), although `random.md/WORKFLOW.md:13` says that every
  calculation change creates one. `PriceHistoryIsContinuous` speaks of the
  revisions there are.
* The manager's confirmation of verified times, which a comment announces
  (`workflowService.ts:198-200`), can neither be asked for nor given: nothing
  sets `timeNeedsVerification`.
* The edit and the approval of one call are often created in the same
  millisecond; read back (`postgresStore.ts:119`), they appear in random order.
* The development repository recalculates on the submitted dates, not the
  verified ones; an update of the salary that leaves the total records no
  event, although `SalaryReviewPanel.tsx:282` says all payroll actions are
  recorded; payroll events always name `u8`.

### Bounds, and why they are enough

* Lifecycle. `EditsPerStage` caps the events that keep the stage; the first
  ticket price is always allowed, since a request cannot complete without it.
  The cap is the only thing that bounds a trail: stages never repeat. One edit
  per stage lets every edit meet every later stage and, with a correction, every
  earlier figure; two edits of one stage add no new relation between fields,
  because an edit overwrites a group as a whole. The company has one user per
  role, a second manager nobody selected, and a payroll employee who travels.
  There are three trips (same day, several nights with a return day, one way),
  two accommodations, an adjustment whose bonus and penalty cancel out, and two
  ticket prices.
* Store. Two symmetric handlers: a conflict is between the handler that commits
  and one that read before it. `EditsPerStage` is for the memory adapter,
  `TornEdits` for PostgreSQL; zero still leaves attendance, the first ticket
  price, approvals and rejections. `FirstAccommodations` are those claimed at first
  and, with PostgreSQL, the only ones; in memory corrections and reviews change
  the accommodation to another one and back. `MaxEvents` stops handlers from
  extending long trails. Completing a request takes eight events (submission,
  three approvals, attendance and approval by timing, ticket price,
  finalization); a department that a torn read makes act twice, or a second
  ticket price, is the ninth. `torn_read_order` has one torn edit as well.
* The state constraint `Scope` keeps the store's run within minutes; the run
  checks safety only. It follows two kinds of requests. One-way trips without a
  price, up to eight events: in memory everything may happen to them; with
  PostgreSQL two handlers overlap at the stages of the manager, PR and
  transportation, and users leave while at most one is busy. Round trips for which
  payroll enters either nothing or a ticket price and a penalty, up to nine
  events, with PostgreSQL: two handlers overlap at the stages of the manager,
  timing and payroll. A handler that has read the request at another stage runs
  alone. With PostgreSQL the window stays open, since there are no corrections to
  see it close. Among the 650,000 states are completed round trips that the
  manager approved twice after a torn read, others with two payroll edits, and
  others whose locked amount lacks a ticket price or a penalty that a handler had
  stored before.
* `allowance` has four instants, chosen on both sides of every limit: 01:30 in
  Cairo, which is the day before in UTC; 23:30 of that day; 14:59 and 15:00 of
  the next one, one minute before and at the seventh hour, after summer time has
  begun. Their ten itineraries cover trips that both calendars call one day,
  that only Cairo does, and that span a night with and without a return day.
  One level is enough, because the amounts are linear in the rate; one
  accommodation, because the factor enters in one place. The theorems lift both.
* `auth`: two overlapping attempts on one user with two spellings of the name,
  a lock after two wrong passwords, a failure map of one entry (so that every
  new name evicts), two sessions per user. With passwords the attempts are
  explored and one session is issued, behind IIS the sessions, four of them.
* `browser_session`: two tabs, two calls, two users, two sessions. A confusion
  needs one call that is late and one that overtakes it.
* `submission`: one page; three clicks in memory, where numbers can collide, two
  and a second form with PostgreSQL; one change of language. The calendar has
  three short months, so that the window is cut to a shorter month on the first
  day and the year ends. The proofs hold for any number of pages and calendars.
* `payroll_desk`, `review_desk`: two requests, of which others write to one; two
  sets of figures; four calls, two of them under way at a time. Reloads after a
  decision are not counted. With a load overtaken by a decision or another load
  the form already meets every list it can.
* `dev_repository`: seven operations, which is just enough to create a request,
  have it approved four times, save and finalize it; two records are touched.
  Six forms cover what `createRequest` accepts and refuses.

`CHECK_DEADLOCK FALSE` where requests end or a bound stops the run; in
`browser_session` there is always something to do, and deadlock is checked.

### Fairness

Only `EventuallyDecided` uses any: each department eventually approves or
finalizes what it can, and payroll eventually enters a ticket price. No
scheduler in the code makes a reviewer act, so this is an assumption about the
company; it is stated for departments only, never for the owner or the
directory, and `Leavers` is empty in `lifecycle` because a departed owner
strands his request for good (see hazards); imports are among the steps of
`allowance` and `store`, and the theorems about the lifecycle hold for any
`Leavers`. Weak fairness is enough: a request stays in a queue until someone
acts on it. The pages assume none: any call or answer may be lost. `LoadingEndsWithACall`
is the safety half of what could be said of them.

## Proofs

Everything is proved for all values of the constants that satisfy the named
assumptions of the modules, without any bound on trails, users, calls or clocks
but those the constants name.

| Module | Theorem | Statement |
|---|---|---|
| `RequestLifecycle_proofs` | `SpecInv` | `Spec => []Inv` |
| | `TypeCorrect` | `Spec => []TypeOK` |
| | `TrailContiguous` | `Spec => []AuditTrailIsContiguous` |
| | `DepartmentsSignOnce` | `Spec => []DepartmentsSignOnceInOrder` |
| | `TrailExplains` | `Spec => []AuditTrailExplainsFields` |
| | `PreviewCurrent` | `Spec => []PreviewFollowsFields` |
| | `PricesContinuous` | `Spec => []PriceHistoryIsContinuous` |
| | `FinalAmountVerified` | `Spec => []PaidOnVerifiedFigures` |
| | `RequestsOnlyAdvance` | `Spec => StagesOnlyAdvance` |
| | `SettledFieldsAreFrozen` | `Spec => SettledFieldsStayFrozen` |
| | `ServerFollowsRoute` | `Spec => FollowsRouteButForTiming`: the server implements `ApprovalRoute`, but for the rejections by timing |
| | `SignaturesFollowTheStages` | `Spec => []Route!SignedInTurn` |
| | `AmountsAddUp` | the rounded parts of a calculation add up to its rounded total |
| | `RecalculationMeetsAssumption` | if `AllowanceParameters`: the program's calculation satisfies `CalculateAssumption` |
| | `VerifiedTripsArePricedByTheRules` | if `AllowanceParameters`: `Spec => []VerifiedTripsFollowTheRules` |
| | `OneWayIsPaidExpenses` | if `AllowanceParameters`: `Spec => []OneWayPaysExpensesOnly` |
| | `SubmissionKeepsPreview` | if `AllowanceParameters`: `Spec => []InitialPreviewIsRecalculated` |
| `RequestStore_proofs` | `SpecStoreInv` | `Spec => []StoreInv` |
| | `StoreTypeCorrect` | `Spec => []TypeOK` |
| | `StoredFiguresPaid` | `Spec => []PaidOnStoredFigures` |
| | `NothingAcknowledgedIsLost` | `Spec => AcknowledgedRowsStay` |
| | `TerminalIsLocked` | `Spec => TerminalStaysLocked` |
| | `SpecMemoryInv` | `Spec => []MemoryInv` |
| | `MemoryActsAtomically` | `Spec => ActsAtomically` |
| | `MemoryImplementsLifecycle` | `Spec /\ adapter = "memory" => Lifecycle!Spec` |
| `RequestSubmission_proofs` | `TypeCorrect` | `Spec => []TypeOK` |
| | `NumbersStayUnique` | `Spec => []NumbersAreUnique` |
| | `AcknowledgementsAreTrue` | `Spec => []AcknowledgedAsShown` |
| | `DuplicatesAreExplained` | `Spec => []DuplicatesHaveAReason` |
| | `WindowOnlyAdvances` | `Spec => WindowMovesForward` |
| `AuthService_proofs` | `SpecAuthInv` | `Spec => []AuthInv` |
| | `TypeCorrect` | `Spec => []TypeOK` |
| | `LockedAttemptsAreRefused` | `Spec => []RefusedWhileLocked` |
| | `LocksCountFailures` | `Spec => []LockedAfterMaxAttempts` |
| | `OldestSessionsEnd` | `Spec => NewestSessionsSurvive` |
| | `SessionsEndForGood` | `Spec => KeepsSessionTable`: the service implements `SessionTable` |
| `BrowserServices_proofs` | `TypeCorrect` | `Spec => []TypeOK` |
| | `TabsHoldTheirUsersToken` | `Spec => []TabHoldsItsUsersToken` |
| | `WritesAreAttributed` | `Spec => []WritesAreMadeAsShown` |
| | `WritesKeepTheirSession` | `Spec => []WritesActInTheirSession` |
| | `RestoringTabsHaveACall` | `Spec => []LoadingEndsWithACall` |
| | `RepositoryTypeCorrect` | `RepositorySpec => []RepositoryTypeOK` |
| | `PricesAlwaysExplained` | `RepositorySpec => []PricesAreExplained` |
| | `RepositoryFollowsRoute` | `RepositorySpec => FollowsRouteButForTiming`: so does the mock |
| | `RepositorySignsInTurn` | `RepositorySpec => []Route!SignedInTurn` |
| `PayrollDesk_proofs` | `LockingIsAsEntered` | `Spec => []LockedAsEntered` |
| | `SelectionsStayOnTheirLists` | `Spec => []SelectionBelongsToList` |
| | `TypeCorrect` | `Spec => []TypeOK` |
| `ReviewDesk_proofs` | `DecidesAsEntered` | `Spec => DecidedAsEntered` |
| | `TypeCorrect` | `Spec => []TypeOK` |

**Lifecycle.** `Inv` says that the request is *kept*, which has four parts.

* *Sound*: well typed, its trail contiguous and ending at its stage, its preview
  the calculation on its fields, and its figures *traced*. These are inductive
  together but not one by one: that an appended event fits needs the stage at
  the end of the trail, that a record stays well typed needs the type of the
  calculation. `PaidOnVerifiedFigures` speaks of completed requests and is not
  inductive at all. Tracing is what it needs on the way: from
  `salary-finalization` on, the trail holds timing's approval and the verified
  dates are not null; whenever `ticketVerified` is set, some payroll event set
  it; a completed request's final salary is the calculation on its fields.
* *Well kept*: the three properties of the trail. Each handler appends one
  event or none, and the event *records* the step (`Records`): it goes from the
  stage before to the stage after, and its changes are the differences of the
  fields. `EventExplainsFields` shows that a chain of changes stays one when
  such an event is appended, `EachDepartmentSignsOnce` and its companions that
  an approval is new exactly when the stage moves past its department.
* *Prices kept*: `PriceHistoryIsContinuous` would break if a correction, which
  changes the price without a revision, came after one. It cannot: corrections
  end with the manager's stage, and until then there is no revision
  (`r.stage = "manager-review" => r.priceRevisions = <<>>`). Only the
  finalization adds a revision that leaves the total as it is, and nothing
  follows it.
* *Flag down*: nothing sets `timeNeedsVerification`, so no manager ever edits
  after his stage.

The proof follows the code: lemmas for the building blocks (`EditRequestEffect`,
`WithFinancialEditsEffect`, `ApprovedEffect`, ...) say what each function does
to a well-typed record, lemmas per handler (`ApprovalSound`,
`ApprovalWellKept`, `ApprovalKeepsPrices`, ...) what it does to a record that is
kept, and `NextInv` puts the actions together. For the action properties every
handler is also *lawful* (`ApprovalLawful`, ...): it runs at a stage that is not
terminal, goes one stage ahead or cancels, and moves only fields that are open
there. The refinement of `ApprovalRoute` says of each handler which roles its
new events name; a rejection is a step of the route at the manager's stage and
the one step beside it at timing's.

**Store.** A torn read gives a handler of PostgreSQL an old row with newer
histories, so nothing like `Inv` holds of what it has seen. What `StoreInv`
keeps is weaker and enough:

* the stored record is sound (its trail contiguous, its figures traced) but not
  well kept: a replaced row may go back a stage, as `torn_read_order` shows,
  and its trail remains contiguous only because the handler appended to the
  trail it saw, from the stage it saw;
* a handler's row is sound by itself (`RowTraced`), and if it says that payroll
  has entered a ticket, the event that did so was stored by then, hence is in
  the trail it reads later;
* no event that is stored and that the handler has not seen has an id of its
  making (`Own`), and ids are made for one place (`Placed`). Therefore a trail
  that begins with the stored one is either the one it saw with its own event,
  or was overtaken and differs at the first event it did not see. This is where
  the append-only check of `replaceRequest` does its work, and why nothing that
  was acknowledged is lost.

`MemoryInv` adds that a handler of the memory adapter has seen one state of the
record, which is the stored one if the ids of the trail still agree (`Fresh`),
and that what it wants is one call on it. A handler whose replacement is
admitted thus applies its call to the stored record as it is, which is a step of
`RequestLifecycle`; every other step is the end of the edit window or leaves
`<<request, windowOpen, active>>` alone. The theorem is a step simulation,
`MemoryStep`; the operators of the instance `Lifecycle` are shown equal to those
of `WorkflowService` (`SameCorrection`, `SameApproval`, ...).

**Amounts.** `AmountsAreWhole` puts `calculateSalary` in closed form: the rates
divide by 8 and 10, so nothing is ever rounded. `NightsAreMidnights` shows that
the difference of dates counts midnights. Together with `Inv` they give
`VerifiedTripsArePricedByTheRules`. `CalendarAssumption` asks that a later
instant is never on an earlier date in Cairo, which holds because clocks there
go back from midnight to eleven of the same day. One-way trips and the first
preview need `AttendanceTraced`: corrections and attendance keep the type of the
trip, a one-way trip never has hours, and the fields start as they were
submitted.

**Submission.** `SubmissionInv` adds to the type that a highest sequence exists
for every year (the memory adapter takes a maximum) and that every click is
good: what is on its way holds the form as it was, and a record that was built
or told of is the one that is stored. Uniqueness comes from the insertion, not
from the allocation: in memory two handlers can hold one number, and the second
insertion is refused. `DuplicatesHaveAReason` compares clicks long past, so
`ReasonInv` says of every page as it is that it is *hasty* (the language was
changed, or files were submitted) or *orderly*: whenever a submission of its own
is unanswered, its button is disabled and no load is under way that could enable
it, and if one was acknowledged the page was left. TLC checked `ReasonInv`
before it was proved.

**Sign-in.** `LockInv` holds `HeldLocksStay`: an attempt that began under a lock
and still compares its password holds a reference to an entry that is locked.
An entry an attempt refers to stays in the heap whatever the map does, counts up
only, and is never unlocked in place. With LDAP a locked name is refused before
the bind. `AuthInv` is about the map: it holds no key twice and no two keys
share an entry (`Distinct`, which needs that a new reference is one nobody
holds), every entry `Tells` the failures of its key, and a key without an entry
has none. `RegisteringIsGood` follows `registerFailure` through its eviction,
its expired entry and its new one; all other steps only drop keys
(`ShrinkingIsGood`). The limit of the limiter and the size of the map are part
of the type. That a sign-in ends the oldest sessions counts the newer ones of
each: an older session has more of them (`OlderRanksHigher`), so the kept ones
have different counts below the cap, and are at most as many. `SessionTable`
needs only that sessions are issued to known users.

**Browser.** `SessionInv`: a call carries either nothing or a token with its
user, a login's answer is about the session it opened, and a tab that has a
token shows its user. The server compares token and session before it acts,
and this is where the attribution of a write comes from; that the session is the
token's own, or behind IIS a later one, holds from the comparison on.
`LoadingEndsWithACall` is inductive on top of it: each step of a call leaves a
call of the same tab and kind (`TakesOver`), and the end of the last one takes
the message away.

**Payroll.** `Inv`: every list, answer and call holds a copy that is no newer
than the record, and equal to it if it is as new (`Copy`); what was relied on
was stored in that state or is older; calls of a mounted panel are about its
request. Then a lock that follows directly on the state relied on found the
figures that were saved.

`TypeInv` adds what the type needs: each kind of call is under way at most
`MaxCalls` times, because every call is counted in `sent`, so that one of the
numbers up to `MaxCalls` is free for the next one (`NumberIsFree`).

**Approvals.** `Inv` has the copies of the queue as in the payroll page, and of
each form that stayed on its row (`FormOK`) that it is about that row: its
comment was written for it, it was opened on a copy no newer than the request,
and figures that nobody typed are those of that copy as the form displays them.
A decision carries the form it was made with, so `DecisionOK` says the same of
it after the page has moved on. That the accepted decision is the one whose
answer the step is about needs numbers that tell decisions apart (`Distinct`);
a decision that ends starts a load, so loads and decisions are counted together.

**Development repository.** `RepositoryInv` says of every record that it is
*kept*: its preview is the calculation on its own figures, its revisions lead to
that preview (`LeadTo`), it has a final salary exactly if it is completed, and
its trail shows the signatures of its stage (`SignedOK`). `PricesAreExplained`
is not inductive without the types of the figures and the departments. Within an
operation it is broken: `AwaitsPricing` describes the record between a
reviewer's or payroll's change and `updateCalculation`, which `Repriced` shows
to restore it. The numbers are `SeedNumbers` and a run from 842 on, so that the
next one is new (`NextNumber`). The seeds are shown to be kept one by one; for
the two that come with a hand-written revision the amounts, 762.00 and 802.00,
are computed from the rates (`RevisedSeeds`). A step moves one record or adds
one (`RepositoryStep`), and that is a step of `ApprovalRoute`, a rejection by
timing, or none.
`RepositoryAssumption` asks that forms, figures and verified instants are of the
kinds the pages send: whole costs, employees of the list, numbers.

Model-checked only: liveness (`EventuallyDecided`), which is out of the prover's
reach, as are statements about ENABLED. Every other property of a passing run is
proved. No module declares a recursive operator:
the sums of the figures are written out and the sequences are quantified over.

## Not modelled

* Text and validation formats; `notes`, reasons and attachments travel with
  their group. `changesFor` compares attachments by identity, so a correction
  that resends equal attachments records a change the model does not.
* Several requests at once in `RequestLifecycle` and `RequestStore`: handlers of
  different requests share no state but the number sequence and the directory.
* Binary fractions: amounts are exact, and a bonus, penalty or ticket price has
  whole hundredths.
* A change of a user's roles by an import (`active` changes, `RolesOf` does
  not), and the statements inside an import or a migration, which run in one
  transaction.
* Clock adjustments of the server between two calls.
* `updateRequest` and `addAuditEvent` of the store interface: no route calls
  them.
* Who may see which amounts (`responseViews.ts`), a pure filter of an answer.
* The LDAP protocol and its configuration; the model has the outcomes the
  program tells apart.
* The employee's list and the pages that only show a request; formatting,
  translation and layout.
* Demonstration data of the memory store (`backend/src/data`): constant records.
* Migrations, seeds, Express wiring, logging, start-up checks.

## Plan

1. `WorkflowService`, `RequestLifecycle`, proofs; `ApprovalRoute`. *Done.*
2. `RequestStore`, proofs. *Done.*
3. `SalaryCalculation`, `TravelAllowance`, proofs. *Done.*
4. `SessionTable`, `AuthService`, `BrowserSession`, proofs. *Done.*
5. `RequestSubmission`, proofs. *Done.*
6. `PayrollDesk`, `ReviewDesk`, `DevelopmentRepository`, proofs. *Done.*
7. Role changes by an import under open requests.

The order follows the money: first the rules that decide what is paid, then the
store that must not lose them, then the calculation, then who may call and what
they see.
