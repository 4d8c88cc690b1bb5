-------------------------- MODULE WorkflowService --------------------------
(***************************************************************************)
(* The workflow rules of backend/src/services/workflowService.ts and the   *)
(* record computations of workflowApplicationService.ts, as operators on   *)
(* a travel request: what a handler accepts when it holds record r, and    *)
(* which record it would store.  No state here: RequestLifecycle runs      *)
(* these operators atomically, RequestStore between two round trips.       *)
(*                                                                         *)
(* The request's data is grouped by who may change it:                     *)
(*   trip              dates, origin, claimed cost, notes, attachments     *)
(*   accommodationType                                                     *)
(*   transportation    destination city and transportation method          *)
(*   verifiedDates     departure and return as verified by timing          *)
(*   hoursCredited     seven verified hours, same day or return day        *)
(*   adjustments       bonus and penalty                                   *)
(*   ticket            transportationCost, with its "verified" flag        *)
(***************************************************************************)
EXTENDS Integers, Sequences

CONSTANTS
    Users,            \* employees known to the company directory
    RolesOf,          \* RolesOf[u]: the roles of user u (user_roles table)
    Trips,            \* the itineraries an employee may claim
    TripType,         \* TripType[t]: "one-way" or "round-trip"
    EarnsReturnDay,   \* EarnsReturnDay[t]: seven hours on the last day of t
    Accommodations,   \* values of accommodationType
    Transports,       \* pairs of destination city and method
    Adjustments,      \* pairs of bonus and penalty
    NoAdjustment,     \* bonus 0, penalty 0
    TicketPrices,     \* values of transportationCost
    NoTicketPrice,    \* transportationCost 0
    NotVerified,      \* verified dates that are still null
    Calculate(_)      \* calculateSalary applied to the request's fields

SystemRole == {"employee", "manager", "pr", "transportation", "timing", "salary"}

ReviewStages == {"manager-review", "pr-review", "transportation-review",
                 "timing-review", "salary-finalization"}

Terminal == {"completed", "cancelled"}

WorkflowStage == ReviewStages \union Terminal

Action == {"submit", "approve", "reject", "edit", "finalize", "request-info"}

Fields ==
    [trip : Trips,
     accommodationType : Accommodations,
     transportation : Transports,
     verifiedDates : Trips \union {NotVerified},
     hoursCredited : BOOLEAN,
     adjustments : Adjustments,
     ticket : TicketPrices,
     ticketVerified : BOOLEAN,
     timeNeedsVerification : BOOLEAN,
     pendingEmployeeResponse : BOOLEAN]

FieldName == {"trip", "accommodationType", "transportation", "verifiedDates",
              "hoursCredited", "adjustments", "ticket", "ticketVerified",
              "timeNeedsVerification", "pendingEmployeeResponse"}

FieldValue ==
    BOOLEAN \union Trips \union {NotVerified} \union Accommodations
    \union Transports \union Adjustments \union TicketPrices

Change == [field : FieldName, before : FieldValue, after : FieldValue]

Calculation == {Calculate(f) : f \in Fields}

AuditEvent ==
    [actor : Users, role : SystemRole, action : Action,
     from : WorkflowStage \union {"none"}, to : WorkflowStage,
     changes : SUBSET Change]

PriceRevision ==
    [stage : WorkflowStage, actor : Users, role : SystemRole,
     previousCalculation : Calculation, newCalculation : Calculation]

\* finalSalary is null until it holds its one value.
TravelRequest ==
    [owner : Users, manager : Users, stage : WorkflowStage,
     fields : Fields, submitted : Fields,
     salaryPreview : Calculation, finalSalary : Seq(Calculation),
     audit : Seq(AuditEvent), priceRevisions : Seq(PriceRevision)]

\* The total is a number, and recalculateSalaryPreview does not read the flag
\* that says a question is open.
ASSUME CalculateAssumption ==
    \A f \in Fields :
        /\ Calculate(f).totalAmount \in Int
        /\ Calculate([f EXCEPT !.pendingEmployeeResponse = TRUE]) = Calculate(f)

ASSUME DataAssumption ==
    /\ RolesOf \in [Users -> SUBSET SystemRole]
    /\ TripType \in [Trips -> {"one-way", "round-trip"}]
    /\ EarnsReturnDay \in [Trips -> BOOLEAN]
    /\ NotVerified \notin Trips
    /\ NoAdjustment \in Adjustments
    /\ NoTicketPrice \in TicketPrices

----------------------------------------------------------------------------
(* Roles *)

\* The role a department user acts in: the first one that is not "employee".
\* PostgreSQL delivers the roles in alphabetical order.
RoleOrder == <<"manager", "pr", "salary", "timing", "transportation">>

HasDepartment(u) == RolesOf[u] \ {"employee"} # {}

DepartmentRole(u) ==
    LET held == {i \in 1..Len(RoleOrder) : RoleOrder[i] \in RolesOf[u]}
    IN  RoleOrder[CHOOSE i \in held : \A j \in held : i <= j]

\* Mutant: any manager will do.
AnyManager(r, u, role) == TRUE

\* Only the manager selected on the request may act as its manager.
AssignedManager(r, u, role) == role = "manager" => r.manager = u

----------------------------------------------------------------------------
(* Which role may do what, at which stage *)

NextStage ==
    [s \in {"manager-review", "pr-review", "transportation-review", "timing-review"} |->
        CASE s = "manager-review" -> "pr-review"
          [] s = "pr-review" -> "transportation-review"
          [] s = "transportation-review" -> "timing-review"
          [] s = "timing-review" -> "salary-finalization"]

EditableFields(role) ==
    CASE role = "employee" -> {"trip", "accommodationType", "transportation"}
      [] role = "manager" -> {"timeNeedsVerification"}
      [] role = "pr" -> {"accommodationType"}
      [] role = "transportation" -> {"transportation"}
      [] role = "timing" -> {"verifiedDates", "hoursCredited", "timeNeedsVerification"}
      [] role = "salary" -> {"adjustments", "ticket", "ticketVerified"}

\* Mutant: timing is missing from the approvers.
ApprovalStageWithoutTiming(role) ==
    CASE role = "manager" -> "manager-review"
      [] role = "pr" -> "pr-review"
      [] role = "transportation" -> "transportation-review"
      [] OTHER -> "none"

ApprovalStage(role) ==
    CASE role = "manager" -> "manager-review"
      [] role = "pr" -> "pr-review"
      [] role = "transportation" -> "transportation-review"
      [] role = "timing" -> "timing-review"
      [] OTHER -> "none"

CanApprove(r, role) == r.stage = ApprovalStage(role)

\* Mutant: every reviewer may reject at the stage it owns, payroll included.
CanRejectAnywhere(r, role) == r.stage \notin Terminal

CanReject(r, role) ==
    \/ r.stage = "manager-review" /\ role = "manager"
    \/ r.stage = "timing-review" /\ role = "timing"

\* Mutant: the departments may edit at any stage that is not terminal.
CanEditAtAnyStage(r, role) ==
    /\ r.stage \notin Terminal
    /\ role = "manager" => r.fields.timeNeedsVerification

\* The employee's branch of canEdit is CanCorrect below.
CanEdit(r, role) ==
    /\ r.stage \notin Terminal
    /\ CASE role = "manager" -> r.fields.timeNeedsVerification
         [] role = "salary" -> r.stage = "salary-finalization"
         [] OTHER -> r.stage = ApprovalStage(role)

\* windowOpen: at most 30 minutes have passed since the request's creation.
CanCorrect(r, u, windowOpen) ==
    /\ r.owner = u
    /\ r.stage = "manager-review"
    /\ windowOpen

CanFinalize(r, role) == r.stage = "salary-finalization" /\ role = "salary"

----------------------------------------------------------------------------
(* The audit trail *)

NoEdits == [k \in {} |-> k]

NewAuditEvent(r, u, role, action, toStage, changes) ==
    [actor |-> u, role |-> role, action |-> action,
     from |-> r.stage, to |-> toStage, changes |-> changes]

WithAuditEvent(r, event) == [r EXCEPT !.audit = Append(@, event)]

\* Mutant: the edits are compared with what was submitted.
ChangesSinceSubmission(r, edits) ==
    {[field |-> k, before |-> r.fields[k], after |-> edits[k]] :
        k \in {n \in DOMAIN edits : edits[n] # r.submitted[n]}}

\* Only the fields whose value really changes are recorded.
ChangesFor(r, edits) ==
    {[field |-> k, before |-> r.fields[k], after |-> edits[k]] :
        k \in {n \in DOMAIN edits : edits[n] # r.fields[n]}}

Edited(fields, edits) ==
    [k \in FieldName |-> IF k \in DOMAIN edits THEN edits[k] ELSE fields[k]]

\* An edit that changes nothing leaves the record and its history alone.
EditRequest(r, u, role, edits) ==
    LET changes == ChangesFor(r, edits)
    IN  IF changes = {} THEN r
        ELSE [WithAuditEvent(r, NewAuditEvent(r, u, role, "edit", r.stage, changes))
                EXCEPT !.fields = Edited(r.fields, edits)]

\* Mutant: the event is created after the stage has moved.
ApprovedThenLogged(r, u, role) ==
    LET moved == [r EXCEPT !.stage = NextStage[r.stage]]
    IN  WithAuditEvent(moved, NewAuditEvent(moved, u, role, "approve", moved.stage, {}))

Approved(r, u, role) ==
    [WithAuditEvent(r, NewAuditEvent(r, u, role, "approve", NextStage[r.stage], {}))
        EXCEPT !.stage = NextStage[r.stage]]

\* Mutant: a stage that is not one of the workflow's.
RejectedAsRejected(r, u, role) ==
    [WithAuditEvent(r, NewAuditEvent(r, u, role, "reject", "rejected", {}))
        EXCEPT !.stage = "rejected"]

Rejected(r, u, role) ==
    [WithAuditEvent(r, NewAuditEvent(r, u, role, "reject", "cancelled", {}))
        EXCEPT !.stage = "cancelled"]

AskedForInfo(r, u, role) ==
    LET flag == [field |-> "pendingEmployeeResponse",
                 before |-> r.fields.pendingEmployeeResponse, after |-> TRUE]
    IN  [WithAuditEvent(r, NewAuditEvent(r, u, role, "request-info", r.stage, {flag}))
            EXCEPT !.fields.pendingEmployeeResponse = TRUE]

Finalized(r, u, role) ==
    [WithAuditEvent(r, NewAuditEvent(r, u, role, "finalize", "completed", {}))
        EXCEPT !.stage = "completed", !.finalSalary = <<r.salaryPreview>>]

----------------------------------------------------------------------------
(* Edits that may move the price *)

NewRevision(r, u, role, previous, new) ==
    [stage |-> r.stage, actor |-> u, role |-> role,
     previousCalculation |-> previous, newCalculation |-> new]

\* Mutant: the price is computed on the record as it was read.
WithStalePrice(r, u, role, edits) ==
    IF DOMAIN edits = {} THEN r
    ELSE [EditRequest(r, u, role, edits) EXCEPT !.salaryPreview = Calculate(r.fields)]

\* Mutant: every revision starts from the price of the submission.
WithRevisionFromSubmission(r, u, role, edits) ==
    IF DOMAIN edits = {} THEN r
    ELSE LET edited == EditRequest(r, u, role, edits)
             new == Calculate(edited.fields)
             old == Calculate(r.submitted)
         IN  [edited EXCEPT
                !.salaryPreview = new,
                !.priceRevisions =
                    IF new.totalAmount # old.totalAmount
                    THEN Append(@, NewRevision(edited, u, role, old, new))
                    ELSE @]

\* The preview follows every financial edit; the history of prices grows only
\* when the total moves.
WithFinancialEdits(r, u, role, edits) ==
    IF DOMAIN edits = {} THEN r
    ELSE LET edited == EditRequest(r, u, role, edits)
             new == Calculate(edited.fields)
             moved == new.totalAmount # r.salaryPreview.totalAmount
         IN  [edited EXCEPT
                !.salaryPreview = new,
                !.priceRevisions =
                    IF moved
                    THEN Append(@, NewRevision(edited, u, role, r.salaryPreview, new))
                    ELSE @]

\* Mutant: a one-way trip earns hours as any other.
AttendanceOfAnyTrip(r, dates, meetsSevenHourRule) ==
    [verifiedDates |-> dates, hoursCredited |-> meetsSevenHourRule]

\* The attendance recorded by timing: times that are not supplied default to
\* the claimed ones, hours that are not confirmed count as none, and a one-way
\* trip earns none.
Attendance(r, dates, meetsSevenHourRule) ==
    [verifiedDates |-> dates,
     hoursCredited |-> TripType[r.fields.trip] = "round-trip" /\ meetsSevenHourRule]

SameTripType(r, t) == TripType[t] = TripType[r.fields.trip]

\* The edits the body of a review or an approval can ask for, by role.
\* A manager never edits while approving.
ApprovalEdits(r, role) ==
    CASE role = "pr" -> {[accommodationType |-> a] : a \in Accommodations}
      [] role = "transportation" -> {[transportation |-> x] : x \in Transports}
      [] role = "timing" ->
            {Attendance(r, t, met) :
                t \in {d \in Trips : SameTripType(r, d)}, met \in BOOLEAN}
      [] OTHER -> {}

\* An approval may carry edits; timing's always records an attendance.
EditsWithApproval(r, role) ==
    ApprovalEdits(r, role) \union (IF role = "timing" THEN {} ELSE {NoEdits})

SalaryEdits ==
    {[adjustments |-> a] : a \in Adjustments}
    \union {[adjustments |-> a, ticket |-> c, ticketVerified |-> TRUE] :
                a \in Adjustments, c \in TicketPrices}

ReviewEdits(r, role) ==
    CASE role = "manager" -> {[timeNeedsVerification |-> FALSE]}
      [] role = "salary" -> SalaryEdits
      [] OTHER -> ApprovalEdits(r, role)

\* What the owner may correct; the type of the trip is fixed at submission.
CorrectionEdits(r) ==
    {[trip |-> t, accommodationType |-> a, transportation |-> x] :
        t \in {d \in Trips : SameTripType(r, d)},
        a \in Accommodations, x \in Transports}

----------------------------------------------------------------------------
(* The handlers: Accepts* is what lets the call through, *Outcome the record *)
(* it stores.  active: the users the directory still lists as active.        *)

OwnerResolves(r, active) == r.owner \in active

Permitted(role, edits) == DOMAIN edits \subseteq EditableFields(role)

AcceptsCorrection(r, u, edits, windowOpen, active) ==
    /\ CanCorrect(r, u, windowOpen)
    /\ Permitted("employee", edits)
    /\ OwnerResolves(r, active)

\* PATCH /requests/:id recalculates the preview and writes no price revision.
CorrectionOutcome(r, u, edits) ==
    LET edited == EditRequest(r, u, "employee", edits)
    IN  [edited EXCEPT !.salaryPreview = Calculate(edited.fields)]

AcceptsApproval(r, u, edits, active) ==
    /\ HasDepartment(u)
    /\ AssignedManager(r, u, DepartmentRole(u))
    /\ CanApprove(r, DepartmentRole(u))
    /\ DOMAIN edits # {} => /\ CanEdit(r, DepartmentRole(u))
                            /\ Permitted(DepartmentRole(u), edits)
                            /\ OwnerResolves(r, active)

ApprovalOutcome(r, u, edits) ==
    LET role == DepartmentRole(u)
    IN  Approved(WithFinancialEdits(r, u, role, edits), u, role)

AcceptsRejection(r, u) ==
    /\ HasDepartment(u)
    /\ AssignedManager(r, u, DepartmentRole(u))
    /\ CanReject(r, DepartmentRole(u))

RejectionOutcome(r, u) == Rejected(r, u, DepartmentRole(u))

AcceptsInfoRequest(r, u) ==
    /\ HasDepartment(u)
    /\ DepartmentRole(u) = "manager"
    /\ AssignedManager(r, u, "manager")
    /\ r.stage = "manager-review"

InfoRequestOutcome(r, u) == AskedForInfo(r, u, "manager")

AcceptsReview(r, u, edits, active) ==
    /\ HasDepartment(u)
    /\ AssignedManager(r, u, DepartmentRole(u))
    /\ CanEdit(r, DepartmentRole(u))
    /\ Permitted(DepartmentRole(u), edits)
    /\ OwnerResolves(r, active)

ReviewOutcome(r, u, edits) == WithFinancialEdits(r, u, DepartmentRole(u), edits)

\* Mutant: the ticket price need not have been entered.
AcceptsUnverifiedFinalization(r, u, active) ==
    /\ HasDepartment(u)
    /\ OwnerResolves(r, active)
    /\ CanFinalize(r, DepartmentRole(u))

AcceptsFinalization(r, u, active) ==
    /\ HasDepartment(u)
    /\ r.fields.ticketVerified
    /\ OwnerResolves(r, active)
    /\ CanFinalize(r, DepartmentRole(u))

\* The preview is computed once more, and the last revision carries the amount
\* that was locked.
FinalizationOutcome(r, u) ==
    LET priced == [r EXCEPT !.salaryPreview = Calculate(r.fields)]
        done == Finalized(priced, u, DepartmentRole(u))
    IN  [done EXCEPT !.priceRevisions =
            Append(@, NewRevision(done, u, DepartmentRole(u),
                                  priced.salaryPreview, done.finalSalary[1]))]

----------------------------------------------------------------------------
(* createNewRequest *)

\* Mutant: the hours start from zero until timing verifies them.
SubmittedWithoutHours(t, a, x) ==
    [trip |-> t, accommodationType |-> a, transportation |-> x,
     verifiedDates |-> NotVerified, hoursCredited |-> FALSE,
     adjustments |-> NoAdjustment, ticket |-> NoTicketPrice, ticketVerified |-> FALSE,
     timeNeedsVerification |-> FALSE, pendingEmployeeResponse |-> FALSE]

SubmittedFields(t, a, x) ==
    [trip |-> t, accommodationType |-> a, transportation |-> x,
     verifiedDates |-> NotVerified, hoursCredited |-> EarnsReturnDay[t],
     adjustments |-> NoAdjustment, ticket |-> NoTicketPrice, ticketVerified |-> FALSE,
     timeNeedsVerification |-> FALSE, pendingEmployeeResponse |-> FALSE]

\* The manager may be any user who holds that role, the owner included.
NewRequest(owner, manager, t, a, x) ==
    LET fields == SubmittedFields(t, a, x)
    IN  [owner |-> owner, manager |-> manager, stage |-> "manager-review",
         fields |-> fields, submitted |-> fields,
         salaryPreview |-> Calculate(fields), finalSalary |-> <<>>,
         audit |-> <<[actor |-> owner, role |-> "employee", action |-> "submit",
                      from |-> "none", to |-> "manager-review", changes |-> {}]>>,
         priceRevisions |-> <<>>]

NewRequests ==
    {NewRequest(o, m, t, a, x) :
        o \in {u \in Users : "employee" \in RolesOf[u]},
        m \in {u \in Users : "manager" \in RolesOf[u]},
        t \in Trips, a \in Accommodations, x \in Transports}

----------------------------------------------------------------------------
(* What a well-kept record looks like: the properties of the modules that   *)
(* keep one are stated with these.                                          *)

\* Each event starts at the stage where the one before it ended, the submission
\* is the first and the only one, and the last ends at the record's stage.
ContiguousTrail(r) ==
    /\ Len(r.audit) >= 1
    /\ r.audit[1].from = "none" /\ r.audit[1].to = "manager-review"
    /\ \A i \in 1..Len(r.audit) : r.audit[i].action = "submit" <=> i = 1
    /\ \A i \in 1..(Len(r.audit) - 1) : r.audit[i + 1].from = r.audit[i].to
    /\ r.audit[Len(r.audit)].to = r.stage

\* The stages in the order of the workflow.
StageRank(s) ==
    CASE s = "manager-review" -> 1
      [] s = "pr-review" -> 2
      [] s = "transportation-review" -> 3
      [] s = "timing-review" -> 4
      [] s = "salary-finalization" -> 5
      [] s = "completed" -> 6
      [] s = "cancelled" -> 7

\* How far the request came before it was cancelled, if it was.
ReachedStage(r) ==
    IF r.stage = "cancelled" THEN r.audit[Len(r.audit)].from ELSE r.stage

\* The roles whose approval takes a request from stage to stage.
ApprovingRole == {"manager", "pr", "transportation", "timing"}

\* Each approval stands in the trail once, at the stage of its department and,
\* for the first one, by the manager the owner selected, exactly when the
\* request has passed that stage.
SignedOnceInOrder(r) ==
    \A role \in ApprovingRole :
        LET signed == {i \in DOMAIN r.audit :
                         r.audit[i].action = "approve" /\ r.audit[i].role = role}
        IN  /\ \A i, j \in signed : i = j
            /\ \A i \in signed :
                  /\ r.audit[i].from = ApprovalStage(role)
                  /\ role = "manager" => r.audit[i].actor = r.manager
            /\ signed # {} <=> StageRank(ReachedStage(r)) > StageRank(ApprovalStage(role))

\* The event records a change of field k.
Touches(event, k) == \E c \in event.changes : c.field = k

\* The events that touch a field, read in order, lead from the submitted value
\* to the current one.
TrailExplainsFields(r) ==
    \A k \in FieldName :
        LET touching == {i \in DOMAIN r.audit : Touches(r.audit[i], k)}
        IN  /\ touching = {} => r.fields[k] = r.submitted[k]
            /\ \A i \in touching : \A c \in r.audit[i].changes : c.field = k =>
                  /\ (\A j \in touching : j <= i) => c.after = r.fields[k]
                  /\ (\A j \in touching : j >= i) => c.before = r.submitted[k]
                  /\ \A j \in touching :
                        (j < i /\ \A m \in touching : m <= j \/ m >= i) =>
                            \A d \in r.audit[j].changes : d.field = k => d.after = c.before

\* Each revision starts at the total the one before it reached, the last one
\* ends at the current total, and none but the one that locks the amount
\* leaves the total as it is.
ContinuousPrices(r) ==
    LET history == r.priceRevisions
    IN  /\ \A i \in 1..(Len(history) - 1) :
              history[i].newCalculation.totalAmount = history[i + 1].previousCalculation.totalAmount
        /\ \A i \in DOMAIN history :
              history[i].newCalculation.totalAmount = history[i].previousCalculation.totalAmount
                => history[i].stage = "completed" /\ i = Len(history)
        /\ Len(history) > 0 =>
              history[Len(history)].newCalculation.totalAmount = r.salaryPreview.totalAmount

\* A review by payroll that sets the ticket price.
EntersTicket(event) ==
    /\ event.role = "salary"
    /\ event.action = "edit"
    /\ event.from = "salary-finalization"
    /\ Touches(event, "ticketVerified")

\* A completed record has a final salary, which is the calculation on its fields,
\* after timing verified the dates and payroll the ticket price.
PaidAsVerified(r) ==
    /\ r.finalSalary # <<>> <=> r.stage = "completed"
    /\ r.stage = "completed" =>
          /\ r.finalSalary = <<Calculate(r.fields)>>
          /\ r.fields.ticketVerified
          /\ r.fields.verifiedDates # NotVerified
          /\ \E i \in 1..(Len(r.audit) - 1) : EntersTicket(r.audit[i])
=============================================================================
