----------------------- MODULE DevelopmentRepository -----------------------
(***************************************************************************)
(* The repository that replaces the server when the browser runs on mock   *)
(* data: frontend/src/services/developmentRepository.ts, as workflowApi.ts,*)
(* salaryApi.ts and requestApi.ts call it.  Its records live in one page:  *)
(* loading the page anew is a new behaviour, from the seeds.               *)
(*                                                                         *)
(* Every operation runs to its end at once.  Dates are minutes from the    *)
(* last midnight of June 2026 in UTC, amounts hundredths of the currency.  *)
(***************************************************************************)
EXTENDS Integers, Sequences, FiniteSets

CONSTANTS
    Applicants,     \* the users who submit requests
    Forms,          \* what they may submit
    PayrollFigures, \* what payroll may enter: [cost, bonus, penalty]
    Lodgings,       \* the accommodation PR may confirm
    Verifiable,     \* the instants that timing may verify
    MaxOperations,  \* bound: the operations of a behaviour
    MaxChanged      \* bound: the records they are about

VARIABLES records, operations

repositoryVars == <<records, operations>>

Employees == {"u1", "u2", "u3", "u4", "u5", "u6", "u7", "u8", "u9", "u10"}

ASSUME RepositoryAssumption ==
    /\ Applicants \subseteq Employees
    /\ \A form \in Forms :
          /\ {form.departureAt, form.returnAt} \subseteq Int /\ form.oneWay \in BOOLEAN
          /\ form.cost \in Nat /\ form.managerId \in Employees
    /\ PayrollFigures \subseteq [cost : Nat, bonus : Nat, penalty : Nat]
    /\ Verifiable \subseteq Int
    /\ MaxOperations \in Nat

RolesOf(u) ==
    {"employee"} \union
    CASE u \in {"u4", "u10"} -> {"manager"}
      [] u = "u5" -> {"pr"}
      [] u = "u6" -> {"transportation"}
      [] u = "u7" -> {"timing"}
      [] u \in {"u8", "u9"} -> {"salary"}
      [] OTHER -> {}

LevelOf(u) ==
    CASE u \in {"u1", "u6"} -> "Level 1"
      [] u \in {"u2", "u7"} -> "Level 2"
      [] u = "u3" -> "Level 3"
      [] u \in {"u4", "u8", "u10"} -> "General Manager"
      [] u = "u5" -> "Assistant"
      [] u = "u9" -> "Assistant General Manager"

STAGES == <<"manager-review", "pr-review", "transportation-review", "timing-review",
            "salary-finalization", "completed">>

\* STAGE_ROLE and ROLE_ACTOR: the departments, in the order of their stages, and
\* the user who acts for each in the seeds.
Roles == <<"manager", "pr", "transportation", "timing", "salary">>
Actors == <<"u4", "u5", "u6", "u7", "u8">>

StageOf(role) == STAGES[CHOOSE i \in DOMAIN Roles : Roles[i] = role]

StageAfter(s) == STAGES[1 + CHOOSE i \in DOMAIN Roles : STAGES[i] = s]

\* currentReviewRole of workflowApi.ts; payroll has pages of its own.
Reviewers == {u \in Employees : RolesOf(u) \intersect {"manager", "pr", "transportation", "timing"} # {}}

ReviewRole(u) == CHOOSE role \in RolesOf(u) : role # "employee"

----------------------------------------------------------------------------
(* The amount of a record. *)

\* The calendar of SalaryCalculation plays no part here.
NoOffset(t) == 0

Rates(JobLevel) == INSTANCE SalaryCalculation WITH CairoOffset <- NoOffset

NotVerified == -1

DateDifferenceInDays(start, end) ==
    LET days == end \div 1440 - start \div 1440
    IN  IF days > 0 THEN days ELSE 0

\* The dates are those the employee claimed, whatever timing has verified.
Calculated(r) ==
    LET nights == DateDifferenceInDays(r.departureAt, r.returnAt)
    IN  Rates(r.level)!CalculateSalary(
          [accommodationType |-> r.accommodationType,
           overnightCount |-> nights,
           isSameDayMission |-> nights = 0,
           sameDayMinutes |-> 60 * r.sameDayHours,
           returnDayMinutes |-> 60 * r.returnDayHours,
           transportationCost |-> r.cost,
           bonusAmount |-> r.bonus,
           penaltyAmount |-> r.penalty]).totalAmount

Event(actor, role, action, from, to) ==
    [actor |-> actor, role |-> role, action |-> action, from |-> from, to |-> to]

Revision(department, previous, new) ==
    [department |-> department, previousPrice |-> previous, newPrice |-> new]

PushAudit(r, event) == [r EXCEPT !.auditEvents = Append(@, event)]

\* updateCalculation, and the revision that follows it when the total has changed.
UpdateCalculation(r, department) ==
    LET total == Calculated(r)
    IN  [r EXCEPT
           !.salaryPreview = total,
           !.revisions = IF total = r.salaryPreview THEN @
                         ELSE Append(@, Revision(department, r.salaryPreview, total))]

----------------------------------------------------------------------------
(* buildSeed: the record of a new request and of each request the page starts with. *)

\* The spread of TypeScript: what f has not is taken from g.
Joined(f, g) ==
    [k \in DOMAIN f \union DOMAIN g |-> IF k \in DOMAIN f THEN f[k] ELSE g[k]]

Optional ==
    [sameDayHours |-> 0, returnDayHours |-> 0, bonus |-> 0, penalty |-> 0,
     oneWay |-> FALSE, managerId |-> "u4", revisions |-> <<>>]

\* A department's signature takes a request from its stage to the next.
Signature(i) ==
    Event(Actors[i], Roles[i], IF STAGES[i + 1] = "completed" THEN "finalize" ELSE "approve",
          STAGES[i], STAGES[i + 1])

SeedAudit(input) ==
    <<Event(input.employeeId, "employee", "submit", "none", "manager-review")>> \o
    IF input.stage = "cancelled"
    THEN <<Event("u4", "manager", "reject", "manager-review", "cancelled")>>
    ELSE [i \in 1..((CHOOSE k \in DOMAIN STAGES : STAGES[k] = input.stage) - 1) |-> Signature(i)]

Built(input) ==
    LET atManager == input.stage = "manager-review"
        beforeTiming == input.stage \in {"manager-review", "pr-review", "transportation-review"}
    IN  Joined(input,
        [verifiedDepartureAt |-> IF atManager THEN NotVerified ELSE input.departureAt,
         verifiedReturnAt |-> IF beforeTiming THEN NotVerified ELSE input.returnAt,
         costVerified |-> input.stage \in {"salary-finalization", "completed"},
         salaryPreview |-> Calculated(input),
         finalSalary |-> IF input.stage = "completed" THEN {Calculated(input)} ELSE {},
         pendingEmployeeResponse |-> FALSE,
         auditEvents |-> SeedAudit(input)])

At(day, hour) == 1440 * day + 60 * hour

Seed(employee, stage, departureAt, returnAt, accommodation, cost, rest) ==
    LET required == [employeeId |-> employee, level |-> LevelOf(employee), stage |-> stage,
                     departureAt |-> departureAt, returnAt |-> returnAt,
                     accommodationType |-> accommodation, cost |-> cost]
    IN  Built(Joined(required, Joined(rest, Optional)))

SeedNumbers == 1..7 \union {836, 839, 841}

InitialRecords ==
    [id \in SeedNumbers |->
        CASE id = 1 -> Seed("u1", "manager-review", At(34, 6), At(36, 18), "none", 20000, Optional)
          [] id = 2 -> Seed("u2", "pr-review", At(41, 7), At(42, 17), "room-only", 15000, Optional)
          [] id = 3 -> Seed("u3", "transportation-review", At(43, 6), At(45, 18), "room-and-food",
                            22000, Optional)
          [] id = 4 -> Seed("u1", "timing-review", At(49, 7), At(49, 16), "none", 10000,
                            [sameDayHours |-> 9])
          [] id = 5 -> Seed("u2", "salary-finalization", At(51, 6), At(53, 15), "room-only", 25000,
                            [returnDayHours |-> 7])
          [] id = 6 -> Seed("u3", "completed", At(55, 6), At(57, 16), "none", 20000,
                            [returnDayHours |-> 8, bonus |-> 5000, penalty |-> 1000])
          [] id = 7 -> Seed("u1", "cancelled", At(59, 6), At(60, 18), "none", 0, Optional)
          [] id = 836 -> Seed("u4", "salary-finalization", At(8, 8), At(10, 16), "room-and-food",
                              10000, [returnDayHours |-> 4])
          [] id = 839 -> Seed("u5", "salary-finalization", At(10, 7), At(13, 17), "room-only",
                              15000, [returnDayHours |-> 8,
                                      revisions |-> <<Revision("PR", 94200, 76200)>>])
          [] id = 841 -> Seed("u1", "salary-finalization", At(12, 6), At(16, 18), "none", 20000,
                              [returnDayHours |-> 7,
                               revisions |-> <<Revision("Transportation", 60200, 80200)>>])]

RepositoryInit == records = InitialRecords /\ operations = 0

----------------------------------------------------------------------------
(* The operations.  An operation that throws changes nothing. *)

\* The number of every request that is there or, within the bound, can be.
Numbers == SeedNumbers \union 842..(841 + MaxOperations)

\* Mutant: the numbers count the records.
Counting(S) == Cardinality(S)

Largest(S) == CHOOSE n \in S : \A m \in S : m <= n

Untouched(id) ==
    /\ id \in SeedNumbers \intersect DOMAIN records
    /\ records[id] = InitialRecords[id]

Counted(id) ==
    /\ operations < MaxOperations
    /\ operations' = operations + 1
    /\ Cardinality({id} \union {n \in DOMAIN records : ~Untouched(n)}) <= MaxChanged

Becomes(id, r) == Counted(id) /\ records' = [records EXCEPT ![id] = r]

ValidDates(trip) ==
    IF trip.oneWay THEN trip.returnAt = trip.departureAt ELSE trip.returnAt > trip.departureAt

\* create: tickets counts the attached images.
Acceptable(form) ==
    /\ ValidDates(form)
    /\ form.personalCar => form.tickets >= 1
    /\ form.tickets <= 4
    /\ ~form.samePlace

Recorded == {"departureAt", "returnAt", "oneWay", "accommodationType", "level", "cost", "managerId"}

Create(u) ==
    \E form \in {f \in Forms : Acceptable(f)} :
        LET request == Joined([k \in Recorded |-> form[k]],
                              [employeeId |-> u, stage |-> "manager-review"])
            id == Largest(DOMAIN records) + 1
        IN  /\ Counted(id)
            /\ records' = Joined(records, [n \in {id} |-> Built(Joined(request, Optional))])

\* Mutant: any manager's review will do.
AnybodysTurn(r, u) == r.stage \in {"manager-review", "pr-review", "transportation-review", "timing-review"}

\* The request is in the queue of the user's department and, if that is the
\* manager's, was sent to this manager.
InQueueOf(r, u) ==
    /\ r.stage = StageOf(ReviewRole(u))
    /\ ReviewRole(u) = "manager" => r.managerId = u

\* The form of timing sends both dates and the seven-hour mark; its button asks for
\* a return after the departure.  For a one-way trip it sends the departure alone,
\* which may have been emptied (NotVerified) and then leaves the one recorded before.
WithVerifiedTimes(r, departureAt, returnAt, meetsSevenHourRule) ==
    LET departure == IF departureAt = NotVerified THEN r.verifiedDepartureAt ELSE departureAt
        start == IF departure = NotVerified THEN r.departureAt ELSE departure
        back == IF r.oneWay THEN start ELSE returnAt
        days == DateDifferenceInDays(start, back)
        hours == IF ~r.oneWay /\ meetsSevenHourRule THEN 7 ELSE 0
    IN  [r EXCEPT !.verifiedDepartureAt = departure,
                  !.verifiedReturnAt = back,
                  !.sameDayHours = IF days = 0 THEN hours ELSE 0,
                  !.returnDayHours = IF days > 0 THEN hours ELSE 0]

\* What the reviewer's form may change in the record it approves.
Reviews(r, role) ==
    CASE role = "pr" -> {[r EXCEPT !.accommodationType = a] : a \in Lodgings}
      [] role = "timing" ->
            {WithVerifiedTimes(r, dates[1], dates[2], meets) :
                dates \in {d \in (Verifiable \union {NotVerified}) \X Verifiable :
                             r.oneWay \/ (d[1] # NotVerified /\ d[2] > d[1])},
                meets \in BOOLEAN}
      [] OTHER -> {r}

Approved(r, u, role) ==
    PushAudit([UpdateCalculation(r, role) EXCEPT !.stage = StageAfter(@)],
              Event(u, role, "approve", r.stage, StageAfter(r.stage)))

Approve(id, u) ==
    /\ InQueueOf(records[id], u)
    /\ \E r \in Reviews(records[id], ReviewRole(u)) : Becomes(id, Approved(r, u, ReviewRole(u)))

Reject(id, u) ==
    /\ InQueueOf(records[id], u)
    /\ ReviewRole(u) \in {"manager", "timing"}
    /\ Becomes(id, PushAudit([records[id] EXCEPT !.stage = "cancelled"],
                             Event(u, ReviewRole(u), "reject", records[id].stage, "cancelled")))

\* No page asks the question, only workflowApi.ts offers it; the stage and the
\* manager are checked.
RequestInfo(id, u) ==
    /\ records[id].stage = "manager-review"
    /\ records[id].managerId = u
    /\ Becomes(id, PushAudit([records[id] EXCEPT !.pendingEmployeeResponse = TRUE],
                             Event(u, "manager", "request-info", "manager-review", "manager-review")))

\* Mutant: a request that is already paid may be saved again.
AwaitsOrHasPayment(r) == r.stage \in {"salary-finalization", "completed"}

AwaitsPayment(r) == r.stage = "salary-finalization"

\* An event is pushed only when the total has changed, and in the name of u8
\* whoever of payroll saves.
UpdateSalary(id) ==
    /\ AwaitsPayment(records[id])
    /\ \E f \in PayrollFigures :
          LET before == records[id]
              entered == [before EXCEPT !.cost = f.cost, !.costVerified = TRUE,
                                        !.bonus = f.bonus, !.penalty = f.penalty]
              updated == UpdateCalculation(entered, "Payroll")
          IN  Becomes(id, IF updated.salaryPreview = before.salaryPreview THEN updated
                          ELSE PushAudit(updated, Event("u8", "salary", "edit", before.stage, before.stage)))

FinalizeSalary(id) ==
    /\ records[id].stage = "salary-finalization"
    /\ records[id].costVerified
    /\ Becomes(id, PushAudit([records[id] EXCEPT !.stage = "completed",
                                                 !.finalSalary = {records[id].salaryPreview}],
                             Event("u8", "salary", "finalize", "salary-finalization", "completed")))

\* confirmTime is never accepted: no record has timeNeedsVerification set.
RepositoryNext ==
    \/ \E u \in Applicants : Create(u)
    \/ \E id \in DOMAIN records :
          \/ \E u \in Reviewers : Approve(id, u) \/ Reject(id, u)
          \/ \E u \in Employees : RequestInfo(id, u)
          \/ UpdateSalary(id)
          \/ FinalizeSalary(id)

RepositorySpec == RepositoryInit /\ [][RepositoryNext]_repositoryVars

----------------------------------------------------------------------------
(* Properties *)

Instant == Int
Amount == Int
StageNames == {STAGES[i] : i \in DOMAIN STAGES} \union {"cancelled"}

\* The records keep their shape, and no operation leaves them without one of the
\* requests the page started with.
RepositoryTypeOK ==
    /\ SeedNumbers \subseteq DOMAIN records /\ DOMAIN records \subseteq Numbers
    /\ operations \in 0..MaxOperations
    /\ \A id \in DOMAIN records :
          LET r == records[id]
          IN  /\ r.employeeId \in Employees /\ r.managerId \in Employees
              /\ r.stage \in StageNames
              /\ {r.verifiedDepartureAt, r.verifiedReturnAt} \subseteq Instant
              /\ {r.sameDayHours, r.returnDayHours, r.cost, r.bonus, r.penalty} \subseteq Nat
              /\ r.salaryPreview \in Amount /\ r.finalSalary \subseteq Amount
              /\ {r.costVerified, r.oneWay, r.pendingEmployeeResponse} \subseteq BOOLEAN
              /\ \A i \in DOMAIN r.auditEvents : r.auditEvents[i].to \in StageNames

\* A reader of a record can follow its price: the revisions lead without a gap to
\* the amount shown, that amount is the one of the record's own figures, and once
\* the request is paid it is the amount paid.  Three operations and the seeds
\* write these figures separately (updateCalculation, revisions.push, finalSalary).
PricesAreExplained ==
    \A id \in DOMAIN records :
        LET r == records[id]
            n == Len(r.revisions)
        IN  /\ \A i \in 1..(n - 1) : r.revisions[i].newPrice = r.revisions[i + 1].previousPrice
            /\ n > 0 => r.revisions[n].newPrice = r.salaryPreview
            /\ r.salaryPreview = Calculated(r)
            /\ r.finalSalary = IF r.stage = "completed" THEN {r.salaryPreview} ELSE {}

\* What ApprovalRoute speaks of: the stages of the requests, "none" for a number
\* not yet given out, and the signatures in their audit trails.
Stage == [id \in Numbers |-> IF id \in DOMAIN records THEN records[id].stage ELSE "none"]

Signatures(r) ==
    {r.auditEvents[i].role : i \in {k \in DOMAIN r.auditEvents :
                                       r.auditEvents[k].action \in {"approve", "finalize"}}}

Signed == [id \in Numbers |-> IF id \in DOMAIN records THEN Signatures(records[id]) ELSE {}]

Route == INSTANCE ApprovalRoute WITH Requests <- Numbers, stage <- Stage, signed <- Signed

\* But for timing, whose rejections the documents exclude ("Only Manager may reject",
\* random.md/WORKFLOW.md:13; "enforces manager-only rejection",
\* developmentRepository.test.ts:49, which tries pr alone), the mock may stand in for
\* the documents' server: no sequence of its calls takes a request past a department,
\* pays it without the five signatures in its audit trail, or revives one that was
\* cancelled.
FollowsRouteButForTiming == Route!SpecButForTiming
=============================================================================
