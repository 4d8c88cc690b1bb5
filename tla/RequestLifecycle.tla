------------------------- MODULE RequestLifecycle -------------------------
(***************************************************************************)
(* What the workflow promises for one travel request: every HTTP operation *)
(* of requestRoutes.ts and workflowRoutes.ts takes effect at once, on the  *)
(* record as it is.  RequestStore shows under which storage this holds.    *)
(***************************************************************************)
EXTENDS WorkflowService, FiniteSets

CONSTANTS
    Leavers,       \* users a directory import may list or leave out
    EditsPerStage  \* bound: recorded edits and questions per stage

ASSUME LeaversAssumption == Leavers \subseteq Users

VARIABLES
    request,       \* the stored travel request
    windowOpen,    \* the owner's 30 minutes have not passed
    active         \* users listed as active (findUserById sees no other)

vars == <<request, windowOpen, active>>

\* A request that POST /requests has just stored.
Init ==
    /\ request \in NewRequests
    /\ windowOpen = TRUE
    /\ active = Users

----------------------------------------------------------------------------
\* Bound on exploration: at most EditsPerStage events that keep the stage are
\* recorded at each stage.  The first ticket price always fits, because a
\* request cannot be finalized without one.
EventsAtStage(r) ==
    Cardinality({i \in DOMAIN r.audit : r.audit[i].from = r.stage /\ r.audit[i].to = r.stage})

WithinBound(edits) ==
    \/ EventsAtStage(request) < EditsPerStage
    \/ "ticketVerified" \in DOMAIN edits /\ ~request.fields.ticketVerified

\* PATCH /requests/:id
CorrectRequest(u) ==
    \E edits \in CorrectionEdits(request) :
        /\ AcceptsCorrection(request, u, edits, windowOpen, active)
        /\ WithinBound(edits)
        /\ request' = CorrectionOutcome(request, u, edits)
        /\ UNCHANGED <<windowOpen, active>>

\* POST /requests/:id/approve
ApproveRequest(u) ==
    \E edits \in EditsWithApproval(request, DepartmentRole(u)) :
        /\ AcceptsApproval(request, u, edits, active)
        /\ request' = ApprovalOutcome(request, u, edits)
        /\ UNCHANGED <<windowOpen, active>>

\* POST /requests/:id/reject
RejectRequest(u) ==
    /\ AcceptsRejection(request, u)
    /\ request' = RejectionOutcome(request, u)
    /\ UNCHANGED <<windowOpen, active>>

\* POST /requests/:id/request-info
RequestMoreInfo(u) ==
    /\ AcceptsInfoRequest(request, u)
    /\ WithinBound(NoEdits)
    /\ request' = InfoRequestOutcome(request, u)
    /\ UNCHANGED <<windowOpen, active>>

\* PATCH /requests/:id/review
ReviewRequest(u) ==
    \E edits \in ReviewEdits(request, DepartmentRole(u)) :
        /\ AcceptsReview(request, u, edits, active)
        /\ WithinBound(edits)
        /\ request' = ReviewOutcome(request, u, edits)
        /\ UNCHANGED <<windowOpen, active>>

\* POST /requests/:id/finalize
FinalizeRequest(u) ==
    /\ AcceptsFinalization(request, u, active)
    /\ request' = FinalizationOutcome(request, u)
    /\ UNCHANGED <<windowOpen, active>>

\* Thirty minutes have passed since createdAt.
CloseEditWindow ==
    /\ windowOpen
    /\ windowOpen' = FALSE
    /\ UNCHANGED <<request, active>>

\* A directory import, in one transaction, leaves active exactly the listed ones
\* of the users that come and go: an account that is not active can no longer
\* act, and findUserById no longer finds it.
ImportDirectory(listed) ==
    /\ active' = (Users \ Leavers) \union listed
    /\ active' # active
    /\ UNCHANGED <<request, windowOpen>>

DepartmentStep(u) ==
    /\ HasDepartment(u)
    /\ \/ ApproveRequest(u)
       \/ RejectRequest(u)
       \/ RequestMoreInfo(u)
       \/ ReviewRequest(u)
       \/ FinalizeRequest(u)

Next ==
    \/ \E u \in active : CorrectRequest(u) \/ DepartmentStep(u)
    \/ CloseEditWindow
    \/ \E listed \in SUBSET Leavers : ImportDirectory(listed)

Spec == Init /\ [][Next]_vars

----------------------------------------------------------------------------
(* Fairness: the department in whose queue a request waits, the only one    *)
(* that can decide on it, eventually does, and payroll eventually enters a  *)
(* ticket price.  Nothing in the code forces a reviewer to act, so liveness *)
(* is stated under this assumption about the departments, never about the   *)
(* employee or the directory.                                               *)

DepartmentDecides ==
    \E u \in active :
        /\ HasDepartment(u)
        /\ \/ CanApprove(request, DepartmentRole(u)) /\ ApproveRequest(u)
           \/ FinalizeRequest(u)

PayrollEntersTicket ==
    /\ request.stage = "salary-finalization" /\ ~request.fields.ticketVerified
    /\ \E u \in active : HasDepartment(u) /\ DepartmentRole(u) = "salary" /\ ReviewRequest(u)
    /\ request'.fields.ticketVerified

FairSpec == Spec /\ WF_vars(DepartmentDecides) /\ WF_vars(PayrollEntersTicket)

----------------------------------------------------------------------------
(* Properties *)

\* The record keeps the shape that both stores persist.
TypeOK ==
    /\ request \in TravelRequest
    /\ windowOpen \in BOOLEAN
    /\ active \subseteq Users

\* The history reads as one unbroken path of stages: it starts with the only
\* submission, each event leaves from the stage the one before it reached, and
\* the last one ends where the request is (createAuditEvent, withAuditEvent).
AuditTrailIsContiguous == ContiguousTrail(request)

\* A request has passed a department exactly when that department, and for the
\* first stage the manager the owner selected, signed once, at its own stage.
DepartmentsSignOnceInOrder == SignedOnceInOrder(request)

\* The audit trail accounts for every field: replaying the recorded changes on
\* the submitted request yields the current one, and each recorded "before" is
\* the "after" of the change that preceded it (changesFor, editRequest).
AuditTrailExplainsFields == TrailExplainsFields(request)

\* The preview every reviewer is shown is the price of the fields as they are,
\* after a correction, a review, an approval and a finalization alike.
PreviewFollowsFields == request.salaryPreview = Calculate(request.fields)

\* Read in order, the price revisions lead from one total to the next without a
\* gap and end at the current total; only the last one, written when the amount
\* is locked, may leave the total as it is.
PriceHistoryIsContinuous == ContinuousPrices(request)

\* An amount is paid only on a completed request, it is the price of figures
\* that timing and payroll have both entered, and the trail names the payroll
\* edit that entered the ticket price before the finalization.
PaidOnVerifiedFigures == PaidAsVerified(request)

\* The stages at which each field is still open to somebody.
OpenAt(k) ==
    CASE k = "trip" -> {"manager-review"}
      [] k = "accommodationType" -> {"manager-review", "pr-review"}
      [] k = "transportation" -> {"manager-review", "transportation-review"}
      [] k \in {"verifiedDates", "hoursCredited"} -> {"timing-review"}
      [] k \in {"adjustments", "ticket", "ticketVerified"} -> {"salary-finalization"}
      [] k = "pendingEmployeeResponse" -> {"manager-review"}
      [] OTHER -> {}

\* Once a department has passed a request on, what it settled cannot be changed
\* any more, neither by itself nor by a later one.
SettledFieldsStayFrozen ==
    [][\A k \in FieldName :
         request'.fields[k] # request.fields[k] => request.stage \in OpenAt(k)]_vars

\* A request moves one stage ahead or is cancelled by the manager or, contrary to
\* the documents (FollowsRoute), by timing, and a completed or cancelled one never
\* changes again, whatever is tried on it.
StagesOnlyAdvance ==
    [][/\ request'.stage # request.stage =>
            \/ StageRank(request'.stage) = StageRank(request.stage) + 1 /\ request'.stage # "cancelled"
            \/ request'.stage = "cancelled" /\ request.stage \in {"manager-review", "timing-review"}
       /\ request.stage \in Terminal => UNCHANGED request]_vars

\* The signatures of ApprovalRoute are those of the departments whose approval or
\* finalization the audit trail records.
Signatures(r) ==
    {r.audit[i].role : i \in {k \in DOMAIN r.audit : r.audit[k].action \in {"approve", "finalize"}}}

Route == INSTANCE ApprovalRoute WITH
    Requests <- {"request"},
    stage <- [q \in {"request"} |-> request.stage],
    signed <- [q \in {"request"} |-> Signatures(request)]

\* The route as the documents give it: "Only Manager may reject"
\* (random.md/WORKFLOW.md:13), "Later departments cannot reject"
\* (backend.md/README.md:296).  canReject does not keep to it.
FollowsRoute == Route!Spec

\* But for the rejection by timing, no sequence of operations takes the request
\* off the route: none pays a request that a department has not signed, passes
\* one over or repeats one, or revives a request that was cancelled.
FollowsRouteButForTiming == Route!SpecButForTiming

\* If every department deals with its queue, every request is decided: no stage
\* waits for something nobody can do.
EventuallyDecided == <>(request.stage \in Terminal)
=============================================================================
