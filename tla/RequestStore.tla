---------------------------- MODULE RequestStore ----------------------------
(***************************************************************************)
(* The handlers of requestRoutes.ts and workflowRoutes.ts as they run: a   *)
(* handler reads the request, computes the record it wants, and replaces   *)
(* what is stored, and other handlers run at each of its awaits.  Nothing  *)
(* but the check of replaceRequest protects the record: what is stored     *)
(* must not be terminal, and its two histories must be prefixes of the     *)
(* handler's.                                                              *)
(*                                                                         *)
(* The memory adapter reads a request at once.  The PostgreSQL adapter     *)
(* takes three statements on pool connections, each of which sees its own  *)
(* snapshot: the row, then the audit events and the price revisions.       *)
(***************************************************************************)
EXTENDS WorkflowService, FiniteSets

CONSTANTS
    Handlers,      \* HTTP requests that may be in progress at once
    Adapters,      \* of "memory" and "postgres", what appStore.ts may choose
    Leavers,       \* users a directory import may list or leave out
    EditsPerStage, \* bound: recorded edits and questions per stage
    TornEdits,     \* the same bound with PostgreSQL, where reads are torn
    FirstAccommodations, \* bound: those claimed first; with PostgreSQL all that occur
    MaxEvents      \* bound: length of a trail that handlers still extend

ASSUME StoreAssumption ==
    /\ Adapters \subseteq {"memory", "postgres"}
    /\ FirstAccommodations \subseteq Accommodations
    /\ Leavers \subseteq Users

VARIABLES
    adapter,     \* the one the process was started with
    stored,      \* the request: its record and the ids of its history rows
    handlers,    \* what each handler is doing
    windowOpen,  \* the owner's 30 minutes have not passed
    active       \* users listed as active

vars == <<adapter, stored, handlers, windowOpen, active>>

\* What a request looks like to the store.  An event or revision has a random
\* id; here it names the handler that made it and the place it was made for,
\* which no other row of the request can share.
Snapshot(record, auditIds, revisionIds) ==
    [record |-> record, auditIds |-> auditIds, revisionIds |-> revisionIds]

Idle == [phase |-> "idle"]

\* The bound on what a handler may want stored, by adapter.
Explored(r) == adapter = "memory" \/ r.fields.accommodationType \in FirstAccommodations

Histories == {"audit_events", "price_revisions"}

Init ==
    /\ adapter \in Adapters
    /\ \E r \in NewRequests :
          /\ r.fields.accommodationType \in FirstAccommodations
          /\ stored = Snapshot(r, <<[by |-> "submission", at |-> 1]>>, <<>>)
    /\ handlers = [h \in Handlers |-> Idle]
    /\ windowOpen = TRUE
    /\ active = Users

----------------------------------------------------------------------------
(* Reading: findRequestById *)

\* The actor has been authenticated and the row is read.  Whose call it is shows
\* only when the handler decides: actors are the users it may come from.
\* missing: the histories that are still to be queried.
ReadRow(h) ==
    LET row == Snapshot([stored.record EXCEPT !.audit = <<>>, !.priceRevisions = <<>>], <<>>, <<>>)
    IN  /\ handlers[h].phase = "idle"
        /\ handlers' = [handlers EXCEPT ![h] =
              IF adapter = "memory"
              THEN [phase |-> "reading", actors |-> active, seen |-> stored, missing |-> {}]
              ELSE [phase |-> "reading", actors |-> active, seen |-> row, missing |-> Histories]]
        /\ UNCHANGED <<adapter, stored, windowOpen, active>>

\* hydrateRequests: the two queries run in parallel, in either order.
ReadAuditEvents(h) ==
    /\ handlers[h].phase = "reading"
    /\ "audit_events" \in handlers[h].missing
    /\ handlers' = [handlers EXCEPT
          ![h].missing = @ \ {"audit_events"},
          ![h].seen.record.audit = stored.record.audit,
          ![h].seen.auditIds = stored.auditIds]
    /\ UNCHANGED <<adapter, stored, windowOpen, active>>

ReadPriceRevisions(h) ==
    /\ handlers[h].phase = "reading"
    /\ "price_revisions" \in handlers[h].missing
    /\ handlers' = [handlers EXCEPT
          ![h].missing = @ \ {"price_revisions"},
          ![h].seen.record.priceRevisions = stored.record.priceRevisions,
          ![h].seen.revisionIds = stored.revisionIds]
    /\ UNCHANGED <<adapter, stored, windowOpen, active>>

----------------------------------------------------------------------------
(* Computing: the guards and the edits, on what was read *)

EventsAtStage(r) ==
    Cardinality({i \in DOMAIN r.audit : r.audit[i].from = r.stage /\ r.audit[i].to = r.stage})

\* The bound of RequestLifecycle, on the record the handler holds.
WithinBound(r, edits) ==
    \/ EventsAtStage(r) < (IF adapter = "memory" THEN EditsPerStage ELSE TornEdits)
    \/ "ticketVerified" \in DOMAIN edits /\ ~r.fields.ticketVerified

Corrections(r, u) ==
    {CorrectionOutcome(r, u, e) :
        e \in {d \in CorrectionEdits(r) :
                 AcceptsCorrection(r, u, d, windowOpen, active) /\ WithinBound(r, d)}}

\* The records the calls of a department user may want stored.
Decisions(r, u) ==
    LET role == DepartmentRole(u)
    IN  IF ~HasDepartment(u) THEN {}
        ELSE {ApprovalOutcome(r, u, e) :
                e \in {d \in EditsWithApproval(r, role) : AcceptsApproval(r, u, d, active)}}
             \union {ReviewOutcome(r, u, e) :
                e \in {d \in ReviewEdits(r, role) :
                         AcceptsReview(r, u, d, active) /\ WithinBound(r, d)}}
             \union {q \in {RejectionOutcome(r, u)} : AcceptsRejection(r, u)}
             \union {q \in {InfoRequestOutcome(r, u)} :
                       AcceptsInfoRequest(r, u) /\ WithinBound(r, NoEdits)}
             \union {q \in {FinalizationOutcome(r, u)} : AcceptsFinalization(r, u, active)}

\* Mutant: the rows one handler appends share an id.
WithOneNewId(h, ids, length) ==
    [i \in 1..length |-> IF i <= Len(ids) THEN ids[i] ELSE [by |-> h, at |-> length]]

\* Ids for the rows a handler appends to a history.
WithNewIds(h, ids, length) ==
    [i \in 1..length |-> IF i <= Len(ids) THEN ids[i] ELSE [by |-> h, at |-> i]]

WithIds(h, seen, record) ==
    Snapshot(record,
             WithNewIds(h, seen.auditIds, Len(record.audit)),
             WithNewIds(h, seen.revisionIds, Len(record.priceRevisions)))

\* The handler has resolved the owner and holds the record it wants stored.
Wants(h, record, isCorrection) ==
    /\ Len(record.audit) <= MaxEvents /\ Explored(record)
    /\ handlers' = [handlers EXCEPT ![h] =
          [phase |-> "computed", correction |-> isCorrection,
           seen |-> handlers[h].seen, wanted |-> WithIds(h, handlers[h].seen, record)]]
    /\ UNCHANGED <<adapter, stored, windowOpen, active>>

ReadComplete(h) == handlers[h].phase = "reading" /\ handlers[h].missing = {}

ComputeCorrection(h) ==
    /\ ReadComplete(h)
    /\ \E u \in handlers[h].actors :
          \E r \in Corrections(handlers[h].seen.record, u) : Wants(h, r, TRUE)

ComputeDecision(h) ==
    /\ ReadComplete(h)
    /\ \E u \in handlers[h].actors :
          \E r \in Decisions(handlers[h].seen.record, u) : Wants(h, r, FALSE)

----------------------------------------------------------------------------
(* Storing: replaceRequest *)

\* Mutant: only the length is compared.
IsNotShorter(current, next) == Len(next) >= Len(current)

\* Ids stand for the whole rows, which never change once they are written.
IsAppendOnly(current, next) ==
    /\ Len(next) >= Len(current)
    /\ \A i \in 1..Len(current) : current[i] = next[i]

\* Mutant: a terminal request may be replaced.
MayReplaceAny(current, next) ==
    /\ IsAppendOnly(current.auditIds, next.auditIds)
    /\ IsAppendOnly(current.revisionIds, next.revisionIds)

\* PostgreSQL decides while it holds the row FOR UPDATE, memory without an await.
MayReplace(current, next) ==
    /\ current.record.stage \notin Terminal
    /\ IsAppendOnly(current.auditIds, next.auditIds)
    /\ IsAppendOnly(current.revisionIds, next.revisionIds)

\* The histories are read back ordered by created_at and id.  The events that
\* one handler appends may carry the same millisecond, and then their random
\* ids decide.
ReadBackOrders(current, next) ==
    LET n == Len(next.auditIds)
        swap == [i \in 1..n |-> IF i = n THEN n - 1 ELSE IF i = n - 1 THEN n ELSE i]
        swapped == [next EXCEPT !.auditIds = [i \in 1..n |-> @[swap[i]]],
                                !.record.audit = [i \in 1..n |-> @[swap[i]]]]
    IN  IF adapter = "postgres" /\ n - Len(current.auditIds) = 2
        THEN {next, swapped} ELSE {next}

ReplaceRequest(h) ==
    /\ handlers[h].phase = "computed"
    /\ MayReplace(stored, handlers[h].wanted)
    /\ stored' \in ReadBackOrders(stored, handlers[h].wanted)
    /\ handlers' = [handlers EXCEPT ![h] =
          [phase |-> "stored", correction |-> @.correction,
           acknowledged |-> {@.wanted.auditIds[i] : i \in DOMAIN @.wanted.auditIds}]]
    /\ UNCHANGED <<adapter, windowOpen, active>>

\* authorizedView has looked up the owner and the response is sent, or the
\* lookup failed: what has been stored stays, whatever the client is told.
Respond(h) ==
    /\ handlers[h].phase = "stored"
    /\ handlers' = [handlers EXCEPT ![h] = Idle]
    /\ UNCHANGED <<adapter, stored, windowOpen, active>>

\* A guard of the handler or of replaceRequest refuses, a statement fails, or
\* the process dies: a transaction in progress is rolled back.
Fail(h) ==
    /\ handlers[h].phase \in {"reading", "computed"}
    /\ handlers' = [handlers EXCEPT ![h] = Idle]
    /\ UNCHANGED <<adapter, stored, windowOpen, active>>

----------------------------------------------------------------------------
CloseEditWindow ==
    /\ windowOpen
    /\ windowOpen' = FALSE
    /\ UNCHANGED <<adapter, stored, handlers, active>>

\* The directory lives in the database; the development users never leave.
ImportDirectory(listed) ==
    /\ adapter = "postgres"
    /\ active' = (Users \ Leavers) \union listed
    /\ active' # active
    /\ UNCHANGED <<adapter, stored, handlers, windowOpen>>

HandlerStep(h) ==
    \/ ReadRow(h)
    \/ ReadAuditEvents(h)
    \/ ReadPriceRevisions(h)
    \/ ComputeCorrection(h)
    \/ ComputeDecision(h)
    \/ ReplaceRequest(h)
    \/ Respond(h)
    \/ Fail(h)

Next ==
    \/ \E h \in Handlers : HandlerStep(h)
    \/ CloseEditWindow
    \/ \E listed \in SUBSET Leavers : ImportDirectory(listed)

Spec == Init /\ [][Next]_vars

----------------------------------------------------------------------------
(* Properties *)

\* A correction is decided while the window is open and stored a little later:
\* for the abstract request, the window closes when its handler is done.
WindowHeld ==
    \/ windowOpen
    \/ \E h \in Handlers :
          handlers[h].phase \in {"computed", "stored"} /\ handlers[h].correction

Lifecycle == INSTANCE RequestLifecycle WITH request <- stored.record, windowOpen <- WindowHeld

SnapshotType ==
    [record : TravelRequest,
     auditIds : Seq([by : Handlers \union {"submission"}, at : Nat]),
     revisionIds : Seq([by : Handlers, at : Nat])]

\* Every row of a history has its id, and no two rows share one.
WellIdentified(s) ==
    /\ Len(s.auditIds) = Len(s.record.audit)
    /\ Len(s.revisionIds) = Len(s.record.priceRevisions)
    /\ \A i, j \in DOMAIN s.auditIds : s.auditIds[i] = s.auditIds[j] => i = j
    /\ \A i, j \in DOMAIN s.revisionIds : s.revisionIds[i] = s.revisionIds[j] => i = j

\* What is stored, seen and wanted has the shape of a request, and the rows of
\* its histories can be told apart.
TypeOK ==
    /\ adapter \in Adapters
    /\ stored \in SnapshotType /\ WellIdentified(stored)
    /\ \A h \in Handlers :
          /\ handlers[h].phase \in {"idle", "reading", "computed", "stored"}
          /\ handlers[h].phase \in {"reading", "computed"} => handlers[h].seen \in SnapshotType
          /\ handlers[h].phase = "computed" =>
                handlers[h].wanted \in SnapshotType /\ WellIdentified(handlers[h].wanted)
    /\ windowOpen \in BOOLEAN
    /\ active \subseteq Users

\* With the memory adapter the handlers behave as if each call took effect at
\* once: the check of the histories refuses every handler that computed on a
\* record somebody has changed since, so no update is lost: this is
\* Lifecycle!Spec for the processes that were started with that adapter.
ActsAtomically ==
    /\ adapter = "memory" => Lifecycle!Init
    /\ [][adapter = "memory" => [Lifecycle!Next]_(Lifecycle!vars)]_vars

\* Whatever was acknowledged to a client is found in the history ever after,
\* even when a handler that read half of it replaces the request.
AcknowledgedRowsStay ==
    [][\A h \in Handlers :
         handlers[h].phase = "stored" =>
             \A id \in handlers[h].acknowledged : \E i \in DOMAIN stored'.auditIds : stored'.auditIds[i] = id]_vars

\* Even a torn read cannot replace a completed or cancelled request.
TerminalStaysLocked == [][stored.record.stage \in Terminal => UNCHANGED stored]_vars

\* Even a torn read completes a request only on figures that timing and payroll
\* have entered, and locks the price of the row it stores.
PaidOnStoredFigures == PaidAsVerified(stored.record)

----------------------------------------------------------------------------
(* What a document of the repository says and the PostgreSQL adapter does not *)

\* backend.md/BACKEND_TEAM_GUIDE.md:216 "Requests follow the approval
\* departments in order".
DepartmentsDecideInOrder ==
    [][Lifecycle!StageRank(stored'.record.stage) >= Lifecycle!StageRank(stored.record.stage)]_vars
=============================================================================
