----------------------- MODULE WorkflowService_proofs -----------------------
(* Lemmas about the workflow rules, for every company, itinerary and price   *)
(* rule: what each handler makes of the record it holds.                     *)
EXTENDS WorkflowService, SequenceTheorems, TLAPS

(***************************************************************************)
(* Facts about the operators of WorkflowService                            *)
(***************************************************************************)

\* A user with a department acts in one of the department roles.
LEMMA DepartmentRoleType ==
    ASSUME NEW u \in Users, HasDepartment(u)
    PROVE  DepartmentRole(u) \in SystemRole \ {"employee"}
<1> DEFINE held == {i \in 1..Len(RoleOrder) : RoleOrder[i] \in RolesOf[u]}
<1>1. Len(RoleOrder) = 5
      /\ \A i \in 1..5 : RoleOrder[i] \in SystemRole \ {"employee"}
  BY DEF RoleOrder, SystemRole
<1>2. \A role \in SystemRole \ {"employee"} : \E i \in 1..5 : RoleOrder[i] = role
  BY DEF RoleOrder, SystemRole
<1>3. PICK i \in 1..5 : i \in held
  BY <1>1, <1>2, DataAssumption DEF HasDepartment
<1>4. \E m \in held : \A j \in held : m <= j
  <2>1. held \subseteq 1..5
    BY <1>1
  <2>2. QED
    BY <2>1, <1>3
<1>5. (CHOOSE m \in held : \A j \in held : m <= j) \in held
  BY <1>4
<1>6. QED
  BY <1>1, <1>5 DEF DepartmentRole

\* The shape of every set of edits a handler is given.
IsEdit(edits) ==
    /\ DOMAIN edits \subseteq FieldName
    /\ "trip" \in DOMAIN edits => edits.trip \in Trips
    /\ "accommodationType" \in DOMAIN edits => edits.accommodationType \in Accommodations
    /\ "transportation" \in DOMAIN edits => edits.transportation \in Transports
    /\ "verifiedDates" \in DOMAIN edits => edits.verifiedDates \in Trips
    /\ "hoursCredited" \in DOMAIN edits => edits.hoursCredited \in BOOLEAN
    /\ "adjustments" \in DOMAIN edits => edits.adjustments \in Adjustments
    /\ "ticket" \in DOMAIN edits => edits.ticket \in TicketPrices
    /\ "ticketVerified" \in DOMAIN edits => edits.ticketVerified = TRUE
    /\ "timeNeedsVerification" \in DOMAIN edits => edits.timeNeedsVerification = FALSE
    /\ "pendingEmployeeResponse" \notin DOMAIN edits

\* Every field of a well-typed record holds a field value.
LEMMA FieldValues ==
    ASSUME NEW f \in Fields, NEW k \in FieldName
    PROVE  f[k] \in FieldValue
BY DEF Fields, FieldName, FieldValue

\* Applying edits yields well-typed fields.
LEMMA EditedType ==
    ASSUME NEW f \in Fields, NEW edits, IsEdit(edits)
    PROVE  Edited(f, edits) \in Fields
<1> DEFINE e == Edited(f, edits)
<1>1. e = [k \in FieldName |-> IF k \in DOMAIN edits THEN edits[k] ELSE f[k]]
  BY DEF Edited
<1>2. e = [trip |-> e.trip, accommodationType |-> e.accommodationType,
           transportation |-> e.transportation, verifiedDates |-> e.verifiedDates,
           hoursCredited |-> e.hoursCredited, adjustments |-> e.adjustments,
           ticket |-> e.ticket, ticketVerified |-> e.ticketVerified,
           timeNeedsVerification |-> e.timeNeedsVerification,
           pendingEmployeeResponse |-> e.pendingEmployeeResponse]
  BY <1>1 DEF FieldName
<1>3. \A k \in FieldName : e[k] = IF k \in DOMAIN edits THEN edits[k] ELSE f[k]
  BY <1>1
<1>4. /\ f.trip \in Trips /\ f.accommodationType \in Accommodations
      /\ f.transportation \in Transports
      /\ f.verifiedDates \in Trips \union {NotVerified}
      /\ f.hoursCredited \in BOOLEAN /\ f.adjustments \in Adjustments
      /\ f.ticket \in TicketPrices /\ f.ticketVerified \in BOOLEAN
      /\ f.timeNeedsVerification \in BOOLEAN /\ f.pendingEmployeeResponse \in BOOLEAN
  BY DEF Fields
<1>5. e.trip \in Trips /\ e.accommodationType \in Accommodations
  BY <1>3, <1>4 DEF IsEdit, FieldName
<1>6. e.transportation \in Transports /\ e.verifiedDates \in Trips \union {NotVerified}
  BY <1>3, <1>4 DEF IsEdit, FieldName
<1>7. e.adjustments \in Adjustments /\ e.ticket \in TicketPrices
  BY <1>3, <1>4 DEF IsEdit, FieldName
<1>8. e.hoursCredited \in BOOLEAN
  BY <1>3, <1>4 DEF IsEdit, FieldName
<1>9. e.ticketVerified \in BOOLEAN /\ e.timeNeedsVerification \in BOOLEAN
  BY <1>3, <1>4 DEF IsEdit, FieldName
<1>10. e.pendingEmployeeResponse \in BOOLEAN
  BY <1>3, <1>4 DEF IsEdit, FieldName
<1> HIDE DEF e
<1>11. e \in Fields
  BY <1>2, <1>5, <1>6, <1>7, <1>8, <1>9, <1>10 DEF Fields
<1>12. QED
  BY <1>11 DEF e

\* Everything a body may ask for has the shape of an edit.
LEMMA CorrectionEditsType ==
    ASSUME NEW r, NEW edits \in CorrectionEdits(r)
    PROVE  IsEdit(edits)
BY DEF CorrectionEdits, IsEdit, FieldName

LEMMA NoEditsType == IsEdit(NoEdits)
BY DEF IsEdit, NoEdits

LEMMA ApprovalEditsType ==
    ASSUME NEW r, NEW role \in SystemRole, NEW edits \in ApprovalEdits(r, role)
    PROVE  IsEdit(edits)
<1>1. CASE role = "pr"
  BY <1>1 DEF ApprovalEdits, IsEdit, FieldName
<1>2. CASE role = "transportation"
  BY <1>2 DEF ApprovalEdits, IsEdit, FieldName
<1>3. CASE role = "timing"
  <2>1. PICK t \in Trips, met \in BOOLEAN : edits = Attendance(r, t, met)
    BY <1>3 DEF ApprovalEdits
  <2>2. PICK h \in BOOLEAN : edits = [verifiedDates |-> t, hoursCredited |-> h]
    BY <2>1 DEF Attendance
  <2>3. QED
    BY <2>2 DEF IsEdit, FieldName
<1>4. QED
  BY <1>1, <1>2, <1>3 DEF ApprovalEdits, SystemRole

LEMMA ReviewEditsType ==
    ASSUME NEW r, NEW role \in SystemRole, NEW edits \in ReviewEdits(r, role)
    PROVE  IsEdit(edits)
<1>1. CASE role = "manager"
  BY <1>1 DEF ReviewEdits, IsEdit, FieldName
<1>2. CASE role = "salary"
  BY <1>2 DEF ReviewEdits, SalaryEdits, IsEdit, FieldName
<1>3. CASE role \notin {"manager", "salary"}
  BY <1>3, ApprovalEditsType DEF ReviewEdits
<1>4. QED
  BY <1>1, <1>2, <1>3

\* What ChangesFor records is a set of changes.
LEMMA ChangesForType ==
    ASSUME NEW r, r.fields \in Fields, NEW edits, IsEdit(edits)
    PROVE  ChangesFor(r, edits) \subseteq Change
<1>1. \A k \in DOMAIN edits : k \in FieldName /\ edits[k] \in FieldValue
  BY DEF IsEdit, FieldName, FieldValue
<1>2. \A k \in FieldName : r.fields[k] \in FieldValue
  BY FieldValues
<1>3. QED
  BY <1>1, <1>2 DEF ChangesFor, Change

\* An edit that changes no value leaves the fields as they are.
LEMMA EditedWithoutChanges ==
    ASSUME NEW r, r.fields \in Fields, NEW edits, IsEdit(edits), ChangesFor(r, edits) = {}
    PROVE  Edited(r.fields, edits) = r.fields
<1>1. \A k \in DOMAIN edits : edits[k] = r.fields[k]
  BY DEF ChangesFor
<1>2. r.fields = [k \in FieldName |-> r.fields[k]]
  BY DEF Fields, FieldName
<1>3. QED
  BY <1>1, <1>2 DEF Edited

LEMMA NewAuditEventType ==
    ASSUME NEW r, r.stage \in WorkflowStage, NEW u \in Users, NEW role \in SystemRole,
           NEW action \in Action, NEW to \in WorkflowStage, NEW changes \in SUBSET Change
    PROVE  /\ NewAuditEvent(r, u, role, action, to, changes) \in AuditEvent
           /\ NewAuditEvent(r, u, role, action, to, changes).from = r.stage
           /\ NewAuditEvent(r, u, role, action, to, changes).to = to
           /\ NewAuditEvent(r, u, role, action, to, changes).action = action
           /\ NewAuditEvent(r, u, role, action, to, changes).role = role
           /\ NewAuditEvent(r, u, role, action, to, changes).actor = u
           /\ NewAuditEvent(r, u, role, action, to, changes).changes = changes
BY DEF NewAuditEvent, AuditEvent

\* What no handler ever changes.
SamePapers(r, q) == q.owner = r.owner /\ q.manager = r.manager /\ q.submitted = r.submitted

\* The parts of a well-typed request.
LEMMA RequestParts ==
    ASSUME NEW r \in TravelRequest
    PROVE  /\ r.owner \in Users /\ r.manager \in Users /\ r.stage \in WorkflowStage
           /\ r.fields \in Fields /\ r.submitted \in Fields
           /\ r.salaryPreview \in Calculation /\ r.finalSalary \in Seq(Calculation)
           /\ r.audit \in Seq(AuditEvent) /\ r.priceRevisions \in Seq(PriceRevision)
BY DEF TravelRequest

\* A request with one more event, other fields and another stage.
Logged(r, e, f, s) == [WithAuditEvent(r, e) EXCEPT !.fields = f, !.stage = s]

\* Recording an event and replacing fields keeps a request well typed.
LEMMA LoggedRequestType ==
    ASSUME NEW r \in TravelRequest, NEW e \in AuditEvent, NEW f \in Fields,
           NEW s \in WorkflowStage, NEW q,
           q = Logged(r, e, f, s)
    PROVE  /\ q \in TravelRequest
           /\ q.audit = Append(r.audit, e) /\ q.fields = f /\ q.stage = s
           /\ q.salaryPreview = r.salaryPreview /\ q.finalSalary = r.finalSalary
           /\ q.priceRevisions = r.priceRevisions /\ SamePapers(r, q)
<1>1. Append(r.audit, e) \in Seq(AuditEvent)
  BY RequestParts, AppendProperties
<1>2. QED
  BY <1>1 DEF Logged, WithAuditEvent, TravelRequest, SamePapers

\* EditRequest applies the edits; it records them unless they change nothing.
LEMMA EditRequestEffect ==
    ASSUME NEW r \in TravelRequest, NEW u \in Users, NEW role \in SystemRole,
           NEW edits, IsEdit(edits), NEW q, q = EditRequest(r, u, role, edits)
    PROVE  /\ q \in TravelRequest
           /\ q.fields = Edited(r.fields, edits) /\ q.stage = r.stage
           /\ q.salaryPreview = r.salaryPreview /\ q.finalSalary = r.finalSalary
           /\ q.priceRevisions = r.priceRevisions /\ SamePapers(r, q)
           /\ \/ q = r
              \/ q.audit = Append(r.audit, NewAuditEvent(r, u, role, "edit", r.stage,
                                                        ChangesFor(r, edits)))
<1> DEFINE e == NewAuditEvent(r, u, role, "edit", r.stage, ChangesFor(r, edits))
           f == Edited(r.fields, edits)
<1>1. CASE ChangesFor(r, edits) = {}
  <2>1. q = r
    BY <1>1 DEF EditRequest
  <2>2. f = r.fields
    BY <1>1, RequestParts, EditedWithoutChanges
  <2>3. QED
    BY <2>1, <2>2 DEF SamePapers
<1>2. CASE ChangesFor(r, edits) # {}
  <2>1. f \in Fields /\ ChangesFor(r, edits) \in SUBSET Change
    BY RequestParts, EditedType, ChangesForType
  <2>2. e \in AuditEvent /\ e.from = r.stage /\ e.to = r.stage /\ e.action = "edit"
    BY <2>1, RequestParts, NewAuditEventType DEF Action
  <2>3. q = [WithAuditEvent(r, e) EXCEPT !.fields = f]
    BY <1>2 DEF EditRequest
  <2>4. q = Logged(r, e, f, r.stage)
    BY <2>3 DEF Logged, WithAuditEvent, TravelRequest
  <2> HIDE DEF e, f
  <2>5. /\ q \in TravelRequest
        /\ q.audit = Append(r.audit, e) /\ q.fields = f /\ q.stage = r.stage
        /\ q.salaryPreview = r.salaryPreview /\ q.finalSalary = r.finalSalary
        /\ q.priceRevisions = r.priceRevisions /\ SamePapers(r, q)
    BY <2>1, <2>2, <2>4, RequestParts, LoggedRequestType
  <2>6. QED
    BY <2>5 DEF e, f
<1>3. QED
  BY <1>1, <1>2

\* The price of well-typed fields is a calculation.
LEMMA CalculateType ==
    ASSUME NEW f \in Fields
    PROVE  Calculate(f) \in Calculation
BY DEF Calculation

LEMMA NewRevisionType ==
    ASSUME NEW r, r.stage \in WorkflowStage, NEW u \in Users, NEW role \in SystemRole,
           NEW old \in Calculation, NEW new \in Calculation
    PROVE  NewRevision(r, u, role, old, new) \in PriceRevision
BY DEF NewRevision, PriceRevision

\* A request with another preview and another history of prices.
Priced(r, c, h) == [r EXCEPT !.salaryPreview = c, !.priceRevisions = h]

\* A new preview and a longer price history keep a request well typed.
LEMMA PricedRequestType ==
    ASSUME NEW r \in TravelRequest, NEW c \in Calculation, NEW h \in Seq(PriceRevision),
           NEW q, q = Priced(r, c, h)
    PROVE  /\ q \in TravelRequest
           /\ q.salaryPreview = c /\ q.priceRevisions = h
           /\ q.audit = r.audit /\ q.fields = r.fields /\ q.stage = r.stage
           /\ q.finalSalary = r.finalSalary /\ SamePapers(r, q)
BY DEF Priced, TravelRequest, SamePapers

\* Edits that may move the price leave the preview on the edited fields.
LEMMA WithFinancialEditsEffect ==
    ASSUME NEW r \in TravelRequest, r.salaryPreview = Calculate(r.fields),
           NEW u \in Users, NEW role \in SystemRole,
           NEW edits, IsEdit(edits), NEW q, q = WithFinancialEdits(r, u, role, edits)
    PROVE  /\ q \in TravelRequest
           /\ q.fields = Edited(r.fields, edits) /\ q.stage = r.stage
           /\ q.salaryPreview = Calculate(q.fields) /\ q.finalSalary = r.finalSalary
           /\ \/ q = r
              \/ q.audit = Append(r.audit, NewAuditEvent(r, u, role, "edit", r.stage,
                                                        ChangesFor(r, edits)))
           /\ SamePapers(r, q)
           /\ q.priceRevisions =
                IF q.salaryPreview.totalAmount # r.salaryPreview.totalAmount
                THEN Append(r.priceRevisions,
                            NewRevision(r, u, role, r.salaryPreview, q.salaryPreview))
                ELSE r.priceRevisions
<1>1. CASE DOMAIN edits = {}
  <2>1. q = r
    BY <1>1 DEF WithFinancialEdits
  <2>2. ChangesFor(r, edits) = {}
    BY <1>1 DEF ChangesFor
  <2>3. Edited(r.fields, edits) = r.fields
    BY <2>2, RequestParts, EditedWithoutChanges
  <2>4. QED
    BY <2>1, <2>3 DEF SamePapers
<1>2. CASE DOMAIN edits # {}
  <2> DEFINE m == EditRequest(r, u, role, edits)
             c == Calculate(m.fields)
             rev == NewRevision(m, u, role, r.salaryPreview, c)
             h == IF c.totalAmount # r.salaryPreview.totalAmount
                  THEN Append(m.priceRevisions, rev) ELSE m.priceRevisions
  <2>1. q = Priced(m, c, h)
    BY <1>2 DEF WithFinancialEdits, Priced
  <2>2. /\ m \in TravelRequest
        /\ m.fields = Edited(r.fields, edits) /\ m.stage = r.stage
        /\ m.finalSalary = r.finalSalary /\ SamePapers(r, m)
        /\ m.priceRevisions = r.priceRevisions
        /\ \/ m = r
           \/ m.audit = Append(r.audit, NewAuditEvent(r, u, role, "edit", r.stage,
                                                     ChangesFor(r, edits)))
    BY EditRequestEffect
  <2> HIDE DEF m
  <2>3. c \in Calculation
    BY <2>2, RequestParts, CalculateType
  <2>4. h \in Seq(PriceRevision)
    <3>1. rev \in PriceRevision
      BY <2>2, <2>3, RequestParts, NewRevisionType
    <3>2. Append(m.priceRevisions, rev) \in Seq(PriceRevision)
      BY <2>2, <3>1, RequestParts, AppendProperties
    <3>3. QED
      BY <2>2, <3>2, RequestParts
  <2>5. h = IF c.totalAmount # r.salaryPreview.totalAmount
            THEN Append(r.priceRevisions, NewRevision(r, u, role, r.salaryPreview, c))
            ELSE r.priceRevisions
    BY <2>2 DEF NewRevision
  <2> HIDE DEF c, h
  <2>6. /\ q \in TravelRequest
        /\ q.salaryPreview = c /\ q.priceRevisions = h
        /\ q.audit = m.audit /\ q.fields = m.fields /\ q.stage = m.stage
        /\ q.finalSalary = m.finalSalary /\ SamePapers(m, q)
    BY <2>1, <2>2, <2>3, <2>4, PricedRequestType
  <2>7. SamePapers(r, q)
    BY <2>2, <2>6 DEF SamePapers
  <2>8. m = r => q = r
    <3> SUFFICES ASSUME m = r PROVE q = r
      OBVIOUS
    <3>1. c = r.salaryPreview /\ h = r.priceRevisions
      BY <2>5 DEF c
    <3>2. QED
      BY <2>1, <3>1 DEF Priced, TravelRequest
  <2>9. q.salaryPreview = Calculate(q.fields)
    BY <2>6 DEF c
  <2>10. QED
    BY <2>2, <2>5, <2>6, <2>7, <2>8, <2>9
<1>3. QED
  BY <1>1, <1>2

(***************************************************************************)
(* The record each handler stores                                          *)
(***************************************************************************)

\* A request moved to another stage by an event.
Moved(r, u, role, action, s) ==
    [WithAuditEvent(r, NewAuditEvent(r, u, role, action, s, {})) EXCEPT !.stage = s]

\* A move is recorded and leaves the fields and the price alone.
LEMMA MovedRequest ==
    ASSUME NEW r \in TravelRequest, NEW u \in Users, NEW role \in SystemRole,
           NEW action \in Action \ {"submit"}, NEW s \in WorkflowStage, NEW q,
           q = Moved(r, u, role, action, s)
    PROVE  /\ q \in TravelRequest
           /\ q.audit = Append(r.audit, NewAuditEvent(r, u, role, action, s, {}))
           /\ q.fields = r.fields /\ q.stage = s
           /\ q.salaryPreview = r.salaryPreview /\ q.finalSalary = r.finalSalary
           /\ q.priceRevisions = r.priceRevisions /\ SamePapers(r, q)
<1> DEFINE e == NewAuditEvent(r, u, role, action, s, {})
<1>1. e \in AuditEvent /\ e.from = r.stage /\ e.to = s /\ e.action = action
  BY RequestParts, NewAuditEventType
<1>2. q = Logged(r, e, r.fields, s)
  BY DEF Moved, Logged, WithAuditEvent, TravelRequest
<1> HIDE DEF e
<1>3. /\ q \in TravelRequest
      /\ q.audit = Append(r.audit, e)
      /\ q.fields = r.fields /\ q.stage = s
      /\ q.salaryPreview = r.salaryPreview /\ q.finalSalary = r.finalSalary
      /\ q.priceRevisions = r.priceRevisions /\ SamePapers(r, q)
  BY <1>1, <1>2, RequestParts, LoggedRequestType
<1>4. QED
  BY <1>3 DEF e

LEMMA ApprovedEffect ==
    ASSUME NEW r \in TravelRequest, NEW u \in Users, NEW role \in SystemRole,
           r.stage \in DOMAIN NextStage, NEW q, q = Approved(r, u, role)
    PROVE  /\ q \in TravelRequest
           /\ q.audit = Append(r.audit, NewAuditEvent(r, u, role, "approve", q.stage, {}))
           /\ q.fields = r.fields /\ q.stage = NextStage[r.stage]
           /\ q.salaryPreview = r.salaryPreview /\ q.finalSalary = r.finalSalary
           /\ q.priceRevisions = r.priceRevisions /\ SamePapers(r, q)
<1> DEFINE s == NextStage[r.stage]
<1>1. s \in WorkflowStage
  BY DEF NextStage, WorkflowStage, ReviewStages
<1>2. q = Moved(r, u, role, "approve", s)
  BY DEF Approved, Moved
<1>3. "approve" \in Action \ {"submit"}
  BY DEF Action
<1> HIDE DEF s
<1>4. /\ q \in TravelRequest
      /\ q.audit = Append(r.audit, NewAuditEvent(r, u, role, "approve", s, {}))
      /\ q.fields = r.fields /\ q.stage = s
      /\ q.salaryPreview = r.salaryPreview /\ q.finalSalary = r.finalSalary
      /\ q.priceRevisions = r.priceRevisions /\ SamePapers(r, q)
  BY <1>1, <1>2, <1>3, MovedRequest
<1>5. QED
  BY <1>4 DEF s

LEMMA RejectedEffect ==
    ASSUME NEW r \in TravelRequest, NEW u \in Users, NEW role \in SystemRole,
           NEW q, q = Rejected(r, u, role)
    PROVE  /\ q \in TravelRequest
           /\ q.audit = Append(r.audit, NewAuditEvent(r, u, role, "reject", "cancelled", {}))
           /\ q.fields = r.fields /\ q.stage = "cancelled"
           /\ q.salaryPreview = r.salaryPreview /\ q.finalSalary = r.finalSalary
           /\ q.priceRevisions = r.priceRevisions /\ SamePapers(r, q)
<1>1. "cancelled" \in WorkflowStage /\ "reject" \in Action \ {"submit"}
  BY DEF WorkflowStage, Terminal, Action
<1>2. q = Moved(r, u, role, "reject", "cancelled")
  BY DEF Rejected, Moved
<1>3. QED
  BY <1>1, <1>2, MovedRequest

LEMMA AskedForInfoEffect ==
    ASSUME NEW r \in TravelRequest, NEW u \in Users, NEW role \in SystemRole,
           NEW q, q = AskedForInfo(r, u, role)
    PROVE  /\ q \in TravelRequest
           /\ q.fields = [r.fields EXCEPT !.pendingEmployeeResponse = TRUE]
           /\ q.stage = r.stage
           /\ \E e \in AuditEvent :
                 /\ q.audit = Append(r.audit, e)
                 /\ e.action = "request-info" /\ e.from = r.stage /\ e.to = r.stage
                 /\ e.changes = {[field |-> "pendingEmployeeResponse",
                                  before |-> r.fields.pendingEmployeeResponse, after |-> TRUE]}
           /\ q.salaryPreview = r.salaryPreview /\ q.finalSalary = r.finalSalary
           /\ q.priceRevisions = r.priceRevisions /\ SamePapers(r, q)
<1> DEFINE flag == [field |-> "pendingEmployeeResponse",
                    before |-> r.fields.pendingEmployeeResponse, after |-> TRUE]
           e == NewAuditEvent(r, u, role, "request-info", r.stage, {flag})
           f == [r.fields EXCEPT !.pendingEmployeeResponse = TRUE]
<1>1. f \in Fields
  BY RequestParts DEF Fields
<1>2. flag \in Change
  <2>1. r.fields.pendingEmployeeResponse \in BOOLEAN
    BY RequestParts DEF Fields
  <2>2. QED
    BY <2>1 DEF Change, FieldName, FieldValue
<1>3. /\ e \in AuditEvent /\ e.from = r.stage /\ e.to = r.stage
      /\ e.action = "request-info" /\ e.changes = {flag}
  <2>1. "request-info" \in Action /\ {flag} \in SUBSET Change
    BY <1>2 DEF Action
  <2> HIDE DEF flag
  <2>2. QED
    BY <2>1, RequestParts, NewAuditEventType
<1>4. q = Logged(r, e, f, r.stage)
  BY DEF AskedForInfo, Logged, WithAuditEvent, TravelRequest
<1> HIDE DEF e, f
<1>5. /\ q \in TravelRequest
      /\ q.audit = Append(r.audit, e) /\ q.fields = f /\ q.stage = r.stage
      /\ q.salaryPreview = r.salaryPreview /\ q.finalSalary = r.finalSalary
      /\ q.priceRevisions = r.priceRevisions /\ SamePapers(r, q)
  BY <1>1, <1>3, <1>4, RequestParts, LoggedRequestType
<1>6. QED
  BY <1>3, <1>5 DEF f

LEMMA AskedForInfoKeepsPrice ==
    ASSUME NEW r \in TravelRequest, NEW u, NEW role, NEW q, q = AskedForInfo(r, u, role)
    PROVE  q.priceRevisions = r.priceRevisions /\ q.salaryPreview = r.salaryPreview
BY DEF AskedForInfo, WithAuditEvent, TravelRequest

LEMMA FinalizationEffect ==
    ASSUME NEW r \in TravelRequest, NEW u \in Users, DepartmentRole(u) \in SystemRole,
           NEW q, q = FinalizationOutcome(r, u)
    PROVE  /\ q \in TravelRequest
           /\ q.fields = r.fields /\ q.stage = "completed"
           /\ q.salaryPreview = Calculate(q.fields)
           /\ q.finalSalary = <<Calculate(q.fields)>>
           /\ Len(q.audit) = Len(r.audit) + 1
           /\ \A i \in 1..Len(r.audit) : q.audit[i] = r.audit[i]
           /\ q.audit[Len(q.audit)].action = "finalize"
           /\ q.audit = Append(r.audit, NewAuditEvent(r, u, DepartmentRole(u), "finalize",
                                                     "completed", {}))
           /\ \E rev \in PriceRevision :
                 /\ q.priceRevisions = Append(r.priceRevisions, rev)
                 /\ rev.stage = "completed"
                 /\ rev.previousCalculation = q.salaryPreview
                 /\ rev.newCalculation = q.salaryPreview
           /\ SamePapers(r, q)
<1> DEFINE role == DepartmentRole(u)
           c == Calculate(r.fields)
           priced == [r EXCEPT !.salaryPreview = c]
           e == NewAuditEvent(priced, u, role, "finalize", "completed", {})
           l == Logged(priced, e, priced.fields, "completed")
           done == Finalized(priced, u, role)
           rev == NewRevision(done, u, role, priced.salaryPreview, done.finalSalary[1])
<1>1. c \in Calculation
  BY RequestParts, CalculateType
<1> HIDE DEF c
<1>2. /\ priced \in TravelRequest /\ priced.salaryPreview = c
      /\ priced.audit = r.audit /\ priced.stage = r.stage /\ priced.fields = r.fields
      /\ priced.priceRevisions = r.priceRevisions /\ SamePapers(r, priced)
  BY <1>1 DEF TravelRequest, SamePapers
<1>3. /\ e \in AuditEvent /\ e.from = r.stage /\ e.to = "completed"
      /\ e.action = "finalize" /\ e.role = role /\ e.changes = {}
  <2>1. "completed" \in WorkflowStage /\ "finalize" \in Action /\ {} \in SUBSET Change
    BY DEF WorkflowStage, Terminal, Action
  <2> HIDE DEF priced
  <2>2. QED
    BY <1>2, <2>1, RequestParts, NewAuditEventType
<1>4. done = [l EXCEPT !.finalSalary = <<c>>]
  <2>1. <<priced.salaryPreview>> = <<c>>
    BY <1>2
  <2> HIDE DEF priced
  <2>2. QED
    BY <1>2, <2>1 DEF Finalized, Logged, WithAuditEvent, TravelRequest
<1> HIDE DEF priced, e, done
<1>5. /\ l \in TravelRequest
      /\ l.audit = Append(r.audit, e)
      /\ l.fields = r.fields /\ l.stage = "completed" /\ l.salaryPreview = c
      /\ l.priceRevisions = r.priceRevisions /\ SamePapers(priced, l)
  <2>1. "completed" \in WorkflowStage /\ priced.fields \in Fields
    BY <1>2, RequestParts DEF WorkflowStage, Terminal
  <2>2. QED
    BY <1>2, <1>3, <2>1, LoggedRequestType
<1> HIDE DEF l
<1>6. /\ done \in TravelRequest
      /\ done.audit = Append(r.audit, e)
      /\ done.fields = r.fields /\ done.stage = "completed"
      /\ done.salaryPreview = c /\ done.finalSalary = <<c>>
      /\ done.priceRevisions = r.priceRevisions /\ SamePapers(l, done)
  <2>1. \A g \in Seq(Calculation) :
          /\ [l EXCEPT !.finalSalary = g] \in TravelRequest
          /\ [l EXCEPT !.finalSalary = g].audit = l.audit
          /\ [l EXCEPT !.finalSalary = g].fields = l.fields
          /\ [l EXCEPT !.finalSalary = g].stage = l.stage
          /\ [l EXCEPT !.finalSalary = g].salaryPreview = l.salaryPreview
          /\ [l EXCEPT !.finalSalary = g].finalSalary = g
          /\ [l EXCEPT !.finalSalary = g].priceRevisions = l.priceRevisions
          /\ SamePapers(l, [l EXCEPT !.finalSalary = g])
    BY <1>5 DEF TravelRequest, SamePapers
  <2>2. <<c>> \in Seq(Calculation)
    BY <1>1
  <2>3. QED
    BY <1>4, <1>5, <2>1, <2>2
<1>7. /\ rev \in PriceRevision /\ rev.stage = "completed"
      /\ rev.previousCalculation = c /\ rev.newCalculation = c
  <2>1. done.finalSalary[1] = c
    BY <1>6
  <2>2. rev \in PriceRevision
    BY <1>1, <1>2, <1>6, <2>1, RequestParts, NewRevisionType
  <2>3. QED
    BY <1>2, <1>6, <2>1, <2>2 DEF NewRevision
<1>8. Append(done.priceRevisions, rev) \in Seq(PriceRevision)
  BY <1>6, <1>7, RequestParts, AppendProperties
<1> HIDE DEF rev
<1>9. q = [done EXCEPT !.priceRevisions = Append(done.priceRevisions, rev)]
  BY DEF FinalizationOutcome, done, priced, c, rev
<1>10. /\ q \in TravelRequest
       /\ q.audit = Append(r.audit, e)
       /\ q.fields = r.fields /\ q.stage = "completed"
       /\ q.salaryPreview = c /\ q.finalSalary = <<c>>
       /\ q.priceRevisions = Append(r.priceRevisions, rev) /\ SamePapers(done, q)
  BY <1>6, <1>8, <1>9 DEF TravelRequest, SamePapers
<1>11. SamePapers(r, q)
  BY <1>2, <1>5, <1>6, <1>10 DEF SamePapers
<1>12. /\ Len(q.audit) = Len(r.audit) + 1
       /\ \A i \in 1..Len(r.audit) : q.audit[i] = r.audit[i]
       /\ q.audit[Len(q.audit)] = e
  BY <1>3, <1>10, RequestParts, AppendProperties
<1>13. e = NewAuditEvent(r, u, role, "finalize", "completed", {})
  BY <1>2 DEF e, NewAuditEvent
<1>14. QED
  BY <1>3, <1>7, <1>10, <1>11, <1>12, <1>13 DEF c

(***************************************************************************)
(* The inductive invariant                                                 *)
(***************************************************************************)

\* Why PaidOnVerifiedFigures holds: the ticket price is verified only at the
\* last stage, and then the trail names the edit that entered it; the last stage
\* is reached only with an attendance; an amount is stored only on completion.
FiguresTraced(r) ==
    /\ r.stage # "completed" => r.finalSalary = <<>>
    /\ r.stage = "completed" =>
          /\ r.finalSalary = <<Calculate(r.fields)>>
          /\ r.fields.ticketVerified
          /\ r.audit[Len(r.audit)].action = "finalize"
    /\ r.fields.ticketVerified =>
          /\ r.stage \in {"salary-finalization", "completed"}
          /\ \E i \in 1..Len(r.audit) : EntersTicket(r.audit[i])
    /\ r.stage \in {"salary-finalization", "completed"} => r.fields.verifiedDates # NotVerified

Sound(r) ==
    /\ r \in TravelRequest
    /\ r.salaryPreview = Calculate(r.fields)
    /\ FiguresTraced(r)

\* A record before the last stage on which nobody has verified a ticket price.
LEMMA EarlyRequestTraced ==
    ASSUME NEW r, r.stage \notin {"salary-finalization", "completed"},
           ~r.fields.ticketVerified, r.finalSalary = <<>>
    PROVE  FiguresTraced(r)
BY DEF FiguresTraced

LEMMA NewRequestSound ==
    ASSUME NEW r \in NewRequests
    PROVE  Sound(r)
<1>1. PICK o \in Users, m \in Users, t \in Trips, a \in Accommodations, x \in Transports :
        r = NewRequest(o, m, t, a, x)
  BY DEF NewRequests
<1> DEFINE f == SubmittedFields(t, a, x)
           e == [actor |-> o, role |-> "employee", action |-> "submit",
                 from |-> "none", to |-> "manager-review", changes |-> {}]
<1>2. f \in Fields /\ f.ticketVerified = FALSE
  BY DataAssumption DEF SubmittedFields, Fields
<1>3. e \in AuditEvent
  BY DEF AuditEvent, SystemRole, Action, WorkflowStage, ReviewStages
<1>4. /\ e.from = "none" /\ e.to = "manager-review" /\ e.action = "submit"
  OBVIOUS
<1>5. Calculate(f) \in Calculation
  BY <1>2, CalculateType
<1>6. r = [owner |-> o, manager |-> m, stage |-> "manager-review",
           fields |-> f, submitted |-> f,
           salaryPreview |-> Calculate(f), finalSalary |-> <<>>,
           audit |-> <<e>>, priceRevisions |-> <<>>]
  BY <1>1 DEF NewRequest
<1> HIDE DEF f, e
<1>7. <<e>> \in Seq(AuditEvent) /\ Len(<<e>>) = 1 /\ <<e>>[1] = e
  BY <1>3
<1>8. "manager-review" \in WorkflowStage
  BY DEF WorkflowStage, ReviewStages
<1>9. r \in TravelRequest
  <2>1. <<>> \in Seq(Calculation) /\ <<>> \in Seq(PriceRevision)
    OBVIOUS
  <2>2. QED
    BY <1>2, <1>5, <1>6, <1>7, <1>8, <2>1 DEF TravelRequest
<1>10. /\ r.stage = "manager-review" /\ r.fields = f /\ r.salaryPreview = Calculate(f)
       /\ r.finalSalary = <<>> /\ r.audit = <<e>>
  BY <1>6
<1>11. FiguresTraced(r)
  BY <1>2, <1>10, EarlyRequestTraced
<1>12. QED
  BY <1>9, <1>10, <1>11 DEF Sound

\* Edits of others leave what was verified about the ticket and the dates alone.
LEMMA EditedField ==
    ASSUME NEW f, NEW edits, NEW k \in FieldName
    PROVE  Edited(f, edits)[k] = IF k \in DOMAIN edits THEN edits[k] ELSE f[k]
BY DEF Edited

LEMMA CorrectionSound ==
    ASSUME NEW r, Sound(r), NEW u \in Users, NEW edits \in CorrectionEdits(r),
           r.stage = "manager-review"
    PROVE  Sound(CorrectionOutcome(r, u, edits))
<1> DEFINE m == EditRequest(r, u, "employee", edits)
           q == CorrectionOutcome(r, u, edits)
<1>1. "employee" \in SystemRole /\ IsEdit(edits) /\ "ticketVerified" \notin DOMAIN edits
  BY CorrectionEditsType DEF SystemRole, CorrectionEdits
<1>2. /\ m \in TravelRequest
      /\ m.fields = Edited(r.fields, edits) /\ m.stage = r.stage
      /\ m.finalSalary = r.finalSalary
  BY <1>1, EditRequestEffect DEF Sound
<1>3. q = Priced(m, Calculate(m.fields), m.priceRevisions)
  BY <1>2 DEF CorrectionOutcome, Priced, TravelRequest
<1> HIDE DEF m, q
<1>4. Calculate(m.fields) \in Calculation /\ m.priceRevisions \in Seq(PriceRevision)
  BY <1>2, RequestParts, CalculateType
<1>5. /\ q \in TravelRequest
      /\ q.salaryPreview = Calculate(m.fields)
      /\ q.audit = m.audit /\ q.fields = m.fields /\ q.stage = m.stage
      /\ q.finalSalary = m.finalSalary
  BY <1>2, <1>3, <1>4, PricedRequestType
<1>6. q.fields.ticketVerified = r.fields.ticketVerified
  BY <1>1, <1>2, <1>5, EditedField DEF FieldName
<1>7. r.finalSalary = <<>> /\ ~r.fields.ticketVerified
  BY DEF Sound, FiguresTraced
<1>8. FiguresTraced(q)
  BY <1>2, <1>5, <1>6, <1>7, EarlyRequestTraced
<1>9. QED
  BY <1>5, <1>8 DEF Sound, q

LEMMA EditsWithApprovalType ==
    ASSUME NEW r, NEW role \in SystemRole, NEW edits \in EditsWithApproval(r, role)
    PROVE  /\ IsEdit(edits) /\ "ticketVerified" \notin DOMAIN edits
           /\ role = "timing" => "verifiedDates" \in DOMAIN edits
<1>1. CASE edits = NoEdits /\ role # "timing"
  BY <1>1, NoEditsType DEF NoEdits
<1>2. CASE edits \in ApprovalEdits(r, role)
  <2>1. IsEdit(edits)
    BY <1>2, ApprovalEditsType
  <2>2. "ticketVerified" \notin DOMAIN edits
    <3>1. CASE role = "timing"
      BY <1>2, <3>1 DEF ApprovalEdits, Attendance
    <3>2. CASE role # "timing"
      BY <1>2, <3>2 DEF ApprovalEdits
    <3>3. QED
      BY <3>1, <3>2
  <2>3. role = "timing" => "verifiedDates" \in DOMAIN edits
    BY <1>2 DEF ApprovalEdits, Attendance
  <2>4. QED
    BY <2>1, <2>2, <2>3
<1>3. QED
  BY <1>1, <1>2 DEF EditsWithApproval

LEMMA ApprovalSound ==
    ASSUME NEW r, Sound(r), NEW u \in Users, NEW allowed,
           NEW edits \in EditsWithApproval(r, DepartmentRole(u)),
           AcceptsApproval(r, u, edits, allowed)
    PROVE  Sound(ApprovalOutcome(r, u, edits))
<1> DEFINE role == DepartmentRole(u)
           m == WithFinancialEdits(r, u, role, edits)
           q == ApprovalOutcome(r, u, edits)
<1>1. role \in SystemRole \ {"employee"}
  BY DepartmentRoleType DEF AcceptsApproval
<1>2. r.stage = ApprovalStage(role)
  BY DEF AcceptsApproval, CanApprove
<1>3. q = Approved(m, u, role)
  BY DEF ApprovalOutcome
<1> HIDE DEF m, q, role
<1>4. /\ IsEdit(edits) /\ "ticketVerified" \notin DOMAIN edits
      /\ role = "timing" => "verifiedDates" \in DOMAIN edits
  BY <1>1, EditsWithApprovalType DEF role
<1>5. /\ m \in TravelRequest
      /\ m.fields = Edited(r.fields, edits) /\ m.stage = r.stage
      /\ m.salaryPreview = Calculate(m.fields) /\ m.finalSalary = r.finalSalary
  BY <1>1, <1>4, WithFinancialEditsEffect DEF Sound, m
<1>6. /\ r.stage \in {"manager-review", "pr-review", "transportation-review", "timing-review"}
      /\ r.stage = "timing-review" => role = "timing"
  <2>1. r.stage \in WorkflowStage
    BY RequestParts DEF Sound
  <2>2. QED
    BY <1>1, <1>2, <2>1 DEF ApprovalStage, SystemRole, WorkflowStage, ReviewStages, Terminal
<1>7. m.stage \in DOMAIN NextStage
  BY <1>5, <1>6 DEF NextStage
<1>8. /\ q \in TravelRequest
      /\ q.fields = m.fields /\ q.stage = NextStage[m.stage]
      /\ q.salaryPreview = m.salaryPreview /\ q.finalSalary = m.finalSalary
  BY <1>1, <1>3, <1>5, <1>7, ApprovedEffect
<1>9. r.finalSalary = <<>> /\ ~r.fields.ticketVerified
  BY <1>6 DEF Sound, FiguresTraced
<1>10. ~q.fields.ticketVerified
  BY <1>4, <1>5, <1>8, <1>9, EditedField DEF FieldName
<1>11. /\ q.stage # "completed"
       /\ q.stage = "salary-finalization" => role = "timing"
  BY <1>5, <1>6, <1>8 DEF NextStage
<1>12. role = "timing" => q.fields.verifiedDates # NotVerified
  <2>1. "verifiedDates" \in FieldName
    BY DEF FieldName
  <2>2. q.fields.verifiedDates = IF "verifiedDates" \in DOMAIN edits
                                 THEN edits.verifiedDates ELSE r.fields.verifiedDates
    BY <1>5, <1>8, <2>1, EditedField
  <2>3. QED
    BY <1>4, <2>2, DataAssumption DEF IsEdit
<1>13. FiguresTraced(q)
  BY <1>5, <1>8, <1>9, <1>10, <1>11, <1>12 DEF FiguresTraced
<1>14. QED
  BY <1>5, <1>8, <1>13 DEF Sound, q

LEMMA RejectionSound ==
    ASSUME NEW r, Sound(r), NEW u \in Users, AcceptsRejection(r, u)
    PROVE  Sound(RejectionOutcome(r, u))
<1> DEFINE role == DepartmentRole(u)
           q == RejectionOutcome(r, u)
<1>1. role \in SystemRole
  BY DepartmentRoleType DEF AcceptsRejection
<1>2. r.stage \in {"manager-review", "timing-review"}
  BY DEF AcceptsRejection, CanReject
<1>3. q = Rejected(r, u, role)
  BY DEF RejectionOutcome
<1> HIDE DEF q, role
<1>4. /\ q \in TravelRequest
      /\ q.fields = r.fields /\ q.stage = "cancelled"
      /\ q.salaryPreview = r.salaryPreview /\ q.finalSalary = r.finalSalary
  BY <1>1, <1>3, RejectedEffect DEF Sound
<1>5. r.finalSalary = <<>> /\ ~r.fields.ticketVerified
  BY <1>2 DEF Sound, FiguresTraced
<1>6. FiguresTraced(q)
  BY <1>4, <1>5, EarlyRequestTraced
<1>7. QED
  BY <1>4, <1>6 DEF Sound, q

LEMMA InfoRequestSound ==
    ASSUME NEW r, Sound(r), NEW u \in Users, AcceptsInfoRequest(r, u)
    PROVE  Sound(InfoRequestOutcome(r, u))
<1> DEFINE q == InfoRequestOutcome(r, u)
<1>1. q = AskedForInfo(r, u, "manager") /\ "manager" \in SystemRole
  BY DEF InfoRequestOutcome, SystemRole
<1>2. r.stage = "manager-review"
  BY DEF AcceptsInfoRequest
<1> HIDE DEF q
<1>3. /\ q \in TravelRequest
      /\ q.fields = [r.fields EXCEPT !.pendingEmployeeResponse = TRUE]
      /\ q.stage = r.stage
      /\ q.salaryPreview = r.salaryPreview /\ q.finalSalary = r.finalSalary
  BY <1>1, AskedForInfoEffect DEF Sound
<1>4. r.fields \in Fields
  BY RequestParts DEF Sound
<1>5. q.salaryPreview = Calculate(q.fields)
  BY <1>3, <1>4, CalculateAssumption DEF Sound
<1>6. r.finalSalary = <<>> /\ ~r.fields.ticketVerified
  BY <1>2 DEF Sound, FiguresTraced
<1>7. q.fields.ticketVerified = r.fields.ticketVerified
  BY <1>3, <1>4 DEF Fields
<1>8. FiguresTraced(q)
  BY <1>2, <1>3, <1>6, <1>7, EarlyRequestTraced
<1>9. QED
  BY <1>3, <1>5, <1>8 DEF Sound, q

\* Which fields a review may touch, by the role of the reviewer.
LEMMA ReviewEditsDomain ==
    ASSUME NEW r, NEW role \in SystemRole, NEW edits \in ReviewEdits(r, role)
    PROVE  /\ "ticketVerified" \in DOMAIN edits => role = "salary"
           /\ "verifiedDates" \in DOMAIN edits => role = "timing"
<1>1. CASE role = "manager"
  BY <1>1 DEF ReviewEdits
<1>2. CASE role = "salary"
  BY <1>2 DEF ReviewEdits, SalaryEdits
<1>3. CASE role = "timing"
  BY <1>3 DEF ReviewEdits, ApprovalEdits, Attendance
<1>4. CASE role \notin {"manager", "salary", "timing"}
  BY <1>4 DEF ReviewEdits, ApprovalEdits
<1>5. QED
  BY <1>1, <1>2, <1>3, <1>4

\* An edit of the ticket by payroll is an event that enters the ticket.
LEMMA TicketEditIsTraced ==
    ASSUME NEW r, NEW u, NEW edits, r.stage = "salary-finalization",
           ~r.fields.ticketVerified, r.fields \in Fields,
           "ticketVerified" \in DOMAIN edits, edits.ticketVerified = TRUE
    PROVE  EntersTicket(NewAuditEvent(r, u, "salary", "edit", r.stage, ChangesFor(r, edits)))
<1> DEFINE c == [field |-> "ticketVerified", before |-> r.fields.ticketVerified,
                 after |-> edits.ticketVerified]
           e == NewAuditEvent(r, u, "salary", "edit", r.stage, ChangesFor(r, edits))
<1>1. c \in ChangesFor(r, edits)
  BY DEF ChangesFor
<1>2. c.field = "ticketVerified"
  OBVIOUS
<1>3. /\ e.role = "salary" /\ e.action = "edit" /\ e.from = r.stage
      /\ e.changes = ChangesFor(r, edits)
  BY DEF NewAuditEvent
<1> HIDE DEF c, e
<1>4. Touches(e, "ticketVerified")
  BY <1>1, <1>2, <1>3 DEF Touches
<1>5. QED
  BY <1>3, <1>4 DEF EntersTicket, e

LEMMA ReviewSound ==
    ASSUME NEW r, Sound(r), NEW u \in Users, NEW allowed,
           NEW edits \in ReviewEdits(r, DepartmentRole(u)),
           AcceptsReview(r, u, edits, allowed)
    PROVE  Sound(ReviewOutcome(r, u, edits))
<1> DEFINE role == DepartmentRole(u)
           e == NewAuditEvent(r, u, role, "edit", r.stage, ChangesFor(r, edits))
           q == ReviewOutcome(r, u, edits)
<1>1. role \in SystemRole
  BY DepartmentRoleType DEF AcceptsReview
<1>2. /\ r.stage \notin Terminal
      /\ role = "salary" => r.stage = "salary-finalization"
      /\ role = "timing" => r.stage = "timing-review"
  BY DEF AcceptsReview, CanEdit, ApprovalStage
<1>3. q = WithFinancialEdits(r, u, role, edits)
  BY DEF ReviewOutcome
<1> HIDE DEF q, role, e
<1>4. /\ IsEdit(edits)
      /\ "ticketVerified" \in DOMAIN edits => role = "salary"
      /\ "verifiedDates" \in DOMAIN edits => role = "timing"
  BY <1>1, ReviewEditsType, ReviewEditsDomain DEF role
<1>5. /\ q \in TravelRequest
      /\ q.fields = Edited(r.fields, edits) /\ q.stage = r.stage
      /\ q.salaryPreview = Calculate(q.fields) /\ q.finalSalary = r.finalSalary
      /\ \/ q = r
         \/ q.audit = Append(r.audit, e)
  BY <1>1, <1>3, <1>4, WithFinancialEditsEffect DEF Sound, e
<1>6. r.fields \in Fields /\ r.audit \in Seq(AuditEvent) /\ Len(r.audit) \in Nat
  BY RequestParts, LenProperties DEF Sound
<1>7. q.fields.ticketVerified =
        IF "ticketVerified" \in DOMAIN edits THEN edits.ticketVerified
        ELSE r.fields.ticketVerified
  BY <1>5, EditedField DEF FieldName
<1>8. q.fields.verifiedDates =
        IF "verifiedDates" \in DOMAIN edits THEN edits.verifiedDates
        ELSE r.fields.verifiedDates
  BY <1>5, EditedField DEF FieldName
<1>9. r.stage # "completed" /\ q.stage # "completed" /\ q.finalSalary = <<>>
  BY <1>2, <1>5 DEF Terminal, Sound, FiguresTraced
<1>10. q.fields.ticketVerified => q.stage = "salary-finalization"
  BY <1>2, <1>4, <1>5, <1>7, <1>9 DEF Sound, FiguresTraced
<1>11. q.stage = "salary-finalization" => q.fields.verifiedDates # NotVerified
  BY <1>2, <1>4, <1>5, <1>8 DEF Sound, FiguresTraced
<1>12. ASSUME q.fields.ticketVerified
       PROVE  \E i \in 1..Len(q.audit) : EntersTicket(q.audit[i])
  <2>1. CASE r.fields.ticketVerified
    <3>1. PICK i \in 1..Len(r.audit) : EntersTicket(r.audit[i])
      BY <2>1 DEF Sound, FiguresTraced
    <3>2. CASE q = r
      BY <3>1, <3>2
    <3>3. CASE q.audit = Append(r.audit, e)
      <4>1. i \in 1..Len(q.audit) /\ q.audit[i] = r.audit[i]
        BY <1>6, <3>1, <3>3
      <4>2. QED
        BY <3>1, <4>1
    <3>4. QED
      BY <1>5, <3>2, <3>3
  <2>2. CASE ~r.fields.ticketVerified
    <3>1. "ticketVerified" \in DOMAIN edits /\ role = "salary"
      BY <1>4, <1>7, <1>12, <2>2
    <3>2. edits.ticketVerified = TRUE /\ r.stage = "salary-finalization"
      BY <1>2, <1>4, <3>1 DEF IsEdit
    <3>3. EntersTicket(e)
      BY <1>6, <2>2, <3>1, <3>2, TicketEditIsTraced DEF e
    <3>4. q.audit = Append(r.audit, e)
      BY <1>5, <1>12, <2>2
    <3>5. Len(q.audit) = Len(r.audit) + 1 /\ q.audit[Len(r.audit) + 1] = e
      BY <1>6, <3>4
    <3>6. QED
      BY <1>6, <3>3, <3>5
  <2>3. QED
    BY <2>1, <2>2
<1>13. FiguresTraced(q)
  BY <1>9, <1>10, <1>11, <1>12 DEF FiguresTraced
<1>14. QED
  BY <1>5, <1>13 DEF Sound, q

LEMMA FinalizationSound ==
    ASSUME NEW r, Sound(r), NEW u \in Users, NEW allowed,
           AcceptsFinalization(r, u, allowed)
    PROVE  Sound(FinalizationOutcome(r, u))
<1> DEFINE q == FinalizationOutcome(r, u)
<1>1. DepartmentRole(u) \in SystemRole
  BY DepartmentRoleType DEF AcceptsFinalization
<1>2. r.stage = "salary-finalization" /\ r.fields.ticketVerified
  BY DEF AcceptsFinalization, CanFinalize
<1> HIDE DEF q
<1>3. /\ q \in TravelRequest
      /\ q.fields = r.fields /\ q.stage = "completed"
      /\ q.salaryPreview = Calculate(q.fields)
      /\ q.finalSalary = <<Calculate(q.fields)>>
      /\ Len(q.audit) = Len(r.audit) + 1
      /\ \A i \in 1..Len(r.audit) : q.audit[i] = r.audit[i]
      /\ q.audit[Len(q.audit)].action = "finalize"
  BY <1>1, FinalizationEffect DEF Sound, q
<1>4. PICK i \in 1..Len(r.audit) : EntersTicket(r.audit[i])
  BY <1>2 DEF Sound, FiguresTraced
<1>5. Len(r.audit) \in Nat
  BY RequestParts, LenProperties DEF Sound
<1>6. i \in 1..Len(q.audit) /\ EntersTicket(q.audit[i])
  BY <1>3, <1>4, <1>5
<1>7. q.fields.verifiedDates # NotVerified
  BY <1>2, <1>3 DEF Sound, FiguresTraced
<1>8. FiguresTraced(q)
  BY <1>2, <1>3, <1>6, <1>7 DEF FiguresTraced
<1>9. QED
  BY <1>3, <1>8 DEF Sound, q

\* What FiguresTraced was strengthened for.
LEMMA SoundRequestIsPaidAsVerified ==
    ASSUME NEW r, Sound(r)
    PROVE  PaidAsVerified(r)
<1>1. r.finalSalary # <<>> <=> r.stage = "completed"
  <2>1. <<Calculate(r.fields)>> # <<>>
    OBVIOUS
  <2>2. QED
    BY <2>1 DEF Sound, FiguresTraced
<1>2. ASSUME r.stage = "completed"
      PROVE  \E i \in 1..(Len(r.audit) - 1) : EntersTicket(r.audit[i])
  <2>1. PICK i \in 1..Len(r.audit) : EntersTicket(r.audit[i])
    BY <1>2 DEF Sound, FiguresTraced
  <2>2. i # Len(r.audit)
    BY <1>2, <2>1 DEF Sound, FiguresTraced, EntersTicket
  <2>3. Len(r.audit) \in Nat
    BY RequestParts, LenProperties DEF Sound
  <2>4. QED
    BY <2>1, <2>2, <2>3
<1>3. r.stage = "completed" => /\ r.finalSalary = <<Calculate(r.fields)>>
                               /\ r.fields.ticketVerified
                               /\ r.fields.verifiedDates # NotVerified
  BY DEF Sound, FiguresTraced
<1>4. QED
  BY <1>1, <1>2, <1>3 DEF PaidAsVerified

(***************************************************************************)
(* The history of a request, one event at a time                           *)
(***************************************************************************)

\* Event e took request r to q, and tells every field that it changed.
Records(r, e, q) ==
    /\ e \in AuditEvent /\ e.action # "submit" /\ e.from = r.stage /\ e.to = q.stage
    /\ q.audit = Append(r.audit, e)
    /\ SamePapers(r, q)
    /\ \A c \in e.changes : c.before = r.fields[c.field] /\ c.after = q.fields[c.field]
    /\ \A k \in FieldName : Touches(e, k) \/ q.fields[k] = r.fields[k]

\* Requests r and q differ in nothing but the price, if at all.
SameHistory(r, q) ==
    /\ q.audit = r.audit /\ q.stage = r.stage /\ q.fields = r.fields
    /\ SamePapers(r, q)

\* What an edit or a question does: one event that keeps the stage, or none.
Amends(r, q) ==
    /\ q.stage = r.stage
    /\ \/ SameHistory(r, q)
       \/ \E e : Records(r, e, q) /\ e.action \in {"edit", "request-info"}

\* What a decision does: one event, by user u in the given role.
Decides(r, u, role, action, q) ==
    \E e : Records(r, e, q) /\ e.action = action /\ e.role = role /\ e.actor = u

LEMMA EditIsRecorded ==
    ASSUME NEW r \in TravelRequest, NEW u \in Users, NEW role \in SystemRole,
           NEW edits, IsEdit(edits), NEW q, q.fields = Edited(r.fields, edits),
           q.stage = r.stage, SamePapers(r, q),
           q.audit = Append(r.audit, NewAuditEvent(r, u, role, "edit", r.stage,
                                                  ChangesFor(r, edits)))
    PROVE  Amends(r, q)
<1> DEFINE e == NewAuditEvent(r, u, role, "edit", r.stage, ChangesFor(r, edits))
<1>1. /\ e \in AuditEvent /\ e.from = r.stage /\ e.to = r.stage
      /\ e.action = "edit" /\ e.changes = ChangesFor(r, edits)
  <2>1. ChangesFor(r, edits) \in SUBSET Change /\ "edit" \in Action
    BY RequestParts, ChangesForType DEF Action
  <2>2. QED
    BY <2>1, RequestParts, NewAuditEventType
<1>2. q.audit = Append(r.audit, e)
  OBVIOUS
<1> HIDE DEF e
<1>3. DOMAIN edits \subseteq FieldName
  BY DEF IsEdit
<1>4. \A k \in FieldName :
        q.fields[k] = IF k \in DOMAIN edits THEN edits[k] ELSE r.fields[k]
  BY EditedField
<1>5. ASSUME NEW c \in e.changes
      PROVE  c.before = r.fields[c.field] /\ c.after = q.fields[c.field]
  <2>1. PICK k \in DOMAIN edits : c = [field |-> k, before |-> r.fields[k], after |-> edits[k]]
    BY <1>1, <1>5 DEF ChangesFor
  <2>2. QED
    BY <1>3, <1>4, <2>1
<1>6. ASSUME NEW k \in FieldName, q.fields[k] # r.fields[k]
      PROVE  Touches(e, k)
  <2> DEFINE c == [field |-> k, before |-> r.fields[k], after |-> edits[k]]
  <2>1. k \in DOMAIN edits /\ edits[k] # r.fields[k]
    BY <1>4, <1>6
  <2>2. c \in e.changes
    BY <1>1, <2>1 DEF ChangesFor
  <2>3. c.field = k
    OBVIOUS
  <2>4. QED
    BY <2>2, <2>3 DEF Touches
<1>7. Records(r, e, q)
  BY <1>1, <1>2, <1>5, <1>6 DEF Records
<1>8. QED
  BY <1>1, <1>7 DEF Amends

LEMMA MoveIsRecorded ==
    ASSUME NEW r \in TravelRequest, NEW u \in Users, NEW role \in SystemRole,
           NEW action \in Action \ {"submit"}, NEW q, q.stage \in WorkflowStage,
           q.audit = Append(r.audit, NewAuditEvent(r, u, role, action, q.stage, {})),
           q.fields = r.fields, SamePapers(r, q)
    PROVE  Decides(r, u, role, action, q)
<1> DEFINE e == NewAuditEvent(r, u, role, action, q.stage, {})
<1>1. /\ e \in AuditEvent /\ e.from = r.stage /\ e.to = q.stage
      /\ e.action = action /\ e.role = role /\ e.actor = u /\ e.changes = {}
  <2>1. {} \in SUBSET Change
    OBVIOUS
  <2>2. QED
    BY <2>1, RequestParts, NewAuditEventType
<1>2. q.audit = Append(r.audit, e)
  OBVIOUS
<1> HIDE DEF e
<1>3. Records(r, e, q)
  BY <1>1, <1>2 DEF Records
<1>4. QED
  BY <1>1, <1>3 DEF Decides

LEMMA FinancialEditsAmend ==
    ASSUME NEW r, Sound(r), NEW u \in Users, NEW role \in SystemRole,
           NEW edits, IsEdit(edits)
    PROVE  Amends(r, WithFinancialEdits(r, u, role, edits))
<1> DEFINE q == WithFinancialEdits(r, u, role, edits)
<1>1. r \in TravelRequest /\ r.salaryPreview = Calculate(r.fields)
  BY DEF Sound
<1> HIDE DEF q
<1>2. /\ q.fields = Edited(r.fields, edits) /\ q.stage = r.stage /\ SamePapers(r, q)
      /\ \/ q = r
         \/ q.audit = Append(r.audit, NewAuditEvent(r, u, role, "edit", r.stage,
                                                    ChangesFor(r, edits)))
  BY <1>1, WithFinancialEditsEffect DEF q
<1>3. CASE q = r
  BY <1>3 DEF Amends, SameHistory, SamePapers, q
<1>4. CASE q # r
  BY <1>1, <1>2, <1>4, EditIsRecorded DEF q
<1>5. QED
  BY <1>3, <1>4

LEMMA CorrectionAmends ==
    ASSUME NEW r, Sound(r), NEW u \in Users, NEW edits \in CorrectionEdits(r)
    PROVE  Amends(r, CorrectionOutcome(r, u, edits))
<1> DEFINE m == EditRequest(r, u, "employee", edits)
           q == CorrectionOutcome(r, u, edits)
<1>1. "employee" \in SystemRole /\ IsEdit(edits) /\ r \in TravelRequest
  BY CorrectionEditsType DEF SystemRole, Sound
<1>2. /\ m \in TravelRequest /\ m.fields = Edited(r.fields, edits)
      /\ m.stage = r.stage /\ SamePapers(r, m)
      /\ \/ m = r
         \/ m.audit = Append(r.audit, NewAuditEvent(r, u, "employee", "edit", r.stage,
                                                    ChangesFor(r, edits)))
  BY <1>1, EditRequestEffect
<1>3. SameHistory(m, q)
  BY <1>2 DEF CorrectionOutcome, TravelRequest, SameHistory, SamePapers
<1> HIDE DEF m, q
<1>4. SamePapers(r, q) /\ q.fields = m.fields /\ q.stage = m.stage /\ q.audit = m.audit
  BY <1>2, <1>3 DEF SameHistory, SamePapers
<1>5. CASE m = r
  BY <1>4, <1>5 DEF Amends, SameHistory, q
<1>6. CASE m # r
  BY <1>1, <1>2, <1>4, <1>6, EditIsRecorded DEF q
<1>7. QED
  BY <1>5, <1>6

LEMMA InfoRequestAmends ==
    ASSUME NEW r, Sound(r), NEW u \in Users
    PROVE  Amends(r, InfoRequestOutcome(r, u))
<1> DEFINE q == InfoRequestOutcome(r, u)
           flag == [field |-> "pendingEmployeeResponse",
                    before |-> r.fields.pendingEmployeeResponse, after |-> TRUE]
<1>1. q = AskedForInfo(r, u, "manager") /\ "manager" \in SystemRole /\ r \in TravelRequest
  BY DEF InfoRequestOutcome, SystemRole, Sound
<1> HIDE DEF q
<1>2. /\ q.fields = [r.fields EXCEPT !.pendingEmployeeResponse = TRUE]
      /\ q.stage = r.stage /\ SamePapers(r, q)
      /\ \E e \in AuditEvent :
            /\ q.audit = Append(r.audit, e)
            /\ e.action = "request-info" /\ e.from = r.stage /\ e.to = r.stage
            /\ e.changes = {flag}
  BY <1>1, AskedForInfoEffect
<1>3. PICK e \in AuditEvent :
        /\ q.audit = Append(r.audit, e)
        /\ e.action = "request-info" /\ e.from = r.stage /\ e.to = r.stage
        /\ e.changes = {flag}
  BY <1>2
<1>4. /\ flag.field = "pendingEmployeeResponse"
      /\ flag.before = r.fields.pendingEmployeeResponse /\ flag.after = TRUE
  OBVIOUS
<1> HIDE DEF flag
<1>5. q.fields.pendingEmployeeResponse = TRUE
  BY <1>1, <1>2, RequestParts DEF Fields
<1>6. \A k \in FieldName : k # "pendingEmployeeResponse" => q.fields[k] = r.fields[k]
  BY <1>1, <1>2, RequestParts DEF Fields, FieldName
<1>7. Records(r, e, q)
  BY <1>2, <1>3, <1>4, <1>5, <1>6 DEF Records, Touches
<1>8. QED
  BY <1>2, <1>3, <1>7 DEF Amends, q

\* An approval is an amendment by the department followed by its decision.
LEMMA ApprovalDecides ==
    ASSUME NEW r, Sound(r), NEW u \in Users, NEW allowed,
           NEW edits \in EditsWithApproval(r, DepartmentRole(u)),
           AcceptsApproval(r, u, edits, allowed), NEW q, q = ApprovalOutcome(r, u, edits)
    PROVE  \E m \in TravelRequest :
              /\ Amends(r, m)
              /\ Decides(m, u, DepartmentRole(u), "approve", q)
              /\ DepartmentRole(u) \in ApprovingRole
              /\ r.stage = ApprovalStage(DepartmentRole(u)) /\ q.stage = NextStage[r.stage]
              /\ DepartmentRole(u) = "manager" => q.manager = u
<1> DEFINE role == DepartmentRole(u)
           m == WithFinancialEdits(r, u, role, edits)
<1>1. /\ role \in SystemRole \ {"employee"} /\ r.stage = ApprovalStage(role)
      /\ role = "manager" => r.manager = u
  BY DepartmentRoleType DEF AcceptsApproval, CanApprove, AssignedManager
<1>2. q = Approved(m, u, role)
  BY DEF ApprovalOutcome
<1> HIDE DEF role
<1>3. IsEdit(edits)
  BY <1>1, EditsWithApprovalType DEF role
<1>4. Amends(r, m)
  BY <1>1, <1>3, FinancialEditsAmend
<1>5. m \in TravelRequest /\ m.stage = r.stage /\ SamePapers(r, m)
  BY <1>1, <1>3, WithFinancialEditsEffect DEF Sound
<1>6. role \in ApprovingRole /\ r.stage \in DOMAIN NextStage
  <2>1. r.stage \in WorkflowStage
    BY RequestParts DEF Sound
  <2>2. QED
    BY <1>1, <2>1 DEF ApprovalStage, SystemRole, WorkflowStage, ReviewStages, Terminal,
                      NextStage, ApprovingRole
<1> HIDE DEF m
<1>7. /\ q \in TravelRequest
      /\ q.audit = Append(m.audit, NewAuditEvent(m, u, role, "approve", q.stage, {}))
      /\ q.fields = m.fields /\ q.stage = NextStage[r.stage] /\ SamePapers(m, q)
  BY <1>1, <1>2, <1>5, <1>6, ApprovedEffect
<1>8. Decides(m, u, role, "approve", q)
  <2>1. "approve" \in Action \ {"submit"} /\ q.stage \in WorkflowStage
    BY <1>7, RequestParts DEF Action
  <2>2. QED
    BY <1>1, <1>5, <1>7, <2>1, MoveIsRecorded
<1>9. QED
  BY <1>1, <1>4, <1>5, <1>6, <1>7, <1>8 DEF role, SamePapers

LEMMA RejectionDecides ==
    ASSUME NEW r, Sound(r), NEW u \in Users, AcceptsRejection(r, u),
           NEW q, q = RejectionOutcome(r, u)
    PROVE  /\ Decides(r, u, DepartmentRole(u), "reject", q)
           /\ r.stage \in {"manager-review", "timing-review"} /\ q.stage = "cancelled"
<1>1. DepartmentRole(u) \in SystemRole /\ r.stage \in {"manager-review", "timing-review"}
  BY DepartmentRoleType DEF AcceptsRejection, CanReject
<1>2. /\ q.audit = Append(r.audit, NewAuditEvent(r, u, DepartmentRole(u), "reject", q.stage, {}))
      /\ q.fields = r.fields /\ q.stage = "cancelled" /\ SamePapers(r, q)
  BY <1>1, RejectedEffect DEF RejectionOutcome, Sound
<1>3. "reject" \in Action \ {"submit"} /\ q.stage \in WorkflowStage /\ r \in TravelRequest
  BY <1>2 DEF Action, WorkflowStage, Terminal, Sound
<1>4. QED
  BY <1>1, <1>2, <1>3, MoveIsRecorded

LEMMA FinalizationDecides ==
    ASSUME NEW r, Sound(r), NEW u \in Users, NEW allowed, AcceptsFinalization(r, u, allowed),
           NEW q, q = FinalizationOutcome(r, u)
    PROVE  /\ Decides(r, u, "salary", "finalize", q)
           /\ r.stage = "salary-finalization" /\ q.stage = "completed"
<1>1. DepartmentRole(u) \in SystemRole /\ r \in TravelRequest
  BY DepartmentRoleType DEF AcceptsFinalization, Sound
<1>2. /\ q.audit = Append(r.audit, NewAuditEvent(r, u, DepartmentRole(u), "finalize", q.stage, {}))
      /\ q.fields = r.fields /\ q.stage = "completed" /\ SamePapers(r, q)
  BY <1>1, FinalizationEffect
<1>3. DepartmentRole(u) = "salary" /\ r.stage = "salary-finalization"
  BY DEF AcceptsFinalization, CanFinalize
<1>4. "finalize" \in Action \ {"submit"} /\ q.stage \in WorkflowStage
  BY <1>2 DEF Action, WorkflowStage, Terminal
<1>5. QED
  BY <1>1, <1>2, <1>3, <1>4, MoveIsRecorded
=============================================================================
