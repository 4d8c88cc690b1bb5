------------------------ MODULE RequestStore_proofs ------------------------
(* Theorems of RequestStore, for every company, any number of handlers and   *)
(* both adapters.                                                            *)
EXTENDS RequestStore, WorkflowService_proofs

(***************************************************************************)
(* The ids of history rows                                                 *)
(***************************************************************************)

Ids(ids) == {ids[i] : i \in DOMAIN ids}

RowId == [by : Handlers \union {"submission"}, at : Nat]

\* No two rows share an id, and none was made for a place beyond the last.
Placed(ids) ==
    /\ \A i, j \in DOMAIN ids : ids[i] = ids[j] => i = j
    /\ \A i \in DOMAIN ids : ids[i].at <= Len(ids)

\* Handler h, which has seen the old ids, made none of the others.
Own(h, old, now) == \A id \in Ids(now) : id.by = h => id \in Ids(old)

LEMMA RowIdsAt ==
    ASSUME NEW ids \in Seq(RowId)
    PROVE  /\ Len(ids) \in Nat /\ DOMAIN ids = 1..Len(ids)
           /\ \A i \in 1..Len(ids) : ids[i] \in RowId /\ ids[i].at \in Nat
<1>1. Len(ids) \in Nat /\ DOMAIN ids = 1..Len(ids) /\ \A i \in 1..Len(ids) : ids[i] \in RowId
  BY LenProperties, ElementOfSeq
<1>2. QED
  BY <1>1 DEF RowId

LEMMA RevisionIds ==
    ASSUME NEW ids \in Seq([by : Handlers, at : Nat])
    PROVE  ids \in Seq(RowId)
<1>1. [by : Handlers, at : Nat] \subseteq RowId
  BY DEF RowId
<1>2. ASSUME NEW S, NEW T, S \subseteq T, ids \in Seq(S)
      PROVE  ids \in Seq(T)
  BY <1>2
<1>3. QED
  BY <1>1, <1>2

LEMMA NewIdsAt ==
    ASSUME NEW h, NEW ids, NEW n \in Nat, NEW new, new = WithNewIds(h, ids, n)
    PROVE  /\ DOMAIN new = 1..n /\ Len(new) = n
           /\ \A i \in 1..n : i <= Len(ids) => new[i] = ids[i]
           /\ \A i \in 1..n : ~(i <= Len(ids)) => new[i] = [by |-> h, at |-> i]
BY DEF WithNewIds

LEMMA NewIdsType ==
    ASSUME NEW h \in Handlers, NEW ids \in Seq(RowId), NEW n \in Nat, NEW new,
           new = WithNewIds(h, ids, n)
    PROVE  new \in Seq(RowId)
<1>1. \A i \in 1..n : i <= Len(ids) => new[i] \in RowId
  BY RowIdsAt, NewIdsAt
<1>2. ASSUME NEW i \in 1..n, ~(i <= Len(ids))
      PROVE  new[i] \in RowId
  <2>1. new[i] = [by |-> h, at |-> i]
    BY <1>2, NewIdsAt
  <2>2. QED
    BY <2>1 DEF RowId
<1>3. new = [i \in 1..n |-> IF i <= Len(ids) THEN ids[i] ELSE [by |-> h, at |-> i]]
  BY DEF WithNewIds
<1>4. QED
  BY <1>1, <1>2, <1>3

LEMMA NewRevisionIdsType ==
    ASSUME NEW h \in Handlers, NEW ids \in Seq([by : Handlers, at : Nat]), NEW n \in Nat,
           NEW new, new = WithNewIds(h, ids, n)
    PROVE  new \in Seq([by : Handlers, at : Nat])
<1> DEFINE R == [by : Handlers, at : Nat]
<1>1. ASSUME NEW i \in 1..n, ~(i <= Len(ids))
      PROVE  new[i] \in R
  <2>1. new[i] = [by |-> h, at |-> i]
    BY <1>1, NewIdsAt
  <2>2. QED
    BY <2>1
<1> HIDE DEF R
<1>2. Len(ids) \in Nat /\ \A i \in 1..Len(ids) : ids[i] \in R
  BY LenProperties, ElementOfSeq DEF R
<1>3. \A i \in 1..n : i <= Len(ids) => new[i] \in R
  BY <1>2, NewIdsAt
<1>4. new = [i \in 1..n |-> IF i <= Len(ids) THEN ids[i] ELSE [by |-> h, at |-> i]]
  BY DEF WithNewIds
<1>5. new \in Seq(R)
  BY <1>1, <1>3, <1>4
<1>6. QED
  BY <1>5 DEF R

LEMMA NewIdsPlaced ==
    ASSUME NEW h, NEW ids \in Seq(RowId), NEW n \in Nat, n >= Len(ids), Placed(ids),
           NEW new, new = WithNewIds(h, ids, n)
    PROVE  Placed(new)
<1>1. Len(new) = n /\ DOMAIN new = 1..n /\ Len(ids) \in Nat /\ DOMAIN ids = 1..Len(ids)
  BY NewIdsAt, RowIdsAt
<1>2. \A i \in 1..n : new[i] = IF i <= Len(ids) THEN ids[i] ELSE [by |-> h, at |-> i]
  BY NewIdsAt
<1>3. \A i \in 1..Len(ids) : ids[i].at <= Len(ids)
  BY <1>1 DEF Placed
<1>4. \A i \in 1..n : i > Len(ids) => new[i].at = i
  BY <1>1, <1>2
<1>5. \A i \in 1..Len(ids) : new[i] = ids[i]
  BY <1>1, <1>2
<1>6. \A i \in 1..Len(ids) : ids[i].at \in Nat
  BY RowIdsAt
<1>7. ASSUME NEW i \in 1..n, NEW j \in 1..n, new[i] = new[j]
      PROVE  i = j
  <2>1. CASE i <= Len(ids) /\ j <= Len(ids)
    <3>1. i \in 1..Len(ids) /\ j \in 1..Len(ids)
      BY <1>1, <1>7, <2>1
    <3>2. ids[i] = ids[j]
      BY <1>5, <1>7, <3>1
    <3>3. QED
      BY <1>1, <3>1, <3>2 DEF Placed
  <2>2. CASE i > Len(ids) /\ j > Len(ids)
    BY <1>4, <1>7, <2>2
  <2>3. CASE i <= Len(ids) /\ j > Len(ids)
    <3>1. i \in 1..Len(ids)
      BY <1>1, <1>7, <2>3
    <3>2. new[i].at <= Len(ids) /\ new[j].at = j
      BY <1>3, <1>4, <1>5, <2>3, <3>1
    <3>3. QED
      BY <1>1, <1>7, <2>3, <3>2
  <2>4. CASE i > Len(ids) /\ j <= Len(ids)
    <3>1. j \in 1..Len(ids)
      BY <1>1, <1>7, <2>4
    <3>2. new[j].at <= Len(ids) /\ new[i].at = i
      BY <1>3, <1>4, <1>5, <2>4, <3>1
    <3>3. QED
      BY <1>1, <1>7, <2>4, <3>2
  <2>5. QED
    BY <1>1, <2>1, <2>2, <2>3, <2>4
<1>8. ASSUME NEW i \in 1..n
      PROVE  new[i].at <= n
  <2>1. CASE i <= Len(ids)
    <3>1. i \in 1..Len(ids)
      BY <1>1, <1>8, <2>1
    <3>2. QED
      BY <1>1, <1>3, <1>5, <1>6, <3>1
  <2>2. CASE i > Len(ids)
    BY <1>4, <1>8, <2>2
  <2>3. QED
    BY <1>1, <1>8, <2>1, <2>2
<1>9. QED
  BY <1>1, <1>7, <1>8 DEF Placed

LEMMA NewIdsByOne ==
    ASSUME NEW h, NEW ids \in Seq(RowId), NEW n \in Nat, n >= Len(ids),
           NEW new, new = WithNewIds(h, ids, n)
    PROVE  /\ Ids(ids) \subseteq Ids(new)
           /\ \A id \in Ids(new) : id \in Ids(ids) \/ id.by = h
<1>1. DOMAIN new = 1..n /\ Len(ids) \in Nat /\ DOMAIN ids = 1..Len(ids)
  BY NewIdsAt, RowIdsAt
<1>2. \A i \in 1..n : new[i] = IF i <= Len(ids) THEN ids[i] ELSE [by |-> h, at |-> i]
  BY NewIdsAt
<1>3. \A i \in 1..Len(ids) : i \in 1..n /\ new[i] = ids[i]
  BY <1>1, <1>2
<1>4. \A i \in 1..n : i \in 1..Len(ids) \/ new[i].by = h
  BY <1>1, <1>2
<1>5. QED
  BY <1>1, <1>3, <1>4 DEF Ids

\* Why the check of the histories refuses every handler whose histories are not
\* the stored ones: what another handler has appended is not its own.
LEMMA OnlyOwnIdsFit ==
    ASSUME NEW h, NEW old \in Seq(RowId), NEW now \in Seq(RowId), NEW n \in Nat,
           n >= Len(old), Placed(old), Own(h, old, now), Len(old) <= Len(now),
           NEW new, new = WithNewIds(h, old, n), IsAppendOnly(now, new)
    PROVE  now = old
<1>1. /\ Len(new) = n /\ DOMAIN new = 1..n
      /\ Len(old) \in Nat /\ DOMAIN old = 1..Len(old)
  BY NewIdsAt, RowIdsAt
<1>2. \A i \in 1..n : new[i] = IF i <= Len(old) THEN old[i] ELSE [by |-> h, at |-> i]
  BY NewIdsAt
<1>3. Len(now) \in Nat /\ DOMAIN now = 1..Len(now)
  BY RowIdsAt
<1>4. Len(now) <= n /\ \A i \in 1..Len(now) : now[i] = new[i]
  BY <1>1 DEF IsAppendOnly
<1>5. ~(Len(now) > Len(old))
  <2> SUFFICES ASSUME Len(now) > Len(old) PROVE FALSE
    OBVIOUS
  <2> DEFINE k == Len(old) + 1
  <2>1. k \in 1..Len(now) /\ k \in 1..n /\ ~(k <= Len(old))
    BY <1>1, <1>3, <1>4
  <2>2. now[k] = new[k] /\ new[k] = [by |-> h, at |-> k]
    BY <1>2, <1>4, <2>1
  <2>3. now[k] \in Ids(now) /\ now[k].by = h
    BY <1>3, <2>1, <2>2 DEF Ids
  <2>4. now[k] \in Ids(old)
    BY <2>3 DEF Own
  <2>5. PICK i \in 1..Len(old) : old[i] = now[k]
    BY <1>1, <2>4 DEF Ids
  <2>6. now[k].at <= Len(old) /\ now[k].at = k
    BY <1>1, <2>2, <2>5 DEF Placed
  <2>7. QED
    BY <1>1, <2>6
<1>6. Len(now) = Len(old)
  <2>1. Len(old) \in Nat /\ Len(now) \in Nat /\ Len(old) <= Len(now)
    BY <1>1, <1>3
  <2>2. QED
    BY <2>1, <1>5
<1>7. \A i \in 1..Len(old) : now[i] = old[i]
  BY <1>1, <1>2, <1>3, <1>4, <1>6
<1>8. QED
  BY <1>1, <1>3, <1>6, <1>7, SeqEqual

(***************************************************************************)
(* What a handler makes of the record it holds                             *)
(***************************************************************************)

\* Record q continues r: it holds r's histories, and is r unless it has an
\* event more; exactly one event completes a request.
Continues(r, q) ==
    /\ Sound(q)
    /\ IsAppendOnly(r.audit, q.audit)
    /\ Len(r.priceRevisions) <= Len(q.priceRevisions)
    /\ Len(q.audit) = Len(r.audit) => q = r
    /\ q.stage = "completed" => Len(q.audit) = Len(r.audit) + 1

LEMMA SameTrail ==
    ASSUME NEW r, r.audit \in Seq(AuditEvent), NEW q, q.audit = r.audit
    PROVE  IsAppendOnly(r.audit, q.audit)
BY LenProperties DEF IsAppendOnly

LEMMA EventAppended ==
    ASSUME NEW r, r.audit \in Seq(AuditEvent), NEW e \in AuditEvent,
           NEW q, q.audit = Append(r.audit, e)
    PROVE  /\ Len(r.audit) \in Nat /\ Len(q.audit) = Len(r.audit) + 1
           /\ IsAppendOnly(r.audit, q.audit)
<1>1. Len(r.audit) \in Nat /\ Len(q.audit) = Len(r.audit) + 1
  BY AppendProperties, LenProperties
<1>2. \A i \in 1..Len(r.audit) : q.audit[i] = r.audit[i]
  BY AppendProperties
<1>3. QED
  BY <1>1, <1>2 DEF IsAppendOnly

LEMMA PricesGrow ==
    ASSUME NEW r, r.priceRevisions \in Seq(PriceRevision), NEW q,
           \/ q.priceRevisions = r.priceRevisions
           \/ \E rev \in PriceRevision : q.priceRevisions = Append(r.priceRevisions, rev)
    PROVE  Len(r.priceRevisions) <= Len(q.priceRevisions)
<1>1. Len(r.priceRevisions) \in Nat
  BY LenProperties
<1>2. ASSUME NEW rev \in PriceRevision, q.priceRevisions = Append(r.priceRevisions, rev)
      PROVE  Len(q.priceRevisions) = Len(r.priceRevisions) + 1
  BY <1>2, AppendProperties
<1>3. QED
  BY <1>1, <1>2

\* Edits leave the record as it is or append one event.
LEMMA EditsGrow ==
    ASSUME NEW r, Sound(r), NEW u \in Users, NEW role \in SystemRole, NEW edits,
           IsEdit(edits), NEW q, q = WithFinancialEdits(r, u, role, edits)
    PROVE  /\ q \in TravelRequest /\ q.stage = r.stage
           /\ Len(r.priceRevisions) <= Len(q.priceRevisions)
           /\ q = r \/ \E e \in AuditEvent : q.audit = Append(r.audit, e)
<1>1. r \in TravelRequest /\ r.salaryPreview = Calculate(r.fields) /\ r.stage \in WorkflowStage
      /\ r.fields \in Fields /\ r.priceRevisions \in Seq(PriceRevision)
      /\ r.salaryPreview \in Calculation
  BY RequestParts DEF Sound
<1>2. /\ q \in TravelRequest /\ q.stage = r.stage
      /\ \/ q = r
         \/ q.audit = Append(r.audit, NewAuditEvent(r, u, role, "edit", r.stage,
                                                   ChangesFor(r, edits)))
      /\ q.priceRevisions =
            IF q.salaryPreview.totalAmount # r.salaryPreview.totalAmount
            THEN Append(r.priceRevisions, NewRevision(r, u, role, r.salaryPreview, q.salaryPreview))
            ELSE r.priceRevisions
  BY <1>1, WithFinancialEditsEffect
<1>3. NewAuditEvent(r, u, role, "edit", r.stage, ChangesFor(r, edits)) \in AuditEvent
  <2>1. ChangesFor(r, edits) \in SUBSET Change /\ "edit" \in Action
    BY <1>1, ChangesForType DEF Action
  <2>2. QED
    BY <1>1, <2>1, NewAuditEventType
<1>4. NewRevision(r, u, role, r.salaryPreview, q.salaryPreview) \in PriceRevision
  <2>1. q.salaryPreview \in Calculation
    BY <1>2, RequestParts
  <2>2. QED
    BY <1>1, <2>1, NewRevisionType
<1>5. Len(r.priceRevisions) <= Len(q.priceRevisions)
  BY <1>1, <1>2, <1>4, PricesGrow
<1>6. QED
  BY <1>2, <1>3, <1>5

\* A record that has an event more than r and is not completed continues r.
LEMMA OneEventContinues ==
    ASSUME NEW r \in TravelRequest, NEW q, Sound(q),
           NEW e \in AuditEvent, q.audit = Append(r.audit, e),
           Len(r.priceRevisions) <= Len(q.priceRevisions)
    PROVE  Continues(r, q)
<1>1. r.audit \in Seq(AuditEvent)
  BY RequestParts
<1>2. Len(r.audit) \in Nat /\ Len(q.audit) = Len(r.audit) + 1 /\ IsAppendOnly(r.audit, q.audit)
  BY <1>1, EventAppended
<1>3. QED
  BY <1>2 DEF Continues

LEMMA NoEventContinues ==
    ASSUME NEW r, Sound(r), r.stage # "completed"
    PROVE  Continues(r, r)
<1>1. r.audit \in Seq(AuditEvent) /\ r.priceRevisions \in Seq(PriceRevision)
  BY RequestParts DEF Sound
<1>2. IsAppendOnly(r.audit, r.audit) /\ Len(r.priceRevisions) \in Nat
  BY <1>1, SameTrail, LenProperties
<1>3. QED
  BY <1>2 DEF Continues

LEMMA ReviewContinues ==
    ASSUME NEW r, Sound(r), NEW u \in Users, NEW allowed,
           NEW edits \in ReviewEdits(r, DepartmentRole(u)),
           AcceptsReview(r, u, edits, allowed), NEW q, q = ReviewOutcome(r, u, edits)
    PROVE  Continues(r, q)
<1>1. DepartmentRole(u) \in SystemRole /\ r.stage # "completed" /\ r \in TravelRequest
  BY DepartmentRoleType DEF AcceptsReview, CanEdit, Terminal, Sound
<1>2. IsEdit(edits) /\ q = WithFinancialEdits(r, u, DepartmentRole(u), edits)
  BY <1>1, ReviewEditsType DEF ReviewOutcome
<1>3. Sound(q)
  BY ReviewSound
<1>4. /\ Len(r.priceRevisions) <= Len(q.priceRevisions)
      /\ q = r \/ \E e \in AuditEvent : q.audit = Append(r.audit, e)
  BY <1>1, <1>2, EditsGrow
<1>5. QED
  BY <1>1, <1>3, <1>4, OneEventContinues, NoEventContinues

LEMMA CorrectionContinues ==
    ASSUME NEW r, Sound(r), NEW u \in Users, NEW edits \in CorrectionEdits(r),
           r.stage = "manager-review", NEW q, q = CorrectionOutcome(r, u, edits)
    PROVE  Continues(r, q)
<1> DEFINE m == EditRequest(r, u, "employee", edits)
<1>1. IsEdit(edits) /\ "employee" \in SystemRole /\ r \in TravelRequest
      /\ r.salaryPreview = Calculate(r.fields)
  BY CorrectionEditsType DEF SystemRole, Sound
<1>2. q = [m EXCEPT !.salaryPreview = Calculate(m.fields)]
  BY DEF CorrectionOutcome
<1>3. /\ m \in TravelRequest /\ m.priceRevisions = r.priceRevisions
      /\ \/ m = r
         \/ m.audit = Append(r.audit, NewAuditEvent(r, u, "employee", "edit", r.stage,
                                                   ChangesFor(r, edits)))
  BY <1>1, EditRequestEffect
<1>4. NewAuditEvent(r, u, "employee", "edit", r.stage, ChangesFor(r, edits)) \in AuditEvent
  <2>1. ChangesFor(r, edits) \in SUBSET Change /\ "edit" \in Action /\ r.stage \in WorkflowStage
    BY <1>1, RequestParts, ChangesForType DEF Action
  <2>2. QED
    BY <1>1, <2>1, NewAuditEventType
<1> HIDE DEF m
<1>5. q.audit = m.audit /\ q.priceRevisions = m.priceRevisions
  BY <1>2, <1>3 DEF TravelRequest
<1>6. Sound(q)
  BY CorrectionSound
<1>7. Len(r.priceRevisions) <= Len(q.priceRevisions)
  BY <1>1, <1>3, <1>5, RequestParts, PricesGrow
<1>8. CASE m = r
  <2>1. q = r
    BY <1>1, <1>2, <1>8 DEF TravelRequest
  <2>2. QED
    BY <2>1, NoEventContinues
<1>9. CASE m # r
  BY <1>1, <1>3, <1>4, <1>5, <1>6, <1>7, <1>9, OneEventContinues
<1>10. QED
  BY <1>8, <1>9

LEMMA RejectionContinues ==
    ASSUME NEW r, Sound(r), NEW u \in Users, AcceptsRejection(r, u),
           NEW q, q = RejectionOutcome(r, u)
    PROVE  Continues(r, q)
<1>1. DepartmentRole(u) \in SystemRole /\ r \in TravelRequest /\ r.stage \in WorkflowStage
  BY DepartmentRoleType, RequestParts DEF AcceptsRejection, Sound
<1>2. /\ q.audit = Append(r.audit, NewAuditEvent(r, u, DepartmentRole(u), "reject", "cancelled", {}))
      /\ q.priceRevisions = r.priceRevisions
  BY <1>1, RejectedEffect DEF RejectionOutcome
<1>3. NewAuditEvent(r, u, DepartmentRole(u), "reject", "cancelled", {}) \in AuditEvent
  <2>1. {} \in SUBSET Change /\ "reject" \in Action /\ "cancelled" \in WorkflowStage
    BY DEF Action, WorkflowStage, Terminal
  <2>2. QED
    BY <1>1, <2>1, NewAuditEventType
<1>4. Sound(q)
  BY RejectionSound
<1>5. Len(r.priceRevisions) <= Len(q.priceRevisions)
  BY <1>1, <1>2, RequestParts, PricesGrow
<1>6. QED
  BY <1>1, <1>2, <1>3, <1>4, <1>5, OneEventContinues

LEMMA InfoRequestContinues ==
    ASSUME NEW r, Sound(r), NEW u \in Users, AcceptsInfoRequest(r, u),
           NEW q, q = InfoRequestOutcome(r, u)
    PROVE  Continues(r, q)
<1>1. "manager" \in SystemRole /\ r \in TravelRequest
  BY DEF SystemRole, Sound
<1>2. q = AskedForInfo(r, u, "manager")
  BY DEF InfoRequestOutcome
<1> DEFINE flag == [field |-> "pendingEmployeeResponse",
                    before |-> r.fields.pendingEmployeeResponse, after |-> TRUE]
<1>3. \E e \in AuditEvent : q.audit = Append(r.audit, e)
  <2>1. /\ q.fields = [r.fields EXCEPT !.pendingEmployeeResponse = TRUE]
        /\ q.stage = r.stage /\ SamePapers(r, q)
        /\ \E e \in AuditEvent :
              /\ q.audit = Append(r.audit, e)
              /\ e.action = "request-info" /\ e.from = r.stage /\ e.to = r.stage
              /\ e.changes = {flag}
    BY <1>1, <1>2, AskedForInfoEffect
  <2> HIDE DEF flag
  <2>2. QED
    BY <2>1
<1>4. Sound(q)
  BY InfoRequestSound
<1>5. q.priceRevisions = r.priceRevisions
  BY <1>1, <1>2, AskedForInfoKeepsPrice
<1>6. Len(r.priceRevisions) <= Len(q.priceRevisions)
  BY <1>1, <1>5, RequestParts, PricesGrow
<1>7. QED
  BY <1>1, <1>3, <1>4, <1>6, OneEventContinues

LEMMA FinalizationContinues ==
    ASSUME NEW r, Sound(r), NEW u \in Users, NEW allowed, AcceptsFinalization(r, u, allowed),
           NEW q, q = FinalizationOutcome(r, u)
    PROVE  Continues(r, q)
<1>1. DepartmentRole(u) \in SystemRole /\ r \in TravelRequest /\ r.stage \in WorkflowStage
  BY DepartmentRoleType, RequestParts DEF AcceptsFinalization, Sound
<1>2. q.audit = Append(r.audit, NewAuditEvent(r, u, DepartmentRole(u), "finalize", "completed", {}))
  BY <1>1, FinalizationEffect
<1>3. \E rev \in PriceRevision : q.priceRevisions = Append(r.priceRevisions, rev)
  <2>1. \E rev \in PriceRevision :
          /\ q.priceRevisions = Append(r.priceRevisions, rev)
          /\ rev.stage = "completed"
          /\ rev.previousCalculation = q.salaryPreview
          /\ rev.newCalculation = q.salaryPreview
    BY <1>1, FinalizationEffect
  <2>2. QED
    BY <2>1
<1>4. NewAuditEvent(r, u, DepartmentRole(u), "finalize", "completed", {}) \in AuditEvent
  <2>1. {} \in SUBSET Change /\ "finalize" \in Action /\ "completed" \in WorkflowStage
    BY DEF Action, WorkflowStage, Terminal
  <2>2. QED
    BY <1>1, <2>1, NewAuditEventType
<1>5. Sound(q)
  BY FinalizationSound
<1>6. Len(r.priceRevisions) <= Len(q.priceRevisions)
  BY <1>1, <1>3, RequestParts, PricesGrow
<1>7. QED
  BY <1>1, <1>2, <1>4, <1>5, <1>6, OneEventContinues

LEMMA ApprovalContinues ==
    ASSUME NEW r, Sound(r), NEW u \in Users, NEW allowed,
           NEW edits \in EditsWithApproval(r, DepartmentRole(u)),
           AcceptsApproval(r, u, edits, allowed), NEW q, q = ApprovalOutcome(r, u, edits)
    PROVE  Continues(r, q)
<1> DEFINE role == DepartmentRole(u)
           m == WithFinancialEdits(r, u, role, edits)
<1>1. /\ role \in SystemRole \ {"employee"} /\ r.stage = ApprovalStage(role)
      /\ r \in TravelRequest /\ r.stage \in WorkflowStage
  BY DepartmentRoleType, RequestParts DEF AcceptsApproval, CanApprove, Sound
<1>2. r.stage \in DOMAIN NextStage
  BY <1>1 DEF ApprovalStage, SystemRole, WorkflowStage, ReviewStages, Terminal, NextStage
<1>3. q = Approved(m, u, role)
  BY DEF ApprovalOutcome
<1>4. IsEdit(edits)
  BY <1>1, EditsWithApprovalType
<1>5. Sound(q)
  BY ApprovalSound
<1> HIDE DEF role
<1>6. /\ m \in TravelRequest /\ m.stage = r.stage
      /\ Len(r.priceRevisions) <= Len(m.priceRevisions)
      /\ m = r \/ \E e \in AuditEvent : m.audit = Append(r.audit, e)
  BY <1>1, <1>4, EditsGrow
<1> HIDE DEF m
<1>7. /\ q.audit = Append(m.audit, NewAuditEvent(m, u, role, "approve", q.stage, {}))
      /\ q.stage = NextStage[m.stage] /\ q.priceRevisions = m.priceRevisions
  BY <1>1, <1>2, <1>3, <1>6, ApprovedEffect
<1>8. q.stage # "completed" /\ q.stage \in WorkflowStage
  BY <1>2, <1>6, <1>7 DEF NextStage, WorkflowStage, ReviewStages
<1>9. NewAuditEvent(m, u, role, "approve", q.stage, {}) \in AuditEvent
  <2>1. {} \in SUBSET Change /\ "approve" \in Action /\ m.stage \in WorkflowStage
    BY <1>1, <1>6 DEF Action
  <2>2. QED
    BY <1>1, <1>8, <2>1, NewAuditEventType
<1>10. m.audit \in Seq(AuditEvent) /\ r.audit \in Seq(AuditEvent)
  BY <1>1, <1>6, RequestParts
<1>11. /\ Len(m.audit) \in Nat /\ Len(q.audit) = Len(m.audit) + 1
       /\ IsAppendOnly(m.audit, q.audit)
  BY <1>7, <1>9, <1>10, EventAppended
<1>12. /\ Len(r.audit) \in Nat /\ Len(r.audit) <= Len(m.audit)
       /\ \A i \in 1..Len(r.audit) : m.audit[i] = r.audit[i]
  <2>1. CASE m = r
    BY <1>11, <2>1
  <2>2. CASE m # r
    <3>1. PICK e \in AuditEvent : m.audit = Append(r.audit, e)
      BY <1>6, <2>2
    <3>2. /\ Len(r.audit) \in Nat /\ Len(m.audit) = Len(r.audit) + 1
          /\ IsAppendOnly(r.audit, m.audit)
      BY <1>10, <3>1, EventAppended
    <3>3. QED
      BY <3>2 DEF IsAppendOnly
  <2>3. QED
    BY <2>1, <2>2
<1>13. \A i \in 1..Len(r.audit) : q.audit[i] = r.audit[i]
  BY <1>11, <1>12 DEF IsAppendOnly
<1>14. Len(q.audit) >= Len(r.audit) /\ Len(q.audit) # Len(r.audit)
  BY <1>11, <1>12
<1>15. IsAppendOnly(r.audit, q.audit)
  BY <1>13, <1>14 DEF IsAppendOnly
<1>16. Len(r.priceRevisions) <= Len(q.priceRevisions)
  BY <1>6, <1>7
<1>17. QED
  BY <1>5, <1>8, <1>14, <1>15, <1>16 DEF Continues

\* The records a handler may want stored, one operation at a time.
LEMMA DecisionCases ==
    ASSUME NEW r, NEW u, NEW q \in Decisions(r, u)
    PROVE  /\ HasDepartment(u)
           /\ \/ \E e \in EditsWithApproval(r, DepartmentRole(u)) :
                    AcceptsApproval(r, u, e, active) /\ q = ApprovalOutcome(r, u, e)
              \/ \E e \in ReviewEdits(r, DepartmentRole(u)) :
                    /\ WithinBound(r, e) /\ AcceptsReview(r, u, e, active)
                    /\ q = ReviewOutcome(r, u, e)
              \/ AcceptsRejection(r, u) /\ q = RejectionOutcome(r, u)
              \/ /\ WithinBound(r, NoEdits) /\ AcceptsInfoRequest(r, u)
                 /\ q = InfoRequestOutcome(r, u)
              \/ AcceptsFinalization(r, u, active) /\ q = FinalizationOutcome(r, u)
BY DEF Decisions

LEMMA CorrectionCases ==
    ASSUME NEW r, NEW u, NEW q \in Corrections(r, u)
    PROVE  \E e \in CorrectionEdits(r) :
              /\ WithinBound(r, e) /\ AcceptsCorrection(r, u, e, windowOpen, active)
              /\ q = CorrectionOutcome(r, u, e)
BY DEF Corrections

\* A terminal request is refused before anything is computed.
LEMMA DecidedInReview ==
    ASSUME NEW r, r.stage \in WorkflowStage, NEW u \in Users, NEW q \in Decisions(r, u)
    PROVE  r.stage \notin Terminal
<1>1. HasDepartment(u) /\ DepartmentRole(u) \in SystemRole \ {"employee"}
  BY DecisionCases, DepartmentRoleType
<1>2. \A e : AcceptsApproval(r, u, e, active) => r.stage \notin Terminal
  BY <1>1 DEF AcceptsApproval, CanApprove, ApprovalStage, SystemRole, WorkflowStage,
              ReviewStages, Terminal
<1>3. \A e : AcceptsReview(r, u, e, active) => r.stage \notin Terminal
  BY DEF AcceptsReview, CanEdit
<1>4. AcceptsRejection(r, u) => r.stage \notin Terminal
  BY DEF AcceptsRejection, CanReject, Terminal
<1>5. AcceptsInfoRequest(r, u) => r.stage \notin Terminal
  BY DEF AcceptsInfoRequest, Terminal
<1>6. AcceptsFinalization(r, u, active) => r.stage \notin Terminal
  BY DEF AcceptsFinalization, CanFinalize, Terminal
<1>7. QED
  BY <1>2, <1>3, <1>4, <1>5, <1>6, DecisionCases

LEMMA CorrectedInReview ==
    ASSUME NEW r, NEW u, NEW q \in Corrections(r, u)
    PROVE  r.stage = "manager-review"
BY CorrectionCases DEF AcceptsCorrection, CanCorrect

LEMMA DecisionContinues ==
    ASSUME NEW r, Sound(r), NEW u \in Users, NEW q \in Decisions(r, u)
    PROVE  Continues(r, q)
<1>1. ASSUME NEW e \in EditsWithApproval(r, DepartmentRole(u)),
             AcceptsApproval(r, u, e, active), q = ApprovalOutcome(r, u, e)
      PROVE  Continues(r, q)
  BY <1>1, ApprovalContinues
<1>2. ASSUME NEW e \in ReviewEdits(r, DepartmentRole(u)),
             AcceptsReview(r, u, e, active), q = ReviewOutcome(r, u, e)
      PROVE  Continues(r, q)
  BY <1>2, ReviewContinues
<1>3. AcceptsRejection(r, u) /\ q = RejectionOutcome(r, u) => Continues(r, q)
  BY RejectionContinues
<1>4. AcceptsInfoRequest(r, u) /\ q = InfoRequestOutcome(r, u) => Continues(r, q)
  BY InfoRequestContinues
<1>5. AcceptsFinalization(r, u, active) /\ q = FinalizationOutcome(r, u) => Continues(r, q)
  BY FinalizationContinues
<1>6. QED
  BY <1>1, <1>2, <1>3, <1>4, <1>5, DecisionCases

LEMMA CorrectedContinues ==
    ASSUME NEW r, Sound(r), NEW u \in Users, NEW q \in Corrections(r, u)
    PROVE  Continues(r, q)
<1>1. r.stage = "manager-review"
  BY CorrectedInReview
<1>2. PICK e \in CorrectionEdits(r) : q = CorrectionOutcome(r, u, e)
  BY CorrectionCases
<1>3. QED
  BY <1>1, <1>2, CorrectionContinues

(***************************************************************************)
(* What a handler has seen, and what it wants stored                       *)
(***************************************************************************)

Proper(s) ==
    /\ s \in SnapshotType
    /\ Len(s.auditIds) = Len(s.record.audit)
    /\ Len(s.revisionIds) = Len(s.record.priceRevisions)
    /\ Placed(s.auditIds) /\ Placed(s.revisionIds)

TicketEntered(r) == \E i \in 1..Len(r.audit) : EntersTicket(r.audit[i])

\* The part of Sound that the row of the request shows without its histories.
RowTraced(r) ==
    /\ r.salaryPreview = Calculate(r.fields)
    /\ r.stage # "completed" => r.finalSalary = <<>>
    /\ r.fields.ticketVerified => r.stage \in {"salary-finalization", "completed"}
    /\ r.stage \in {"salary-finalization", "completed"} => r.fields.verifiedDates # NotVerified

\* The audit events handler h has seen, and those that are stored now: h has made
\* no other, and none is missing if their ids are the stored ones.
TrailSeen(h, seen, now) ==
    /\ Own(h, seen.auditIds, now.auditIds)
    /\ Len(seen.auditIds) <= Len(now.auditIds)
    /\ seen.auditIds = now.auditIds => seen.record.audit = now.record.audit
    /\ seen.record.fields.ticketVerified => TicketEntered(seen.record)

\* A row read before its events: the events it tells of were stored by then.
Seen(h, seen, missing, now) ==
    /\ Proper(seen)
    /\ RowTraced(seen.record)
    /\ seen.record.fields.ticketVerified => TicketEntered(now.record)
    /\ "audit_events" \notin missing => TrailSeen(h, seen, now)

Wanted(h, seen, wanted) ==
    /\ wanted = WithIds(h, seen, wanted.record)
    /\ Continues(seen.record, wanted.record)

LEMMA SnapshotParts ==
    ASSUME NEW s \in SnapshotType
    PROVE  /\ s.record \in TravelRequest /\ s.auditIds \in Seq(RowId)
           /\ s.revisionIds \in Seq([by : Handlers, at : Nat])
           /\ s = Snapshot(s.record, s.auditIds, s.revisionIds)
BY DEF SnapshotType, RowId, Snapshot

LEMMA SnapshotTyped ==
    ASSUME NEW r \in TravelRequest, NEW a \in Seq(RowId),
           NEW b \in Seq([by : Handlers, at : Nat]), NEW s, s = Snapshot(r, a, b)
    PROVE  s \in SnapshotType /\ s.record = r /\ s.auditIds = a /\ s.revisionIds = b
BY DEF SnapshotType, RowId, Snapshot

LEMMA ProperWellIdentified ==
    ASSUME NEW s, Proper(s)
    PROVE  WellIdentified(s)
BY DEF Proper, Placed, WellIdentified

\* What a handler wants stored is a request with its rows told apart.
LEMMA WantedProper ==
    ASSUME NEW h \in Handlers, NEW seen, Proper(seen), NEW wanted, Wanted(h, seen, wanted)
    PROVE  Proper(wanted)
<1> DEFINE a == WithNewIds(h, seen.auditIds, Len(wanted.record.audit))
           b == WithNewIds(h, seen.revisionIds, Len(wanted.record.priceRevisions))
<1>1. /\ seen.record \in TravelRequest /\ seen.auditIds \in Seq(RowId)
      /\ seen.revisionIds \in Seq([by : Handlers, at : Nat])
      /\ Len(seen.auditIds) = Len(seen.record.audit)
      /\ Len(seen.revisionIds) = Len(seen.record.priceRevisions)
      /\ Placed(seen.auditIds) /\ Placed(seen.revisionIds)
  BY SnapshotParts DEF Proper
<1>2. wanted.record \in TravelRequest /\ wanted = Snapshot(wanted.record, a, b)
  BY DEF Wanted, WithIds, Continues, Sound
<1>3. Len(wanted.record.audit) \in Nat /\ Len(wanted.record.priceRevisions) \in Nat
  BY <1>2, RequestParts, LenProperties
<1>4. /\ Len(wanted.record.audit) >= Len(seen.auditIds)
      /\ Len(wanted.record.priceRevisions) >= Len(seen.revisionIds)
  <2>1. Len(seen.revisionIds) \in Nat
    BY <1>1, LenProperties
  <2>2. QED
    BY <1>1, <1>3, <2>1 DEF Wanted, Continues, IsAppendOnly
<1>5. a \in Seq(RowId) /\ b \in Seq([by : Handlers, at : Nat])
  BY <1>1, <1>3, NewIdsType, NewRevisionIdsType
<1>6. Len(a) = Len(wanted.record.audit) /\ Len(b) = Len(wanted.record.priceRevisions)
  BY <1>3, NewIdsAt
<1>7. Placed(a) /\ Placed(b)
  <2>1. seen.revisionIds \in Seq(RowId)
    BY <1>1, RevisionIds
  <2>2. QED
    BY <1>1, <1>3, <1>4, <2>1, NewIdsPlaced
<1> HIDE DEF a, b
<1>8. wanted \in SnapshotType /\ wanted.auditIds = a /\ wanted.revisionIds = b
  BY <1>2, <1>5 DEF Snapshot, SnapshotType, RowId
<1>9. QED
  BY <1>6, <1>7, <1>8 DEF Proper

\* A request that is still in review is sound as it was seen, once its trail has
\* been read.
LEMMA SeenSound ==
    ASSUME NEW h, NEW seen, NEW missing, NEW now, Seen(h, seen, missing, now),
           "audit_events" \notin missing, seen.record.stage \notin Terminal
    PROVE  Sound(seen.record)
<1>1. seen.record \in TravelRequest
  BY SnapshotParts DEF Seen, Proper
<1>2. seen.record.stage # "completed" /\ TrailSeen(h, seen, now) /\ RowTraced(seen.record)
  BY DEF Seen, Terminal
<1>3. seen.record.fields.ticketVerified =>
        \E i \in 1..Len(seen.record.audit) : EntersTicket(seen.record.audit[i])
  BY <1>2 DEF TrailSeen, TicketEntered
<1>4. FiguresTraced(seen.record)
  BY <1>2, <1>3 DEF RowTraced, FiguresTraced
<1>5. QED
  BY <1>1, <1>2, <1>4 DEF RowTraced, Sound

(***************************************************************************)
(* What a replacement does to the stored request                           *)
(***************************************************************************)

\* Handler h has replaced now by next: its rows are among the new ones, all others
\* are h's, and an audit trail that has not grown is the same.
Replaced(h, now, next) ==
    /\ Ids(now.auditIds) \subseteq Ids(next.auditIds)
    /\ \A id \in Ids(next.auditIds) : id \in Ids(now.auditIds) \/ id.by = h
    /\ Len(now.auditIds) <= Len(next.auditIds)
    /\ Len(now.auditIds) = Len(next.auditIds) =>
          next.auditIds = now.auditIds /\ next.record.audit = now.record.audit
    /\ TicketEntered(now.record) => TicketEntered(next.record)

\* What another handler has seen is as true of the new request as of the old.
LEMMA SeenStays ==
    ASSUME NEW h, NEW other, other # h, NEW seen, NEW missing,
           NEW now, now.auditIds \in Seq(RowId), NEW next, next.auditIds \in Seq(RowId),
           Seen(other, seen, missing, now), Replaced(h, now, next)
    PROVE  Seen(other, seen, missing, next)
<1>1. Len(now.auditIds) \in Nat /\ Len(next.auditIds) \in Nat
  BY RowIdsAt
<1>2. ASSUME TrailSeen(other, seen, now), Proper(seen)
      PROVE  TrailSeen(other, seen, next)
  <2>1. Len(seen.auditIds) \in Nat
    BY <1>2, SnapshotParts, RowIdsAt DEF Proper
  <2>2. Own(other, seen.auditIds, next.auditIds)
    BY <1>2 DEF TrailSeen, Own, Replaced
  <2>3. Len(seen.auditIds) <= Len(next.auditIds)
    BY <1>1, <1>2, <2>1 DEF TrailSeen, Replaced
  <2>4. ASSUME seen.auditIds = next.auditIds
        PROVE  seen.record.audit = next.record.audit
    <3>1. Len(now.auditIds) = Len(next.auditIds)
      BY <1>1, <1>2, <2>1, <2>4 DEF TrailSeen, Replaced
    <3>2. QED
      BY <1>2, <2>4, <3>1 DEF TrailSeen, Replaced
  <2>5. QED
    BY <1>2, <2>2, <2>3, <2>4 DEF TrailSeen
<1>3. seen.record.fields.ticketVerified => TicketEntered(next.record)
  BY DEF Seen, Replaced
<1>4. QED
  BY <1>2, <1>3 DEF Seen

\* A replacement is accepted only on the histories the handler has seen.
LEMMA AcceptedOnSeen ==
    ASSUME NEW h \in Handlers, NEW seen, NEW now, Proper(now), Seen(h, seen, {}, now),
           NEW wanted, Wanted(h, seen, wanted), MayReplace(now, wanted)
    PROVE  now.auditIds = seen.auditIds /\ now.record.audit = seen.record.audit
<1>1. /\ seen.auditIds \in Seq(RowId) /\ now.auditIds \in Seq(RowId)
      /\ Placed(seen.auditIds) /\ Len(seen.auditIds) = Len(seen.record.audit)
  BY SnapshotParts DEF Seen, Proper
<1>2. TrailSeen(h, seen, now)
  BY DEF Seen
<1>3. wanted.auditIds = WithNewIds(h, seen.auditIds, Len(wanted.record.audit))
  BY DEF Wanted, WithIds, Snapshot
<1>4. Len(wanted.record.audit) \in Nat /\ Len(wanted.record.audit) >= Len(seen.auditIds)
  <2>1. wanted.record \in TravelRequest
    BY DEF Wanted, Continues, Sound
  <2>2. QED
    BY <1>1, <2>1, RequestParts, LenProperties DEF Wanted, Continues, IsAppendOnly
<1>5. IsAppendOnly(now.auditIds, wanted.auditIds)
  BY DEF MayReplace
<1>6. Own(h, seen.auditIds, now.auditIds) /\ Len(seen.auditIds) <= Len(now.auditIds)
  BY <1>2 DEF TrailSeen
<1>7. now.auditIds = seen.auditIds
  BY <1>1, <1>3, <1>4, <1>5, <1>6, OnlyOwnIdsFit
<1>8. QED
  BY <1>2, <1>7 DEF TrailSeen

LEMMA WantedReplaces ==
    ASSUME NEW h \in Handlers, NEW seen, NEW now, Proper(now), Seen(h, seen, {}, now),
           NEW wanted, Wanted(h, seen, wanted), MayReplace(now, wanted)
    PROVE  Replaced(h, now, wanted)
<1> DEFINE n == Len(wanted.record.audit)
<1>1. now.auditIds = seen.auditIds /\ now.record.audit = seen.record.audit
  BY AcceptedOnSeen
<1>2. seen.auditIds \in Seq(RowId) /\ Len(seen.auditIds) = Len(seen.record.audit)
  BY SnapshotParts DEF Seen, Proper
<1>3. wanted.auditIds = WithNewIds(h, seen.auditIds, n)
  BY DEF Wanted, WithIds, Snapshot
<1>4. /\ wanted.record \in TravelRequest /\ IsAppendOnly(seen.record.audit, wanted.record.audit)
      /\ n = Len(seen.record.audit) => wanted.record = seen.record
  BY DEF Wanted, Continues, Sound
<1>5. n \in Nat /\ n >= Len(seen.auditIds) /\ Len(seen.auditIds) \in Nat
  BY <1>2, <1>4, RequestParts, LenProperties, RowIdsAt DEF IsAppendOnly
<1>6. Len(wanted.auditIds) = n
  BY <1>3, <1>5, NewIdsAt
<1>7. /\ Ids(seen.auditIds) \subseteq Ids(wanted.auditIds)
      /\ \A id \in Ids(wanted.auditIds) : id \in Ids(seen.auditIds) \/ id.by = h
  BY <1>2, <1>3, <1>5, NewIdsByOne
<1>8. ASSUME Len(wanted.auditIds) = Len(seen.auditIds)
      PROVE  wanted.auditIds = seen.auditIds /\ wanted.record.audit = seen.record.audit
  <2>1. wanted.record = seen.record
    BY <1>2, <1>4, <1>6, <1>8
  <2>2. wanted.auditIds \in Seq(RowId)
    BY <1>2, <1>3, <1>5, NewIdsType
  <2>3. \A i \in 1..Len(seen.auditIds) : wanted.auditIds[i] = seen.auditIds[i]
    BY <1>3, <1>5, <1>6, <1>8, NewIdsAt
  <2>4. QED
    BY <1>2, <1>8, <2>1, <2>2, <2>3, SeqEqual
<1>9. TicketEntered(seen.record) => TicketEntered(wanted.record)
  <2>1. \A i \in 1..Len(seen.record.audit) : i \in 1..n
    BY <1>2, <1>5
  <2>2. \A i \in 1..Len(seen.record.audit) : wanted.record.audit[i] = seen.record.audit[i]
    BY <1>4 DEF IsAppendOnly
  <2>3. QED
    BY <2>1, <2>2 DEF TicketEntered
<1>10. TicketEntered(now.record) => TicketEntered(wanted.record)
  BY <1>1, <1>9 DEF TicketEntered
<1>11. QED
  BY <1>1, <1>5, <1>6, <1>7, <1>8, <1>10 DEF Replaced

\* The last two places exchanged, and a snapshot whose history was read so.
Exchanged(n) == [i \in 1..n |-> IF i = n THEN n - 1 ELSE IF i = n - 1 THEN n ELSE i]

InOrder(t, n) == [i \in 1..n |-> t[Exchanged(n)[i]]]

WithTrail(r, t) == [r EXCEPT !.audit = t]

Reordered(s) ==
    LET n == Len(s.auditIds)
    IN  [s EXCEPT !.auditIds = InOrder(s.auditIds, n),
                  !.record = WithTrail(s.record, InOrder(s.record.audit, n))]

LEMMA ReadBackIsReordered ==
    ASSUME NEW now, NEW next \in SnapshotType, NEW s \in ReadBackOrders(now, next)
    PROVE  \/ s = next
           \/ Len(next.auditIds) - Len(now.auditIds) = 2 /\ s = Reordered(next)
<1> DEFINE n == Len(next.auditIds)
           swap == [i \in 1..n |-> IF i = n THEN n - 1 ELSE IF i = n - 1 THEN n ELSE i]
           swapped == [next EXCEPT !.auditIds = [i \in 1..n |-> @[swap[i]]],
                                   !.record.audit = [i \in 1..n |-> @[swap[i]]]]
           a == [i \in 1..n |-> next.auditIds[swap[i]]]
           t == [i \in 1..n |-> next.record.audit[swap[i]]]
<1>1. s = next \/ (n - Len(now.auditIds) = 2 /\ s = swapped)
  BY DEF ReadBackOrders
<1>2. swap = Exchanged(n)
  BY DEF Exchanged
<1>3. a = InOrder(next.auditIds, n) /\ t = InOrder(next.record.audit, n)
  BY <1>2 DEF InOrder
<1>4. swapped = [next EXCEPT !.auditIds = a, !.record.audit = t]
  OBVIOUS
<1> HIDE DEF a, t
<1>5. swapped = [next EXCEPT !.auditIds = a, !.record = [next.record EXCEPT !.audit = t]]
  BY <1>4 DEF SnapshotType
<1>6. swapped = Reordered(next)
  BY <1>3, <1>5 DEF Reordered, WithTrail
<1>7. QED
  BY <1>1, <1>6

LEMMA ExchangedTwice ==
    ASSUME NEW n \in Nat, n >= 2, NEW i \in 1..n
    PROVE  Exchanged(n)[i] \in 1..n /\ Exchanged(n)[Exchanged(n)[i]] = i
BY DEF Exchanged

LEMMA ReorderedIds ==
    ASSUME NEW ids \in Seq(RowId), NEW n, n = Len(ids), n >= 2, Placed(ids),
           NEW new, new = InOrder(ids, n)
    PROVE  new \in Seq(RowId) /\ Len(new) = n /\ Placed(new) /\ Ids(new) = Ids(ids)
<1>1. n \in Nat /\ DOMAIN ids = 1..n /\ \A i \in 1..n : ids[i] \in RowId /\ ids[i].at \in Nat
  BY RowIdsAt
<1>2. \A i \in 1..n : Exchanged(n)[i] \in 1..n /\ Exchanged(n)[Exchanged(n)[i]] = i
  BY <1>1, ExchangedTwice
<1>3. new = [i \in 1..n |-> ids[Exchanged(n)[i]]]
  BY DEF InOrder
<1>4. \A i \in 1..n : new[i] = ids[Exchanged(n)[i]] /\ new[i] \in RowId
  BY <1>1, <1>2, <1>3
<1>5. new \in Seq(RowId) /\ Len(new) = n /\ DOMAIN new = 1..n
  BY <1>1, <1>3, <1>4
<1>6. ASSUME NEW i \in 1..n, NEW j \in 1..n, new[i] = new[j]
      PROVE  i = j
  <2>1. ids[Exchanged(n)[i]] = ids[Exchanged(n)[j]]
    BY <1>4, <1>6
  <2>2. Exchanged(n)[i] = Exchanged(n)[j]
    BY <1>1, <1>2, <2>1 DEF Placed
  <2>3. QED
    BY <1>2, <2>2
<1>7. \A i \in 1..n : new[i].at <= n
  BY <1>1, <1>2, <1>4 DEF Placed
<1>8. Placed(new)
  BY <1>5, <1>6, <1>7 DEF Placed
<1>9. Ids(new) = Ids(ids)
  <2>1. \A i \in 1..n : new[i] \in Ids(ids)
    BY <1>1, <1>2, <1>4 DEF Ids
  <2>2. \A i \in 1..n : ids[i] = new[Exchanged(n)[i]]
    BY <1>2, <1>4
  <2>3. \A i \in 1..n : ids[i] \in Ids(new)
    BY <1>2, <1>5, <2>2 DEF Ids
  <2>4. Ids(new) \subseteq Ids(ids)
    BY <1>5, <2>1 DEF Ids
  <2>5. Ids(ids) \subseteq Ids(new)
    BY <1>1, <2>3 DEF Ids
  <2>6. QED
    BY <2>4, <2>5
<1>10. QED
  BY <1>5, <1>8, <1>9

LEMMA ReorderedTrail ==
    ASSUME NEW r \in TravelRequest, NEW n, n = Len(r.audit), n >= 2,
           NEW q, q = WithTrail(r, InOrder(r.audit, n))
    PROVE  /\ q \in TravelRequest /\ Len(q.audit) = n
           /\ q.fields = r.fields /\ q.stage = r.stage /\ q.finalSalary = r.finalSalary
           /\ q.salaryPreview = r.salaryPreview /\ q.priceRevisions = r.priceRevisions
           /\ TicketEntered(r) => TicketEntered(q)
<1>1. r.audit \in Seq(AuditEvent) /\ n \in Nat
  BY RequestParts, LenProperties
<1>2. \A i \in 1..n : r.audit[i] \in AuditEvent
  BY <1>1, ElementOfSeq
<1>3. \A i \in 1..n : Exchanged(n)[i] \in 1..n /\ Exchanged(n)[Exchanged(n)[i]] = i
  BY <1>1, ExchangedTwice
<1> DEFINE t == InOrder(r.audit, n)
<1>4. t = [i \in 1..n |-> r.audit[Exchanged(n)[i]]]
  BY DEF InOrder
<1>5. \A i \in 1..n : t[i] = r.audit[Exchanged(n)[i]] /\ t[i] \in AuditEvent
  BY <1>2, <1>3, <1>4
<1>6. t \in Seq(AuditEvent) /\ Len(t) = n
  <2> HIDE DEF t
  <2>1. \A i \in 1..n : t[i] \in AuditEvent
    BY <1>5
  <2>2. QED
    BY <1>1, <1>4, <2>1
<1>7. q = [r EXCEPT !.audit = t]
  BY DEF WithTrail
<1> HIDE DEF t
<1>8. /\ q \in TravelRequest /\ q.audit = t
      /\ q.fields = r.fields /\ q.stage = r.stage /\ q.finalSalary = r.finalSalary
      /\ q.salaryPreview = r.salaryPreview /\ q.priceRevisions = r.priceRevisions
  BY <1>6, <1>7 DEF TravelRequest
<1>9. ASSUME NEW i \in 1..n, EntersTicket(r.audit[i])
      PROVE  \E k \in 1..n : EntersTicket(t[k])
  <2>1. Exchanged(n)[i] \in 1..n /\ t[Exchanged(n)[i]] = r.audit[i]
    BY <1>3, <1>5
  <2>2. QED
    BY <1>9, <2>1
<1>10. QED
  BY <1>6, <1>8, <1>9 DEF TicketEntered

\* A history that is read back in another order tells the same rows, and nothing
\* that was entered is lost from it.
LEMMA ReorderedKeeps ==
    ASSUME NEW s, Proper(s), Sound(s.record), s.record.stage # "completed",
           Len(s.auditIds) >= 2, NEW w, w = Reordered(s)
    PROVE  /\ Proper(w) /\ Sound(w.record)
           /\ Ids(w.auditIds) = Ids(s.auditIds) /\ Len(w.auditIds) = Len(s.auditIds)
           /\ TicketEntered(s.record) => TicketEntered(w.record)
<1> DEFINE n == Len(s.auditIds)
           r == s.record
           a == InOrder(s.auditIds, n)
           q == WithTrail(r, InOrder(r.audit, n))
<1>1. /\ r \in TravelRequest /\ s.auditIds \in Seq(RowId)
      /\ s.revisionIds \in Seq([by : Handlers, at : Nat])
      /\ n = Len(r.audit) /\ n >= 2 /\ Len(s.revisionIds) = Len(r.priceRevisions)
      /\ Placed(s.auditIds) /\ Placed(s.revisionIds)
      /\ Sound(r) /\ r.stage # "completed"
  BY SnapshotParts DEF Proper
<1>2. w = [s EXCEPT !.auditIds = a, !.record = q] /\ s \in SnapshotType
  BY DEF Reordered, Proper
<1>3. a \in Seq(RowId) /\ Len(a) = n /\ Placed(a) /\ Ids(a) = Ids(s.auditIds)
  BY <1>1, ReorderedIds
<1>4. q = WithTrail(r, InOrder(r.audit, n))
  OBVIOUS
<1> HIDE DEF a, q, r, n
<1>5. /\ q \in TravelRequest /\ Len(q.audit) = n
      /\ q.fields = r.fields /\ q.stage = r.stage /\ q.finalSalary = r.finalSalary
      /\ q.salaryPreview = r.salaryPreview /\ q.priceRevisions = r.priceRevisions
  BY <1>1, <1>4, ReorderedTrail
<1>12. TicketEntered(r) => TicketEntered(q)
  BY <1>1, <1>4, ReorderedTrail
<1>6. w \in SnapshotType /\ w.record = q /\ w.auditIds = a /\ w.revisionIds = s.revisionIds
  BY <1>1, <1>2, <1>3, <1>5 DEF SnapshotType, RowId
<1>7. Proper(w)
  BY <1>1, <1>3, <1>5, <1>6 DEF Proper
<1>8. r.fields.ticketVerified => TicketEntered(r)
  BY <1>1 DEF Sound, FiguresTraced, TicketEntered
<1>9. FiguresTraced(q)
  <2>1. q.fields.ticketVerified => \E i \in 1..Len(q.audit) : EntersTicket(q.audit[i])
    BY <1>5, <1>8, <1>12 DEF TicketEntered
  <2>2. FiguresTraced(r) /\ q.stage # "completed"
    BY <1>1, <1>5 DEF Sound
  <2>3. QED
    BY <1>5, <2>1, <2>2 DEF FiguresTraced
<1>10. Sound(q)
  BY <1>1, <1>5, <1>9 DEF Sound
<1>11. QED
  BY <1>3, <1>6, <1>7, <1>10, <1>12 DEF r, n

\* A replacement that is accepted stores a sound request, with all the rows that
\* were stored and all that the handler wanted.
LEMMA AcceptedReplacement ==
    ASSUME NEW h \in Handlers, NEW seen, NEW now, Proper(now), Seen(h, seen, {}, now),
           NEW wanted, Wanted(h, seen, wanted), MayReplace(now, wanted),
           NEW next \in ReadBackOrders(now, wanted)
    PROVE  /\ Proper(next) /\ Sound(next.record) /\ Replaced(h, now, next)
           /\ Ids(next.auditIds) = Ids(wanted.auditIds)
<1>1. Proper(wanted)
  BY WantedProper DEF Seen
<1>2. Sound(wanted.record)
  BY DEF Wanted, Continues
<1>3. Replaced(h, now, wanted)
  BY WantedReplaces
<1>4. CASE next = wanted
  BY <1>1, <1>2, <1>3, <1>4
<1>5. CASE next = Reordered(wanted) /\ Len(wanted.auditIds) - Len(now.auditIds) = 2
  <2>1. /\ Len(now.auditIds) \in Nat /\ Len(wanted.auditIds) \in Nat
        /\ Len(wanted.auditIds) = Len(wanted.record.audit)
    BY <1>1, SnapshotParts, RowIdsAt DEF Proper
  <2>2. wanted.record.stage # "completed"
    <3>1. Len(now.auditIds) = Len(seen.record.audit)
      BY AcceptedOnSeen DEF Seen, Proper
    <3>2. QED
      BY <1>5, <2>1, <3>1 DEF Wanted, Continues
  <2>3. Len(wanted.auditIds) >= 2
    BY <1>5, <2>1
  <2>4. /\ Proper(next) /\ Sound(next.record)
        /\ Ids(next.auditIds) = Ids(wanted.auditIds)
        /\ Len(next.auditIds) = Len(wanted.auditIds)
        /\ TicketEntered(wanted.record) => TicketEntered(next.record)
    BY <1>1, <1>2, <1>5, <2>2, <2>3, ReorderedKeeps
  <2>5. Len(now.auditIds) # Len(next.auditIds)
    BY <1>5, <2>1, <2>4
  <2>6. Replaced(h, now, next)
    BY <1>3, <2>4, <2>5 DEF Replaced
  <2>7. QED
    BY <2>4, <2>6
<1>6. QED
  BY <1>1, <1>4, <1>5, ReadBackIsReordered DEF Proper

(***************************************************************************)
(* The inductive invariant                                                 *)
(***************************************************************************)

Reading ==
    [phase : {"reading"}, actors : SUBSET Users, seen : SnapshotType, missing : SUBSET Histories]

Computed ==
    [phase : {"computed"}, correction : BOOLEAN, seen : SnapshotType, wanted : SnapshotType]

Acknowledged == [phase : {"stored"}, correction : BOOLEAN, acknowledged : SUBSET RowId]

HandlerState == {Idle} \union Reading \union Computed \union Acknowledged

\* What handler h, in state s, may rely on while the stored request is now.
Relies(h, s, now) ==
    /\ s.phase = "reading" => Seen(h, s.seen, s.missing, now)
    /\ s.phase = "computed" => Seen(h, s.seen, {}, now) /\ Wanted(h, s.seen, s.wanted)
    /\ s.phase = "stored" => s.acknowledged \subseteq Ids(now.auditIds)

StoreInv ==
    /\ adapter \in Adapters /\ windowOpen \in BOOLEAN /\ active \subseteq Users
    /\ Proper(stored) /\ Sound(stored.record)
    /\ handlers \in [Handlers -> HandlerState]
    /\ \A h \in Handlers : Relies(h, handlers[h], stored)

LEMMA HandlerCases ==
    ASSUME NEW s \in HandlerState
    PROVE  /\ s.phase \in {"idle", "reading", "computed", "stored"}
           /\ s.phase = "reading" => s \in Reading
           /\ s.phase = "computed" => s \in Computed
           /\ s.phase = "stored" => s \in Acknowledged
BY DEF HandlerState, Idle, Reading, Computed, Acknowledged

LEMMA IdleState ==
    /\ Idle \in HandlerState /\ Idle.phase = "idle"
    /\ \A h, now : Relies(h, Idle, now)
BY DEF HandlerState, Idle, Relies

\* A step that changes one handler and leaves the stored request alone.
LEMMA OneHandlerMoves ==
    ASSUME StoreInv, NEW h \in Handlers, NEW s \in HandlerState, Relies(h, s, stored),
           handlers' = [handlers EXCEPT ![h] = s],
           UNCHANGED <<adapter, stored, windowOpen, active>>
    PROVE  StoreInv'
<1>1. handlers' \in [Handlers -> HandlerState]
  BY DEF StoreInv
<1>2. ASSUME NEW k \in Handlers
      PROVE  Relies(k, handlers'[k], stored')
  BY <1>2 DEF StoreInv
<1>3. QED
  BY <1>1, <1>2 DEF StoreInv

LEMMA InitStoreInv == Init => StoreInv
<1> SUFFICES ASSUME Init PROVE StoreInv
  OBVIOUS
<1> DEFINE id == [by |-> "submission", at |-> 1]
<1>1. PICK r \in NewRequests : stored = Snapshot(r, <<id>>, <<>>)
  BY DEF Init
<1>2. Sound(r) /\ r \in TravelRequest
  BY <1>1, NewRequestSound DEF Sound
<1>3. Len(r.audit) = 1 /\ r.priceRevisions = <<>>
  BY <1>1 DEF NewRequests, NewRequest
<1>4. /\ id \in RowId /\ <<id>> \in Seq(RowId) /\ Len(<<id>>) = 1 /\ DOMAIN <<id>> = 1..1
      /\ <<id>>[1] = id /\ id.at = 1
  BY DEF RowId
<1>5. <<>> \in Seq([by : Handlers, at : Nat])
  OBVIOUS
<1> HIDE DEF id
<1>6. stored \in SnapshotType /\ stored.record = r /\ stored.auditIds = <<id>>
      /\ stored.revisionIds = <<>>
  BY <1>1, <1>2, <1>4, <1>5 DEF SnapshotType, Snapshot, RowId
<1>7. Placed(<<id>>) /\ Placed(<<>>)
  BY <1>4 DEF Placed
<1>8. Proper(stored) /\ Sound(stored.record)
  BY <1>2, <1>3, <1>4, <1>6, <1>7 DEF Proper
<1>9. handlers \in [Handlers -> HandlerState] /\ \A h \in Handlers : handlers[h] = Idle
  BY IdleState DEF Init
<1>10. adapter \in Adapters /\ windowOpen \in BOOLEAN /\ active \subseteq Users
  BY DEF Init
<1>11. QED
  BY <1>8, <1>9, <1>10, IdleState DEF StoreInv

\* What is read of the stored request as it is.
LEMMA StoredAsSeen ==
    ASSUME StoreInv, NEW h, NEW missing
    PROVE  Seen(h, stored, missing, stored)
<1>1. Proper(stored) /\ Sound(stored.record)
  BY DEF StoreInv
<1>2. RowTraced(stored.record)
  BY <1>1 DEF Sound, FiguresTraced, RowTraced
<1>3. stored.record.fields.ticketVerified => TicketEntered(stored.record)
  BY <1>1 DEF Sound, FiguresTraced, TicketEntered
<1>4. TrailSeen(h, stored, stored)
  <2>1. Len(stored.auditIds) <= Len(stored.auditIds)
    BY <1>1, SnapshotParts, RowIdsAt DEF Proper
  <2>2. QED
    BY <1>3, <2>1 DEF TrailSeen, Own
<1>5. QED
  BY <1>1, <1>2, <1>3, <1>4 DEF Seen

WithHistories(r, t, p) == [r EXCEPT !.audit = t, !.priceRevisions = p]

LEMMA OtherHistories ==
    ASSUME NEW r \in TravelRequest, NEW t \in Seq(AuditEvent), NEW p \in Seq(PriceRevision),
           NEW q, q = WithHistories(r, t, p)
    PROVE  /\ q \in TravelRequest /\ q.audit = t /\ q.priceRevisions = p
           /\ q.fields = r.fields /\ q.stage = r.stage
           /\ q.finalSalary = r.finalSalary /\ q.salaryPreview = r.salaryPreview
BY DEF TravelRequest, WithHistories

\* The row alone, before its histories are read.
LEMMA RowAsSeen ==
    ASSUME StoreInv, NEW h, NEW row,
           row = Snapshot([stored.record EXCEPT !.audit = <<>>, !.priceRevisions = <<>>], <<>>, <<>>)
    PROVE  row \in SnapshotType /\ Seen(h, row, Histories, stored)
<1> DEFINE r == [stored.record EXCEPT !.audit = <<>>, !.priceRevisions = <<>>]
<1>1. stored.record \in TravelRequest /\ Sound(stored.record)
  BY SnapshotParts DEF StoreInv, Proper
<1>2. /\ r \in TravelRequest /\ r.audit = <<>> /\ r.priceRevisions = <<>>
      /\ r.fields = stored.record.fields /\ r.stage = stored.record.stage
      /\ r.finalSalary = stored.record.finalSalary
      /\ r.salaryPreview = stored.record.salaryPreview
  <2> DEFINE none == <<>>
  <2>1. none \in Seq(AuditEvent) /\ none \in Seq(PriceRevision)
    OBVIOUS
  <2>2. r = WithHistories(stored.record, none, none)
    BY DEF WithHistories
  <2> HIDE DEF r, none
  <2>3. /\ r \in TravelRequest /\ r.audit = none /\ r.priceRevisions = none
        /\ r.fields = stored.record.fields /\ r.stage = stored.record.stage
        /\ r.finalSalary = stored.record.finalSalary
        /\ r.salaryPreview = stored.record.salaryPreview
    BY <1>1, <2>1, <2>2, OtherHistories
  <2>4. QED
    BY <2>3 DEF none
<1> HIDE DEF r
<1>3. row \in SnapshotType /\ row.record = r /\ row.auditIds = <<>> /\ row.revisionIds = <<>>
  <2>1. <<>> \in Seq(RowId) /\ <<>> \in Seq([by : Handlers, at : Nat])
    OBVIOUS
  <2>2. row = Snapshot(r, <<>>, <<>>)
    BY DEF r
  <2>3. QED
    BY <1>2, <2>1, <2>2 DEF SnapshotType, Snapshot, RowId
<1>4. Placed(<<>>)
  BY DEF Placed
<1>5. Proper(row)
  BY <1>2, <1>3, <1>4 DEF Proper
<1>6. RowTraced(row.record)
  BY <1>1, <1>2, <1>3 DEF Sound, FiguresTraced, RowTraced
<1>7. row.record.fields.ticketVerified => TicketEntered(stored.record)
  BY <1>1, <1>2, <1>3 DEF Sound, FiguresTraced, TicketEntered
<1>8. QED
  BY <1>3, <1>5, <1>6, <1>7 DEF Seen, Histories

LEMMA ReadRowKeeps ==
    ASSUME StoreInv, NEW h \in Handlers, ReadRow(h)
    PROVE  StoreInv'
<1> DEFINE row == Snapshot([stored.record EXCEPT !.audit = <<>>, !.priceRevisions = <<>>], <<>>, <<>>)
           whole == [phase |-> "reading", actors |-> active, seen |-> stored, missing |-> {}]
           part == [phase |-> "reading", actors |-> active, seen |-> row, missing |-> Histories]
<1>1. row \in SnapshotType /\ Seen(h, row, Histories, stored)
  BY RowAsSeen
<1>2. Seen(h, stored, {}, stored) /\ stored \in SnapshotType /\ active \in SUBSET Users
  BY StoredAsSeen DEF StoreInv, Proper
<1>3. handlers' = [handlers EXCEPT ![h] = IF adapter = "memory" THEN whole ELSE part]
      /\ UNCHANGED <<adapter, stored, windowOpen, active>>
  BY DEF ReadRow
<1> HIDE DEF row
<1>4. whole \in HandlerState /\ Relies(h, whole, stored)
  BY <1>2 DEF HandlerState, Reading, Relies
<1>5. part \in HandlerState /\ Relies(h, part, stored)
  BY <1>1, <1>2 DEF HandlerState, Reading, Relies
<1> HIDE DEF whole, part
<1>6. CASE adapter = "memory"
  BY <1>3, <1>4, <1>6, OneHandlerMoves
<1>7. CASE adapter # "memory"
  BY <1>3, <1>5, <1>7, OneHandlerMoves
<1>8. QED
  BY <1>6, <1>7

\* A handler that goes on reading has the rest of its state unchanged.
LEMMA ReadsOn ==
    ASSUME StoreInv, NEW h \in Handlers, handlers[h].phase = "reading",
           NEW seen \in SnapshotType, NEW missing \in SUBSET Histories,
           Seen(h, seen, missing, stored),
           handlers' = [handlers EXCEPT ![h] = [@ EXCEPT !.missing = missing, !.seen = seen]],
           UNCHANGED <<adapter, stored, windowOpen, active>>
    PROVE  StoreInv'
<1> DEFINE s == [handlers[h] EXCEPT !.missing = missing, !.seen = seen]
<1>1. handlers[h] \in Reading
  BY HandlerCases DEF StoreInv
<1>2. s \in Reading /\ s.phase = "reading" /\ s.seen = seen /\ s.missing = missing
  BY <1>1 DEF Reading
<1> HIDE DEF s
<1>3. s \in HandlerState /\ Relies(h, s, stored)
  BY <1>2 DEF HandlerState, Relies
<1>4. handlers' = [handlers EXCEPT ![h] = s]
  BY DEF s
<1>5. QED
  BY <1>3, <1>4, OneHandlerMoves

\* The trail of a row is read: it goes with the row, which is no younger.
LEMMA TrailRead ==
    ASSUME StoreInv, NEW h \in Handlers, NEW missing, NEW seen \in SnapshotType,
           Seen(h, seen, missing, stored), NEW left,
           NEW w, w = [seen EXCEPT !.auditIds = stored.auditIds,
                                   !.record = WithTrail(seen.record, stored.record.audit)]
    PROVE  w \in SnapshotType /\ Seen(h, w, left, stored)
<1> DEFINE r == WithTrail(seen.record, stored.record.audit)
<1>1. /\ Proper(stored) /\ stored.auditIds \in Seq(RowId) /\ stored.record \in TravelRequest
      /\ seen.record \in TravelRequest
  BY SnapshotParts DEF StoreInv, Proper
<1>2. stored.record.audit \in Seq(AuditEvent)
  BY <1>1, RequestParts
<1>3. /\ r \in TravelRequest /\ r.audit = stored.record.audit
      /\ r.priceRevisions = seen.record.priceRevisions
      /\ r.fields = seen.record.fields /\ r.stage = seen.record.stage
      /\ r.finalSalary = seen.record.finalSalary /\ r.salaryPreview = seen.record.salaryPreview
  BY <1>1, <1>2 DEF WithTrail, TravelRequest
<1> HIDE DEF r
<1>4. w = [seen EXCEPT !.auditIds = stored.auditIds, !.record = r]
  BY DEF r
<1>5. /\ w \in SnapshotType /\ w.record = r /\ w.auditIds = stored.auditIds
      /\ w.revisionIds = seen.revisionIds
  BY <1>1, <1>3, <1>4 DEF SnapshotType, RowId
<1>6. Proper(w)
  BY <1>1, <1>3, <1>5 DEF Seen, Proper
<1>7. RowTraced(r)
  BY <1>3 DEF Seen, RowTraced
<1>8. r.fields.ticketVerified => TicketEntered(stored.record) /\ TicketEntered(r)
  BY <1>3 DEF Seen, TicketEntered
<1>9. Len(stored.auditIds) <= Len(stored.auditIds)
  BY <1>1, RowIdsAt
<1>10. TrailSeen(h, w, stored)
  BY <1>3, <1>5, <1>8, <1>9 DEF TrailSeen, Own
<1>11. QED
  BY <1>5, <1>6, <1>7, <1>8, <1>10 DEF Seen

LEMMA ReadAuditEventsKeeps ==
    ASSUME StoreInv, NEW h \in Handlers, ReadAuditEvents(h)
    PROVE  StoreInv'
<1> DEFINE seen == handlers[h].seen
           missing == handlers[h].missing
           w == [seen EXCEPT !.auditIds = stored.auditIds,
                             !.record = WithTrail(seen.record, stored.record.audit)]
           left == missing \ {"audit_events"}
<1>1. handlers[h].phase = "reading" /\ UNCHANGED <<adapter, stored, windowOpen, active>>
  BY DEF ReadAuditEvents
<1>2. handlers[h] \in Reading /\ Seen(h, seen, missing, stored)
  BY <1>1, HandlerCases DEF StoreInv, Relies
<1>3. seen \in SnapshotType /\ missing \in SUBSET Histories
  BY <1>2 DEF Reading
<1>4. w \in SnapshotType /\ Seen(h, w, left, stored)
  BY <1>2, <1>3, TrailRead
<1>5. handlers' = [handlers EXCEPT ![h] = [@ EXCEPT !.missing = left, !.seen = w]]
  BY <1>2 DEF ReadAuditEvents, WithTrail, StoreInv, Reading, SnapshotType
<1> HIDE DEF w, left
<1>6. left \in SUBSET Histories
  BY <1>3 DEF left
<1>7. QED
  BY <1>1, <1>4, <1>5, <1>6, ReadsOn

WithPrices(r, p) == [r EXCEPT !.priceRevisions = p]

LEMMA PricesRead ==
    ASSUME StoreInv, NEW h \in Handlers, NEW missing, NEW seen \in SnapshotType,
           Seen(h, seen, missing, stored), NEW left, left = missing \ {"price_revisions"},
           NEW w, w = [seen EXCEPT !.revisionIds = stored.revisionIds,
                                   !.record = WithPrices(seen.record, stored.record.priceRevisions)]
    PROVE  w \in SnapshotType /\ Seen(h, w, left, stored)
<1> DEFINE r == WithPrices(seen.record, stored.record.priceRevisions)
<1>1. /\ Proper(stored) /\ stored.revisionIds \in Seq([by : Handlers, at : Nat])
      /\ stored.record \in TravelRequest /\ seen.record \in TravelRequest
  BY SnapshotParts DEF StoreInv, Proper
<1>2. stored.record.priceRevisions \in Seq(PriceRevision)
  BY <1>1, RequestParts
<1>3. /\ r \in TravelRequest /\ r.audit = seen.record.audit
      /\ r.priceRevisions = stored.record.priceRevisions
      /\ r.fields = seen.record.fields /\ r.stage = seen.record.stage
      /\ r.finalSalary = seen.record.finalSalary /\ r.salaryPreview = seen.record.salaryPreview
  BY <1>1, <1>2 DEF WithPrices, TravelRequest
<1> HIDE DEF r
<1>4. w = [seen EXCEPT !.revisionIds = stored.revisionIds, !.record = r]
  BY DEF r
<1>5. /\ w \in SnapshotType /\ w.record = r /\ w.auditIds = seen.auditIds
      /\ w.revisionIds = stored.revisionIds
  BY <1>1, <1>3, <1>4 DEF SnapshotType
<1>6. Proper(w)
  BY <1>1, <1>3, <1>5 DEF Seen, Proper
<1>7. RowTraced(r)
  BY <1>3 DEF Seen, RowTraced
<1>8. r.fields.ticketVerified => TicketEntered(stored.record)
  BY <1>3 DEF Seen
<1>9. TrailSeen(h, seen, stored) => TrailSeen(h, w, stored)
  BY <1>3, <1>5 DEF TrailSeen, TicketEntered
<1>10. "audit_events" \notin left => "audit_events" \notin missing
  OBVIOUS
<1>11. QED
  BY <1>5, <1>6, <1>7, <1>8, <1>9, <1>10 DEF Seen

LEMMA ReadPriceRevisionsKeeps ==
    ASSUME StoreInv, NEW h \in Handlers, ReadPriceRevisions(h)
    PROVE  StoreInv'
<1> DEFINE seen == handlers[h].seen
           missing == handlers[h].missing
           w == [seen EXCEPT !.revisionIds = stored.revisionIds,
                             !.record = WithPrices(seen.record, stored.record.priceRevisions)]
           left == missing \ {"price_revisions"}
<1>1. handlers[h].phase = "reading" /\ UNCHANGED <<adapter, stored, windowOpen, active>>
  BY DEF ReadPriceRevisions
<1>2. handlers[h] \in Reading /\ Seen(h, seen, missing, stored)
  BY <1>1, HandlerCases DEF StoreInv, Relies
<1>3. seen \in SnapshotType /\ missing \in SUBSET Histories
  BY <1>2 DEF Reading
<1>4. w \in SnapshotType /\ Seen(h, w, left, stored)
  BY <1>2, <1>3, PricesRead
<1>5. handlers' = [handlers EXCEPT ![h] = [@ EXCEPT !.missing = left, !.seen = w]]
  BY <1>2 DEF ReadPriceRevisions, WithPrices, StoreInv, Reading, SnapshotType
<1> HIDE DEF w, left
<1>6. left \in SUBSET Histories
  BY <1>3 DEF left
<1>7. QED
  BY <1>1, <1>4, <1>5, <1>6, ReadsOn

\* A handler that has computed a record holds what it has seen and what it wants.
LEMMA WantsKeeps ==
    ASSUME StoreInv, NEW h \in Handlers, ReadComplete(h), NEW record, NEW isCorrection \in BOOLEAN,
           Continues(handlers[h].seen.record, record), Wants(h, record, isCorrection)
    PROVE  StoreInv'
<1> DEFINE seen == handlers[h].seen
           wanted == WithIds(h, seen, record)
           s == [phase |-> "computed", correction |-> isCorrection, seen |-> seen, wanted |-> wanted]
<1>1. Seen(h, seen, {}, stored) /\ Proper(seen)
  BY DEF ReadComplete, StoreInv, Relies, Seen
<1>2. wanted.record = record
  BY DEF WithIds, Snapshot
<1>3. Wanted(h, seen, wanted)
  BY <1>2 DEF Wanted
<1>4. Proper(wanted)
  BY <1>1, <1>3, WantedProper
<1>5. handlers' = [handlers EXCEPT ![h] = s] /\ UNCHANGED <<adapter, stored, windowOpen, active>>
  BY DEF Wants
<1> HIDE DEF seen, wanted
<1>6. s \in HandlerState /\ Relies(h, s, stored)
  BY <1>1, <1>3, <1>4 DEF HandlerState, Computed, Relies, Proper
<1> HIDE DEF s
<1>7. QED
  BY <1>5, <1>6, OneHandlerMoves

LEMMA ReadyToCompute ==
    ASSUME StoreInv, NEW h \in Handlers, ReadComplete(h)
    PROVE  /\ handlers[h].seen.record \in TravelRequest /\ handlers[h].actors \subseteq Users
           /\ handlers[h].seen.record.stage \in WorkflowStage
           /\ handlers[h].seen.record.stage \notin Terminal => Sound(handlers[h].seen.record)
<1>1. handlers[h] \in Reading /\ Seen(h, handlers[h].seen, {}, stored)
  BY HandlerCases DEF ReadComplete, StoreInv, Relies
<1>2. handlers[h].seen \in SnapshotType /\ handlers[h].actors \subseteq Users
  BY <1>1 DEF Reading
<1>3. handlers[h].seen.record.stage \notin Terminal => Sound(handlers[h].seen.record)
  BY <1>1, SeenSound
<1>4. QED
  BY <1>2, <1>3, SnapshotParts, RequestParts

LEMMA ComputeCorrectionKeeps ==
    ASSUME StoreInv, NEW h \in Handlers, ComputeCorrection(h)
    PROVE  StoreInv'
<1>0. PICK u \in handlers[h].actors : \E q \in Corrections(handlers[h].seen.record, u) : Wants(h, q, TRUE)
  BY DEF ComputeCorrection
<1>1. PICK r \in Corrections(handlers[h].seen.record, u) : Wants(h, r, TRUE)
  BY <1>0
<1>2. ReadComplete(h)
  BY DEF ComputeCorrection
<1>3. handlers[h].seen.record.stage = "manager-review" /\ u \in Users
  BY <1>1, <1>2, ReadyToCompute, CorrectedInReview
<1>4. Sound(handlers[h].seen.record)
  BY <1>2, <1>3, ReadyToCompute DEF Terminal
<1>5. Continues(handlers[h].seen.record, r)
  BY <1>3, <1>4, CorrectedContinues
<1>6. QED
  BY <1>1, <1>2, <1>5, WantsKeeps

LEMMA ComputeDecisionKeeps ==
    ASSUME StoreInv, NEW h \in Handlers, ComputeDecision(h)
    PROVE  StoreInv'
<1>0. PICK u \in handlers[h].actors : \E q \in Decisions(handlers[h].seen.record, u) : Wants(h, q, FALSE)
  BY DEF ComputeDecision
<1>1. PICK r \in Decisions(handlers[h].seen.record, u) : Wants(h, r, FALSE)
  BY <1>0
<1>2. ReadComplete(h)
  BY DEF ComputeDecision
<1>3. handlers[h].seen.record.stage \notin Terminal /\ u \in Users
  BY <1>1, <1>2, ReadyToCompute, DecidedInReview
<1>4. Sound(handlers[h].seen.record)
  BY <1>2, <1>3, ReadyToCompute
<1>5. Continues(handlers[h].seen.record, r)
  BY <1>3, <1>4, DecisionContinues
<1>6. QED
  BY <1>1, <1>2, <1>5, WantsKeeps

\* The step that replaces the request leaves every other handler what it relies on.
LEMMA ReplaceRequestKeeps ==
    ASSUME StoreInv, NEW h \in Handlers, ReplaceRequest(h)
    PROVE  /\ StoreInv' /\ Replaced(h, stored, stored')
           /\ stored.record.stage \notin Terminal
<1> DEFINE s == handlers[h]
           acked == {s.wanted.auditIds[i] : i \in DOMAIN s.wanted.auditIds}
           t == [phase |-> "stored", correction |-> s.correction, acknowledged |-> acked]
<1>1. /\ s \in Computed /\ Seen(h, s.seen, {}, stored) /\ Wanted(h, s.seen, s.wanted)
  BY HandlerCases DEF ReplaceRequest, StoreInv, Relies
<1>2. /\ MayReplace(stored, s.wanted) /\ stored' \in ReadBackOrders(stored, s.wanted)
      /\ handlers' = [handlers EXCEPT ![h] = t]
      /\ UNCHANGED <<adapter, windowOpen, active>>
  BY DEF ReplaceRequest
<1>3. Proper(stored) /\ handlers \in [Handlers -> HandlerState]
  BY DEF StoreInv
<1>4. /\ Proper(stored') /\ Sound(stored'.record) /\ Replaced(h, stored, stored')
      /\ Ids(stored'.auditIds) = Ids(s.wanted.auditIds)
  BY <1>1, <1>2, <1>3, AcceptedReplacement
<1>5. acked = Ids(s.wanted.auditIds)
  BY DEF Ids
<1>6. acked \subseteq RowId
  BY <1>1, <1>5, SnapshotParts, RowIdsAt DEF Computed, Ids
<1>7. s.correction \in BOOLEAN
  BY <1>1 DEF Computed
<1> HIDE DEF acked, s
<1>8. t \in HandlerState /\ Relies(h, t, stored')
  BY <1>4, <1>5, <1>6, <1>7 DEF HandlerState, Acknowledged, Relies
<1> HIDE DEF t
<1>9. handlers' \in [Handlers -> HandlerState] /\ handlers'[h] = t
      /\ \A k \in Handlers \ {h} : handlers'[k] = handlers[k]
  BY <1>2, <1>3, <1>8
<1>10. ASSUME NEW k \in Handlers \ {h}
       PROVE  Relies(k, handlers[k], stored')
  <2>1. Relies(k, handlers[k], stored)
    BY DEF StoreInv
  <2>2. stored.auditIds \in Seq(RowId) /\ stored'.auditIds \in Seq(RowId)
    BY <1>3, <1>4, SnapshotParts DEF Proper
  <2>3. \A seen, missing : Seen(k, seen, missing, stored) => Seen(k, seen, missing, stored')
    BY <1>4, <2>2, SeenStays
  <2>4. Ids(stored.auditIds) \subseteq Ids(stored'.auditIds)
    BY <1>4 DEF Replaced
  <2>5. QED
    BY <2>1, <2>3, <2>4 DEF Relies
<1>11. StoreInv'
  BY <1>2, <1>4, <1>8, <1>9, <1>10 DEF StoreInv
<1>12. QED
  BY <1>2, <1>4, <1>11 DEF MayReplace

LEMMA BecomesIdle ==
    ASSUME StoreInv, NEW h \in Handlers, Respond(h) \/ Fail(h)
    PROVE  StoreInv'
<1>1. handlers' = [handlers EXCEPT ![h] = Idle] /\ UNCHANGED <<adapter, stored, windowOpen, active>>
  BY DEF Respond, Fail
<1>2. QED
  BY <1>1, IdleState, OneHandlerMoves

\* A step replaces the stored request by one that continues it, or leaves it alone.
LEMMA StoreStep ==
    ASSUME StoreInv, [Next]_vars
    PROVE  /\ StoreInv'
           /\ \/ UNCHANGED stored
              \/ /\ stored.record.stage \notin Terminal
                 /\ \E h \in Handlers : Replaced(h, stored, stored')
<1>1. ASSUME NEW h \in Handlers, HandlerStep(h)
      PROVE  /\ StoreInv'
             /\ \/ UNCHANGED stored
                \/ /\ stored.record.stage \notin Terminal
                   /\ Replaced(h, stored, stored')
  <2>1. CASE ReadRow(h)
    BY <2>1, ReadRowKeeps DEF ReadRow
  <2>2. CASE ReadAuditEvents(h)
    BY <2>2, ReadAuditEventsKeeps DEF ReadAuditEvents
  <2>3. CASE ReadPriceRevisions(h)
    BY <2>3, ReadPriceRevisionsKeeps DEF ReadPriceRevisions
  <2>4. CASE ComputeCorrection(h)
    BY <2>4, ComputeCorrectionKeeps DEF ComputeCorrection, Wants
  <2>5. CASE ComputeDecision(h)
    BY <2>5, ComputeDecisionKeeps DEF ComputeDecision, Wants
  <2>6. CASE ReplaceRequest(h)
    BY <2>6, ReplaceRequestKeeps
  <2>7. CASE Respond(h) \/ Fail(h)
    BY <2>7, BecomesIdle DEF Respond, Fail
  <2>8. QED
    BY <1>1, <2>1, <2>2, <2>3, <2>4, <2>5, <2>6, <2>7 DEF HandlerStep
<1>2. CASE CloseEditWindow
  BY <1>2 DEF CloseEditWindow, StoreInv
<1>3. ASSUME NEW listed \in SUBSET Leavers, ImportDirectory(listed)
      PROVE  StoreInv' /\ UNCHANGED stored
  BY <1>3, StoreAssumption DEF ImportDirectory, StoreInv
<1>4. CASE UNCHANGED vars
  BY <1>4 DEF vars, StoreInv
<1>5. QED
  BY <1>1, <1>2, <1>3, <1>4 DEF Next

\* The invariant of the store: whatever the handlers of both adapters have read
\* and want to write, what replaceRequest admits continues what is stored.
THEOREM SpecStoreInv == Spec => []StoreInv
<1>1. StoreInv /\ [Next]_vars => StoreInv'
  BY StoreStep
<1>2. QED
  BY <1>1, InitStoreInv, PTL DEF Spec

(***************************************************************************)
(* What follows for the stored request                                     *)
(***************************************************************************)

\* Types, and rows that can be told apart, in what is stored, seen and wanted
\* (requestRepository.ts, and replaceRequest in both adapters).
THEOREM StoreTypeCorrect == Spec => []TypeOK
<1>1. StoreInv => TypeOK
  <2> SUFFICES ASSUME StoreInv PROVE TypeOK
    OBVIOUS
  <2>1. stored \in SnapshotType /\ WellIdentified(stored)
    BY ProperWellIdentified DEF StoreInv, Proper
  <2>2. ASSUME NEW h \in Handlers
        PROVE  /\ handlers[h].phase \in {"idle", "reading", "computed", "stored"}
               /\ handlers[h].phase \in {"reading", "computed"} => handlers[h].seen \in SnapshotType
               /\ handlers[h].phase = "computed" =>
                     handlers[h].wanted \in SnapshotType /\ WellIdentified(handlers[h].wanted)
    <3>1. handlers[h] \in HandlerState
      BY DEF StoreInv
    <3>2. handlers[h].phase \in {"idle", "reading", "computed", "stored"}
      BY <3>1, HandlerCases
    <3>3. ASSUME handlers[h].phase = "reading"
          PROVE  handlers[h].seen \in SnapshotType
      BY <3>1, <3>3, HandlerCases DEF Reading
    <3>4. ASSUME handlers[h].phase = "computed"
          PROVE  /\ handlers[h].seen \in SnapshotType /\ handlers[h].wanted \in SnapshotType
                 /\ WellIdentified(handlers[h].wanted)
      <4>1. handlers[h] \in Computed
        BY <3>1, <3>4, HandlerCases
      <4>2. Proper(handlers[h].wanted)
        BY <3>4, WantedProper DEF StoreInv, Relies, Seen
      <4>3. QED
        BY <4>1, <4>2, ProperWellIdentified DEF Computed
    <3>5. QED
      BY <3>2, <3>3, <3>4
  <2>3. QED
    BY <2>1, <2>2 DEF StoreInv, TypeOK
<1>2. QED
  BY <1>1, SpecStoreInv, PTL

\* With either adapter, and however reads are torn, a request is completed only on
\* figures that were entered, at the price of the row that is stored
\* (finalizeRequest, replaceRequest).
THEOREM StoredFiguresPaid == Spec => []PaidOnStoredFigures
<1>1. StoreInv => PaidOnStoredFigures
  BY SoundRequestIsPaidAsVerified DEF StoreInv, PaidOnStoredFigures
<1>2. QED
  BY <1>1, SpecStoreInv, PTL

\* What was acknowledged is never taken from the history again (isAppendOnly,
\* replaceRequest).
THEOREM NothingAcknowledgedIsLost == Spec => AcknowledgedRowsStay
<1>1. StoreInv /\ [Next]_vars =>
        [\A h \in Handlers :
           handlers[h].phase = "stored" =>
             \A id \in handlers[h].acknowledged :
                \E i \in DOMAIN stored'.auditIds : stored'.auditIds[i] = id]_vars
  <2> SUFFICES ASSUME StoreInv, [Next]_vars, NEW h \in Handlers, handlers[h].phase = "stored",
                      NEW id \in handlers[h].acknowledged
               PROVE  \E i \in DOMAIN stored'.auditIds : stored'.auditIds[i] = id
    OBVIOUS
  <2>1. id \in Ids(stored.auditIds)
    BY DEF StoreInv, Relies
  <2>2. Ids(stored.auditIds) \subseteq Ids(stored'.auditIds)
    BY StoreStep DEF Replaced
  <2>3. QED
    BY <2>1, <2>2 DEF Ids
<1>2. QED
  BY <1>1, SpecStoreInv, PTL DEF Spec, AcknowledgedRowsStay

\* A completed or cancelled request is never replaced (the lock on the row, or the
\* lack of an await, in replaceRequest).
THEOREM TerminalIsLocked == Spec => TerminalStaysLocked
<1>1. StoreInv /\ [Next]_vars => [stored.record.stage \in Terminal => UNCHANGED stored]_vars
  BY StoreStep
<1>2. QED
  BY <1>1, SpecStoreInv, PTL DEF Spec, TerminalStaysLocked

(***************************************************************************)
(* With the memory adapter every call takes effect at once                 *)
(*                                                                         *)
(* RequestLifecycle has the rules of WorkflowService under its own names:  *)
(* they are the same ones.                                                 *)
(***************************************************************************)

LEMMA SameCorrectionEdits ==
    ASSUME NEW r
    PROVE  Lifecycle!CorrectionEdits(r) = CorrectionEdits(r)
BY DEF Lifecycle!CorrectionEdits, CorrectionEdits, Lifecycle!SameTripType, SameTripType

LEMMA SameCorrectionGuard ==
    ASSUME NEW r, NEW u, NEW e, NEW w, NEW a
    PROVE  Lifecycle!AcceptsCorrection(r, u, e, w, a) <=> AcceptsCorrection(r, u, e, w, a)
BY DEF Lifecycle!AcceptsCorrection, AcceptsCorrection, Lifecycle!CanCorrect, CanCorrect,
       Lifecycle!Permitted, Permitted, Lifecycle!EditableFields, EditableFields,
       Lifecycle!OwnerResolves, OwnerResolves

LEMMA SameCorrection ==
    ASSUME NEW r, NEW u, NEW e
    PROVE  Lifecycle!CorrectionOutcome(r, u, e) = CorrectionOutcome(r, u, e)
BY DEF Lifecycle!CorrectionOutcome, CorrectionOutcome, Lifecycle!EditRequest,
       EditRequest, Lifecycle!ChangesFor, ChangesFor, Lifecycle!Edited, Edited,
       Lifecycle!FieldName, FieldName, Lifecycle!NewAuditEvent, NewAuditEvent,
       Lifecycle!WithAuditEvent, WithAuditEvent

LEMMA SameApprovalEdits ==
    ASSUME NEW r, NEW u
    PROVE  Lifecycle!EditsWithApproval(r, Lifecycle!DepartmentRole(u))
             = EditsWithApproval(r, DepartmentRole(u))
BY DEF Lifecycle!EditsWithApproval, EditsWithApproval, Lifecycle!ApprovalEdits,
       ApprovalEdits, Lifecycle!Attendance, Attendance, Lifecycle!SameTripType,
       SameTripType, Lifecycle!NoEdits, NoEdits, Lifecycle!DepartmentRole,
       DepartmentRole, Lifecycle!RoleOrder, RoleOrder

LEMMA SameApprovalGuard ==
    ASSUME NEW r, NEW u, NEW e, NEW a
    PROVE  Lifecycle!AcceptsApproval(r, u, e, a) <=> AcceptsApproval(r, u, e, a)
BY DEF Lifecycle!AcceptsApproval, AcceptsApproval, Lifecycle!CanApprove, CanApprove,
       Lifecycle!CanEdit, CanEdit, Lifecycle!Terminal, Terminal,
       Lifecycle!HasDepartment, HasDepartment, Lifecycle!DepartmentRole, DepartmentRole,
       Lifecycle!RoleOrder, RoleOrder, Lifecycle!AssignedManager, AssignedManager,
       Lifecycle!ApprovalStage, ApprovalStage, Lifecycle!Permitted, Permitted,
       Lifecycle!EditableFields, EditableFields, Lifecycle!OwnerResolves, OwnerResolves

LEMMA SameApproval ==
    ASSUME NEW r, NEW u, NEW e
    PROVE  Lifecycle!ApprovalOutcome(r, u, e) = ApprovalOutcome(r, u, e)
BY DEF Lifecycle!ApprovalOutcome, ApprovalOutcome, Lifecycle!Approved, Approved,
       Lifecycle!NextStage, NextStage, Lifecycle!WithFinancialEdits, WithFinancialEdits,
       Lifecycle!NewRevision, NewRevision, Lifecycle!EditRequest, EditRequest,
       Lifecycle!ChangesFor, ChangesFor, Lifecycle!Edited, Edited, Lifecycle!FieldName,
       FieldName, Lifecycle!NewAuditEvent, NewAuditEvent, Lifecycle!WithAuditEvent,
       WithAuditEvent, Lifecycle!DepartmentRole, DepartmentRole, Lifecycle!RoleOrder,
       RoleOrder

LEMMA SameReviewEdits ==
    ASSUME NEW r, NEW u
    PROVE  Lifecycle!ReviewEdits(r, Lifecycle!DepartmentRole(u)) = ReviewEdits(r, DepartmentRole(u))
BY DEF Lifecycle!ReviewEdits, ReviewEdits, Lifecycle!SalaryEdits, SalaryEdits,
       Lifecycle!ApprovalEdits, ApprovalEdits, Lifecycle!Attendance, Attendance,
       Lifecycle!SameTripType, SameTripType, Lifecycle!DepartmentRole, DepartmentRole,
       Lifecycle!RoleOrder, RoleOrder

LEMMA SameReviewGuard ==
    ASSUME NEW r, NEW u, NEW e, NEW a
    PROVE  Lifecycle!AcceptsReview(r, u, e, a) <=> AcceptsReview(r, u, e, a)
BY DEF Lifecycle!AcceptsReview, AcceptsReview, Lifecycle!CanEdit, CanEdit,
       Lifecycle!Terminal, Terminal, Lifecycle!HasDepartment, HasDepartment,
       Lifecycle!DepartmentRole, DepartmentRole, Lifecycle!RoleOrder, RoleOrder,
       Lifecycle!AssignedManager, AssignedManager, Lifecycle!ApprovalStage,
       ApprovalStage, Lifecycle!Permitted, Permitted, Lifecycle!EditableFields,
       EditableFields, Lifecycle!OwnerResolves, OwnerResolves

LEMMA SameReview ==
    ASSUME NEW r, NEW u, NEW e
    PROVE  Lifecycle!ReviewOutcome(r, u, e) = ReviewOutcome(r, u, e)
BY DEF Lifecycle!ReviewOutcome, ReviewOutcome, Lifecycle!WithFinancialEdits,
       WithFinancialEdits, Lifecycle!NewRevision, NewRevision, Lifecycle!EditRequest,
       EditRequest, Lifecycle!ChangesFor, ChangesFor, Lifecycle!Edited, Edited,
       Lifecycle!FieldName, FieldName, Lifecycle!NewAuditEvent, NewAuditEvent,
       Lifecycle!WithAuditEvent, WithAuditEvent, Lifecycle!DepartmentRole,
       DepartmentRole, Lifecycle!RoleOrder, RoleOrder

LEMMA SameRejection ==
    ASSUME NEW r, NEW u
    PROVE  /\ Lifecycle!AcceptsRejection(r, u) <=> AcceptsRejection(r, u)
           /\ Lifecycle!RejectionOutcome(r, u) = RejectionOutcome(r, u)
BY DEF Lifecycle!AcceptsRejection, AcceptsRejection, Lifecycle!AssignedManager,
       AssignedManager, Lifecycle!CanReject, CanReject, Lifecycle!RejectionOutcome,
       RejectionOutcome, Lifecycle!Rejected, Rejected, Lifecycle!NewAuditEvent,
       NewAuditEvent, Lifecycle!WithAuditEvent, WithAuditEvent, Lifecycle!HasDepartment,
       HasDepartment, Lifecycle!DepartmentRole, DepartmentRole, Lifecycle!RoleOrder,
       RoleOrder

LEMMA SameInfoRequest ==
    ASSUME NEW r, NEW u
    PROVE  /\ Lifecycle!AcceptsInfoRequest(r, u) <=> AcceptsInfoRequest(r, u)
           /\ Lifecycle!InfoRequestOutcome(r, u) = InfoRequestOutcome(r, u)
BY DEF Lifecycle!AcceptsInfoRequest, AcceptsInfoRequest, Lifecycle!AssignedManager,
       AssignedManager, Lifecycle!InfoRequestOutcome, InfoRequestOutcome,
       Lifecycle!AskedForInfo, AskedForInfo, Lifecycle!NewAuditEvent, NewAuditEvent,
       Lifecycle!WithAuditEvent, WithAuditEvent, Lifecycle!HasDepartment, HasDepartment,
       Lifecycle!DepartmentRole, DepartmentRole, Lifecycle!RoleOrder, RoleOrder

LEMMA SameFinalization ==
    ASSUME NEW r, NEW u, NEW a
    PROVE  /\ Lifecycle!AcceptsFinalization(r, u, a) <=> AcceptsFinalization(r, u, a)
           /\ Lifecycle!FinalizationOutcome(r, u) = FinalizationOutcome(r, u)
BY DEF Lifecycle!AcceptsFinalization, AcceptsFinalization, Lifecycle!CanFinalize,
       CanFinalize, Lifecycle!OwnerResolves, OwnerResolves,
       Lifecycle!FinalizationOutcome, FinalizationOutcome, Lifecycle!Finalized,
       Finalized, Lifecycle!NewRevision, NewRevision, Lifecycle!NewAuditEvent,
       NewAuditEvent, Lifecycle!WithAuditEvent, WithAuditEvent, Lifecycle!HasDepartment,
       HasDepartment, Lifecycle!DepartmentRole, DepartmentRole, Lifecycle!RoleOrder,
       RoleOrder

LEMMA SameNewRequests == Lifecycle!NewRequests = NewRequests
BY DEF Lifecycle!NewRequests, NewRequests, Lifecycle!NewRequest, NewRequest,
       Lifecycle!SubmittedFields, SubmittedFields

\* The bound of RequestLifecycle, on record r.
Bound(r, e) ==
    EventsAtStage(r) < EditsPerStage \/ ("ticketVerified" \in DOMAIN e /\ ~r.fields.ticketVerified)

LEMMA SameCardinality ==
    ASSUME NEW S
    PROVE  Lifecycle!Cardinality(S) = Cardinality(S)
BY DEF Lifecycle!Cardinality, Cardinality

LEMMA SameEvents ==
    ASSUME NEW r
    PROVE  Lifecycle!EventsAtStage(r) = EventsAtStage(r)
BY SameCardinality DEF Lifecycle!EventsAtStage, EventsAtStage

LEMMA SameNoEdits == Lifecycle!NoEdits = NoEdits
BY DEF Lifecycle!NoEdits, NoEdits

LEMMA SameBound ==
    ASSUME NEW e
    PROVE  Lifecycle!WithinBound(e) <=> Bound(stored.record, e)
BY SameEvents DEF Lifecycle!WithinBound, Bound

LEMMA MemoryBound ==
    ASSUME adapter = "memory", NEW r, NEW e, WithinBound(r, e)
    PROVE  Bound(r, e)
BY DEF WithinBound, Bound

\* What one correction, or one call of a department, makes of record r when nobody
\* has left the company.
MayCorrect(r, q) ==
    \E u \in Users : \E e \in CorrectionEdits(r) :
        Bound(r, e) /\ AcceptsCorrection(r, u, e, TRUE, Users) /\ q = CorrectionOutcome(r, u, e)

Deciding(r, u, q) ==
    \/ \E e \in EditsWithApproval(r, DepartmentRole(u)) :
          AcceptsApproval(r, u, e, Users) /\ q = ApprovalOutcome(r, u, e)
    \/ \E e \in ReviewEdits(r, DepartmentRole(u)) :
          Bound(r, e) /\ AcceptsReview(r, u, e, Users) /\ q = ReviewOutcome(r, u, e)
    \/ AcceptsRejection(r, u) /\ q = RejectionOutcome(r, u)
    \/ Bound(r, NoEdits) /\ AcceptsInfoRequest(r, u) /\ q = InfoRequestOutcome(r, u)
    \/ AcceptsFinalization(r, u, Users) /\ q = FinalizationOutcome(r, u)

MayDecide(r, q) == \E u \in Users : HasDepartment(u) /\ Deciding(r, u, q)

LEMMA CorrectionIsAtomic ==
    ASSUME active = Users, WindowHeld, MayCorrect(stored.record, stored'.record),
           WindowHeld' = WindowHeld, active' = active
    PROVE  Lifecycle!Next
<1>1. PICK u \in Users, e \in CorrectionEdits(stored.record) :
        /\ Bound(stored.record, e) /\ AcceptsCorrection(stored.record, u, e, TRUE, Users)
        /\ stored'.record = CorrectionOutcome(stored.record, u, e)
  BY DEF MayCorrect
<1>2. WindowHeld = TRUE
  BY DEF WindowHeld
<1>3. AcceptsCorrection(stored.record, u, e, WindowHeld, active)
  BY <1>1, <1>2
<1>4. /\ e \in Lifecycle!CorrectionEdits(stored.record) /\ Lifecycle!WithinBound(e)
      /\ Lifecycle!AcceptsCorrection(stored.record, u, e, WindowHeld, active)
      /\ stored'.record = Lifecycle!CorrectionOutcome(stored.record, u, e)
  BY <1>1, <1>3, SameCorrectionEdits, SameCorrectionGuard, SameCorrection, SameBound
<1>5. Lifecycle!CorrectRequest(u)
  BY <1>4 DEF Lifecycle!CorrectRequest
<1>6. QED
  BY <1>5 DEF Lifecycle!Next

LEMMA DecisionIsAtomic ==
    ASSUME active = Users, MayDecide(stored.record, stored'.record),
           WindowHeld' = WindowHeld, active' = active
    PROVE  Lifecycle!Next
<1> DEFINE r == stored.record
           q == stored'.record
<1>1. PICK u \in Users : HasDepartment(u) /\ Deciding(r, u, q)
  BY DEF MayDecide
<1> SUFFICES Lifecycle!DepartmentStep(u)
  BY <1>1 DEF Lifecycle!Next
<1>2. Lifecycle!HasDepartment(u)
  BY <1>1 DEF Lifecycle!HasDepartment, HasDepartment
<1>3. ASSUME NEW e \in EditsWithApproval(r, DepartmentRole(u)),
             AcceptsApproval(r, u, e, Users), q = ApprovalOutcome(r, u, e)
      PROVE  Lifecycle!ApproveRequest(u)
  BY <1>3, SameApprovalEdits, SameApprovalGuard, SameApproval DEF Lifecycle!ApproveRequest
<1>4. ASSUME NEW e \in ReviewEdits(r, DepartmentRole(u)), Bound(r, e),
             AcceptsReview(r, u, e, Users), q = ReviewOutcome(r, u, e)
      PROVE  Lifecycle!ReviewRequest(u)
  BY <1>4, SameReviewEdits, SameReviewGuard, SameReview, SameBound DEF Lifecycle!ReviewRequest
<1>5. ASSUME AcceptsRejection(r, u), q = RejectionOutcome(r, u)
      PROVE  Lifecycle!RejectRequest(u)
  BY <1>5, SameRejection DEF Lifecycle!RejectRequest
<1>6. ASSUME Bound(r, NoEdits), AcceptsInfoRequest(r, u), q = InfoRequestOutcome(r, u)
      PROVE  Lifecycle!RequestMoreInfo(u)
  BY <1>6, SameInfoRequest, SameBound, SameNoEdits DEF Lifecycle!RequestMoreInfo
<1>7. ASSUME AcceptsFinalization(r, u, Users), q = FinalizationOutcome(r, u)
      PROVE  Lifecycle!FinalizeRequest(u)
  BY <1>7, SameFinalization DEF Lifecycle!FinalizeRequest
<1>8. QED
  BY <1>1, <1>2, <1>3, <1>4, <1>5, <1>6, <1>7 DEF Deciding, Lifecycle!DepartmentStep

\* A handler of the memory adapter has seen the whole record as it is, unless an
\* event has been added since, and what it wants follows from what it has seen.
Fresh(seen, now) == seen.auditIds = now.auditIds => seen = now

Follows(s) ==
    \/ s.correction /\ MayCorrect(s.seen.record, s.wanted.record)
    \/ ~s.correction /\ MayDecide(s.seen.record, s.wanted.record)

InMemory(s, now) ==
    /\ s.phase = "reading" => s.missing = {} /\ Fresh(s.seen, now)
    /\ s.phase = "computed" => Fresh(s.seen, now) /\ Follows(s)

MemoryInv ==
    /\ StoreInv
    /\ adapter = "memory" =>
         active = Users /\ \A h \in Handlers : InMemory(handlers[h], stored)

\* Handler state s keeps the window open for the abstract request.
Holds(s) == s.phase \in {"computed", "stored"} /\ s.correction

LEMMA HeldByHandlers == WindowHeld <=> (windowOpen \/ \E h \in Handlers : Holds(handlers[h]))
BY DEF WindowHeld, Holds

\* One handler moves from its state to s.
LEMMA WindowStays ==
    ASSUME handlers \in [Handlers -> HandlerState], NEW h \in Handlers, NEW s,
           handlers' = [handlers EXCEPT ![h] = s], windowOpen' = windowOpen,
           Holds(s) <=> Holds(handlers[h])
    PROVE  WindowHeld' = WindowHeld
<1>1. handlers'[h] = s /\ \A k \in Handlers \ {h} : handlers'[k] = handlers[k]
  OBVIOUS
<1>2. \A k \in Handlers : Holds(handlers'[k]) <=> Holds(handlers[k])
  BY <1>1
<1>3. WindowHeld' <=> (windowOpen' \/ \E k \in Handlers : Holds(handlers'[k]))
  BY DEF WindowHeld, Holds
<1>4. WindowHeld' <=> WindowHeld
  BY <1>2, <1>3, HeldByHandlers
<1>5. QED
  BY <1>4 DEF WindowHeld

LEMMA OneHandlerInMemory ==
    ASSUME MemoryInv, StoreInv', adapter = "memory", NEW h \in Handlers, NEW s,
           InMemory(s, stored), handlers' = [handlers EXCEPT ![h] = s],
           UNCHANGED <<adapter, stored, windowOpen, active>>
    PROVE  MemoryInv'
<1>1. handlers'[h] = s /\ \A k \in Handlers \ {h} : handlers'[k] = handlers[k]
  BY DEF MemoryInv, StoreInv
<1>2. \A k \in Handlers : InMemory(handlers'[k], stored')
  BY <1>1 DEF MemoryInv
<1>3. QED
  BY <1>2 DEF MemoryInv

\* What the abstract request makes of a step that leaves the record alone.
LEMMA StuttersIfHeld ==
    ASSUME UNCHANGED <<stored, active>>, WindowHeld' = WindowHeld
    PROVE  UNCHANGED Lifecycle!vars
BY DEF Lifecycle!vars

LEMMA ReadRowInMemory ==
    ASSUME MemoryInv, adapter = "memory", NEW h \in Handlers, ReadRow(h)
    PROVE  MemoryInv' /\ UNCHANGED Lifecycle!vars
<1> DEFINE s == [phase |-> "reading", actors |-> active, seen |-> stored, missing |-> {}]
<1>1. /\ handlers[h].phase = "idle" /\ handlers' = [handlers EXCEPT ![h] = s]
      /\ UNCHANGED <<adapter, stored, windowOpen, active>>
  BY DEF ReadRow
<1>2. StoreInv'
  BY ReadRowKeeps DEF MemoryInv
<1>3. InMemory(s, stored)
  BY DEF InMemory, Fresh
<1>4. Holds(s) <=> Holds(handlers[h])
  BY <1>1 DEF Holds
<1> HIDE DEF s
<1>5. MemoryInv'
  BY <1>1, <1>2, <1>3, OneHandlerInMemory
<1>6. WindowHeld' = WindowHeld
  BY <1>1, <1>4, WindowStays DEF MemoryInv, StoreInv
<1>7. QED
  BY <1>1, <1>5, <1>6, StuttersIfHeld

\* The memory adapter leaves nothing to read later.
LEMMA WholeRead ==
    ASSUME MemoryInv, adapter = "memory", NEW h \in Handlers
    PROVE  ~ReadAuditEvents(h) /\ ~ReadPriceRevisions(h)
BY DEF MemoryInv, InMemory, ReadAuditEvents, ReadPriceRevisions

\* A handler computes: the window is held before and after, or neither.
LEMMA WantsInMemory ==
    ASSUME MemoryInv, adapter = "memory", NEW h \in Handlers, ReadComplete(h), StoreInv',
           NEW record, NEW isCorrection \in BOOLEAN, Wants(h, record, isCorrection),
           isCorrection => windowOpen /\ MayCorrect(handlers[h].seen.record, record),
           ~isCorrection => MayDecide(handlers[h].seen.record, record)
    PROVE  MemoryInv' /\ UNCHANGED Lifecycle!vars
<1> DEFINE seen == handlers[h].seen
           wanted == WithIds(h, seen, record)
           s == [phase |-> "computed", correction |-> isCorrection, seen |-> seen, wanted |-> wanted]
<1>1. /\ handlers[h].phase = "reading" /\ handlers' = [handlers EXCEPT ![h] = s]
      /\ UNCHANGED <<adapter, stored, windowOpen, active>>
  BY DEF ReadComplete, Wants
<1>2. wanted.record = record
  BY DEF WithIds, Snapshot
<1>3. Fresh(seen, stored)
  BY <1>1 DEF MemoryInv, InMemory
<1> HIDE DEF wanted
<1>4. Follows(s)
  BY <1>2 DEF Follows
<1>5. InMemory(s, stored)
  BY <1>3, <1>4 DEF InMemory
<1>6. ~Holds(handlers[h]) /\ (Holds(s) <=> isCorrection)
  BY <1>1 DEF Holds
<1>7. handlers \in [Handlers -> HandlerState]
  BY DEF MemoryInv, StoreInv
<1> HIDE DEF s
<1>8. MemoryInv'
  BY <1>1, <1>5, OneHandlerInMemory
<1>9. WindowHeld' = WindowHeld
  <2>1. CASE isCorrection
    <3>1. windowOpen /\ windowOpen'
      BY <1>1, <2>1
    <3>2. QED
      BY <3>1 DEF WindowHeld
  <2>2. CASE ~isCorrection
    BY <1>1, <1>6, <1>7, <2>2, WindowStays
  <2>3. QED
    BY <2>1, <2>2
<1>10. QED
  BY <1>1, <1>8, <1>9, StuttersIfHeld

LEMMA ComputeCorrectionInMemory ==
    ASSUME MemoryInv, adapter = "memory", NEW h \in Handlers, ComputeCorrection(h)
    PROVE  MemoryInv' /\ UNCHANGED Lifecycle!vars
<1> DEFINE r == handlers[h].seen.record
<1>1. ReadComplete(h) /\ StoreInv' /\ StoreInv
  BY ComputeCorrectionKeeps DEF ComputeCorrection, MemoryInv
<1>2. PICK u \in handlers[h].actors : \E q \in Corrections(r, u) : Wants(h, q, TRUE)
  BY DEF ComputeCorrection
<1>3. PICK q \in Corrections(r, u) : Wants(h, q, TRUE)
  BY <1>2
<1>4. u \in Users /\ active = Users /\ windowOpen \in BOOLEAN
  BY <1>1, ReadyToCompute DEF MemoryInv, StoreInv
<1>5. PICK e \in CorrectionEdits(r) :
        /\ WithinBound(r, e) /\ AcceptsCorrection(r, u, e, windowOpen, active)
        /\ q = CorrectionOutcome(r, u, e)
  BY CorrectionCases
<1>6. windowOpen = TRUE
  BY <1>4, <1>5 DEF AcceptsCorrection, CanCorrect
<1>7. AcceptsCorrection(r, u, e, TRUE, Users) /\ Bound(r, e)
  BY <1>4, <1>5, <1>6, MemoryBound
<1>8. MayCorrect(r, q)
  BY <1>4, <1>5, <1>7 DEF MayCorrect
<1>9. QED
  BY <1>1, <1>3, <1>6, <1>8, WantsInMemory

LEMMA ComputeDecisionInMemory ==
    ASSUME MemoryInv, adapter = "memory", NEW h \in Handlers, ComputeDecision(h)
    PROVE  MemoryInv' /\ UNCHANGED Lifecycle!vars
<1> DEFINE r == handlers[h].seen.record
<1>1. ReadComplete(h) /\ StoreInv' /\ StoreInv
  BY ComputeDecisionKeeps DEF ComputeDecision, MemoryInv
<1>2. PICK u \in handlers[h].actors : \E q \in Decisions(r, u) : Wants(h, q, FALSE)
  BY DEF ComputeDecision
<1>3. PICK q \in Decisions(r, u) : Wants(h, q, FALSE)
  BY <1>2
<1>4. u \in Users /\ active = Users
  BY <1>1, ReadyToCompute DEF MemoryInv
<1>5. HasDepartment(u)
  BY DecisionCases
<1>6. Deciding(r, u, q)
  BY <1>4, DecisionCases, MemoryBound DEF Deciding
<1>7. MayDecide(r, q)
  BY <1>4, <1>5, <1>6 DEF MayDecide
<1>8. QED
  BY <1>1, <1>3, <1>7, WantsInMemory

\* A replacement that adds no event stores what is stored.
LEMMA NothingAdded ==
    ASSUME NEW h \in Handlers, NEW now, Proper(now), NEW wanted, Wanted(h, now, wanted),
           Len(wanted.auditIds) = Len(now.auditIds)
    PROVE  wanted = now
<1>1. /\ now.record \in TravelRequest /\ now.auditIds \in Seq(RowId)
      /\ now.revisionIds \in Seq([by : Handlers, at : Nat])
      /\ now = Snapshot(now.record, now.auditIds, now.revisionIds)
      /\ Len(now.auditIds) = Len(now.record.audit)
      /\ Len(now.revisionIds) = Len(now.record.priceRevisions)
  BY SnapshotParts DEF Proper
<1>2. Len(now.auditIds) \in Nat /\ Len(now.revisionIds) \in Nat
  BY <1>1, LenProperties
<1>3. Proper(wanted)
  BY WantedProper
<1>4. wanted.record = now.record
  BY <1>1, <1>3 DEF Wanted, Continues, Proper
<1>5. /\ wanted = Snapshot(now.record, WithNewIds(h, now.auditIds, Len(now.auditIds)),
                           WithNewIds(h, now.revisionIds, Len(now.revisionIds)))
  BY <1>1, <1>4 DEF Wanted, WithIds
<1>6. WithNewIds(h, now.auditIds, Len(now.auditIds)) = now.auditIds
  <2> DEFINE a == WithNewIds(h, now.auditIds, Len(now.auditIds))
  <2>1. Len(a) = Len(now.auditIds) /\ \A i \in 1..Len(now.auditIds) : a[i] = now.auditIds[i]
    BY <1>2, NewIdsAt
  <2>2. a \in Seq(RowId)
    BY <1>1, <1>2, NewIdsType
  <2> HIDE DEF a
  <2>3. a = now.auditIds
    BY <1>1, <2>1, <2>2, SeqEqual
  <2>4. QED
    BY <2>3 DEF a
<1>7. WithNewIds(h, now.revisionIds, Len(now.revisionIds)) = now.revisionIds
  <2> DEFINE b == WithNewIds(h, now.revisionIds, Len(now.revisionIds))
  <2>1. Len(b) = Len(now.revisionIds) /\ \A i \in 1..Len(now.revisionIds) : b[i] = now.revisionIds[i]
    BY <1>2, NewIdsAt
  <2>2. b \in Seq(RowId) /\ now.revisionIds \in Seq(RowId)
    BY <1>1, <1>2, NewIdsType, RevisionIds
  <2> HIDE DEF b
  <2>3. b = now.revisionIds
    BY <2>1, <2>2, SeqEqual
  <2>4. QED
    BY <2>3 DEF b
<1>8. QED
  BY <1>1, <1>5, <1>6, <1>7

\* What another handler has seen of the record is no longer what is stored, unless
\* nothing was added.
LEMMA FreshStays ==
    ASSUME NEW now, now.auditIds \in Seq(RowId), NEW next, next.auditIds \in Seq(RowId),
           NEW seen, seen.auditIds \in Seq(RowId), Len(seen.auditIds) <= Len(now.auditIds),
           Len(now.auditIds) <= Len(next.auditIds),
           Len(now.auditIds) = Len(next.auditIds) => next = now, Fresh(seen, now)
    PROVE  Fresh(seen, next)
<1>1. /\ Len(now.auditIds) \in Nat /\ Len(next.auditIds) \in Nat
      /\ Len(seen.auditIds) \in Nat
  BY LenProperties
<1>2. seen.auditIds = next.auditIds => Len(now.auditIds) = Len(next.auditIds)
  BY <1>1
<1>3. QED
  BY <1>2 DEF Fresh

\* With the memory adapter the replacement is one step of the abstract request.
LEMMA ReplaceRequestInMemory ==
    ASSUME MemoryInv, adapter = "memory", NEW h \in Handlers, ReplaceRequest(h)
    PROVE  MemoryInv' /\ Lifecycle!Next
<1> DEFINE s == handlers[h]
           acked == {s.wanted.auditIds[i] : i \in DOMAIN s.wanted.auditIds}
           t == [phase |-> "stored", correction |-> s.correction, acknowledged |-> acked]
<1>1. /\ s.phase = "computed" /\ s \in Computed
      /\ Seen(h, s.seen, {}, stored) /\ Wanted(h, s.seen, s.wanted)
      /\ Fresh(s.seen, stored) /\ Follows(s)
  BY HandlerCases DEF ReplaceRequest, StoreInv, Relies, MemoryInv, InMemory
<1>2. /\ MayReplace(stored, s.wanted) /\ stored' \in ReadBackOrders(stored, s.wanted)
      /\ handlers' = [handlers EXCEPT ![h] = t]
      /\ UNCHANGED <<adapter, windowOpen, active>>
  BY DEF ReplaceRequest
<1>3. /\ Proper(stored) /\ handlers \in [Handlers -> HandlerState] /\ active = Users
      /\ \A k \in Handlers : Relies(k, handlers[k], stored) /\ InMemory(handlers[k], stored)
  BY DEF StoreInv, MemoryInv
<1>4. /\ StoreInv' /\ Replaced(h, stored, stored')
  BY ReplaceRequestKeeps DEF MemoryInv
<1>5. s.seen = stored
  BY <1>1, <1>2, <1>3, AcceptedOnSeen DEF Fresh
<1>6. stored' = s.wanted
  BY <1>2 DEF ReadBackOrders
<1>7. Holds(t) <=> Holds(s)
  BY <1>1 DEF Holds
<1> HIDE DEF acked
<1>8. t.phase = "stored"
  OBVIOUS
<1> HIDE DEF t, s
<1>9. WindowHeld' = WindowHeld
  BY <1>2, <1>3, <1>7, WindowStays DEF s
<1>10. Lifecycle!Next
  <2>1. CASE s.correction /\ MayCorrect(s.seen.record, s.wanted.record)
    <3>1. WindowHeld
      BY <1>1, <2>1 DEF WindowHeld, s
    <3>2. MayCorrect(stored.record, stored'.record)
      BY <1>5, <1>6, <2>1
    <3>3. QED
      BY <1>2, <1>3, <1>9, <3>1, <3>2, CorrectionIsAtomic
  <2>2. CASE MayDecide(s.seen.record, s.wanted.record)
    <3>1. MayDecide(stored.record, stored'.record)
      BY <1>5, <1>6, <2>2
    <3>2. QED
      BY <1>2, <1>3, <1>9, <3>1, DecisionIsAtomic
  <2>3. QED
    BY <1>1, <2>1, <2>2 DEF Follows
<1>11. /\ stored.auditIds \in Seq(RowId) /\ stored'.auditIds \in Seq(RowId)
       /\ Len(stored.auditIds) <= Len(stored'.auditIds)
       /\ Len(stored.auditIds) = Len(stored'.auditIds) => stored' = stored
  <2>1. Proper(stored')
    BY <1>4 DEF StoreInv
  <2>2. Len(stored.auditIds) = Len(stored'.auditIds) => stored' = stored
    BY <1>1, <1>3, <1>5, <1>6, NothingAdded
  <2>3. QED
    BY <1>3, <1>4, <2>1, <2>2, SnapshotParts DEF Proper, Replaced
<1>12. ASSUME NEW k \in Handlers \ {h}
       PROVE  InMemory(handlers[k], stored')
  <2>1. ASSUME handlers[k].phase = "reading" \/ handlers[k].phase = "computed"
        PROVE  Fresh(handlers[k].seen, stored')
    <3>1. Seen(k, handlers[k].seen, {}, stored) /\ Fresh(handlers[k].seen, stored)
      BY <1>3, <2>1 DEF Relies, InMemory
    <3>2. handlers[k].seen.auditIds \in Seq(RowId)
      BY <3>1, SnapshotParts DEF Seen, Proper
    <3>3. Len(handlers[k].seen.auditIds) <= Len(stored.auditIds)
      BY <3>1 DEF Seen, TrailSeen
    <3>4. QED
      BY <1>11, <3>1, <3>2, <3>3, FreshStays
  <2>2. QED
    BY <1>3, <2>1 DEF InMemory
<1>13. InMemory(t, stored')
  BY <1>8 DEF InMemory
<1>14. \A k \in Handlers : InMemory(handlers'[k], stored')
  BY <1>2, <1>3, <1>12, <1>13
<1>15. MemoryInv'
  BY <1>2, <1>3, <1>4, <1>14 DEF MemoryInv
<1>16. QED
  BY <1>10, <1>15

\* For the abstract request the window closes with the clock, unless a handler still
\* holds a correction, and otherwise when the last of these is done.
LEMMA WindowMayClose ==
    ASSUME UNCHANGED <<stored, active>>, WindowHeld' => WindowHeld
    PROVE  [Lifecycle!Next]_(Lifecycle!vars)
<1>1. CASE WindowHeld /\ ~WindowHeld'
  <2>1. WindowHeld' = FALSE
    BY <1>1 DEF WindowHeld
  <2>2. Lifecycle!CloseEditWindow
    BY <1>1, <2>1 DEF Lifecycle!CloseEditWindow
  <2>3. QED
    BY <2>2 DEF Lifecycle!Next
<1>2. CASE WindowHeld' <=> WindowHeld
  <2>1. WindowHeld' = WindowHeld
    BY <1>2 DEF WindowHeld
  <2>2. QED
    BY <2>1, StuttersIfHeld
<1>3. QED
  BY <1>1, <1>2

LEMMA BecomesIdleInMemory ==
    ASSUME MemoryInv, adapter = "memory", NEW h \in Handlers, Respond(h) \/ Fail(h)
    PROVE  MemoryInv' /\ [Lifecycle!Next]_(Lifecycle!vars)
<1>1. handlers' = [handlers EXCEPT ![h] = Idle] /\ UNCHANGED <<adapter, stored, windowOpen, active>>
  BY DEF Respond, Fail
<1>2. StoreInv' /\ handlers \in [Handlers -> HandlerState]
  BY BecomesIdle DEF MemoryInv, StoreInv
<1>3. InMemory(Idle, stored) /\ ~Holds(Idle)
  BY DEF InMemory, Idle, Holds
<1>4. MemoryInv'
  BY <1>1, <1>2, <1>3, OneHandlerInMemory
<1>5. \A k \in Handlers : Holds(handlers'[k]) => Holds(handlers[k])
  BY <1>1, <1>2, <1>3
<1>6. WindowHeld' <=> (windowOpen' \/ \E k \in Handlers : Holds(handlers'[k]))
  BY DEF WindowHeld, Holds
<1>7. WindowHeld' => WindowHeld
  BY <1>1, <1>5, <1>6, HeldByHandlers
<1>8. QED
  BY <1>1, <1>4, <1>7, WindowMayClose

LEMMA CloseEditWindowInMemory ==
    ASSUME MemoryInv, CloseEditWindow
    PROVE  MemoryInv' /\ [Lifecycle!Next]_(Lifecycle!vars)
<1>1. /\ windowOpen /\ windowOpen' = FALSE
      /\ UNCHANGED <<adapter, stored, handlers, active>>
  BY DEF CloseEditWindow
<1>2. MemoryInv'
  BY <1>1 DEF MemoryInv, StoreInv
<1>3. WindowHeld' => WindowHeld
  BY <1>1 DEF WindowHeld
<1>4. QED
  BY <1>1, <1>2, <1>3, WindowMayClose

LEMMA MemoryStep ==
    ASSUME MemoryInv, [Next]_vars, adapter = "memory"
    PROVE  MemoryInv' /\ [Lifecycle!Next]_(Lifecycle!vars)
<1>1. ASSUME NEW h \in Handlers, HandlerStep(h)
      PROVE  MemoryInv' /\ [Lifecycle!Next]_(Lifecycle!vars)
  <2>1. CASE ReadRow(h)
    BY <2>1, ReadRowInMemory
  <2>2. CASE ReadAuditEvents(h) \/ ReadPriceRevisions(h)
    BY <2>2, WholeRead
  <2>3. CASE ComputeCorrection(h)
    BY <2>3, ComputeCorrectionInMemory
  <2>4. CASE ComputeDecision(h)
    BY <2>4, ComputeDecisionInMemory
  <2>5. CASE ReplaceRequest(h)
    BY <2>5, ReplaceRequestInMemory
  <2>6. CASE Respond(h) \/ Fail(h)
    BY <2>6, BecomesIdleInMemory
  <2>7. QED
    BY <1>1, <2>1, <2>2, <2>3, <2>4, <2>5, <2>6 DEF HandlerStep
<1>2. CASE CloseEditWindow
  BY <1>2, CloseEditWindowInMemory
<1>3. ASSUME NEW listed \in SUBSET Leavers
      PROVE  ~ImportDirectory(listed)
  BY DEF ImportDirectory
<1>4. CASE UNCHANGED vars
  <2>1. UNCHANGED <<adapter, stored, handlers, windowOpen, active>>
    BY <1>4 DEF vars
  <2>2. MemoryInv'
    BY <2>1 DEF MemoryInv, StoreInv
  <2>3. WindowHeld' => WindowHeld
    BY <2>1 DEF WindowHeld
  <2>4. QED
    BY <2>1, <2>2, <2>3, WindowMayClose
<1>5. QED
  BY <1>1, <1>2, <1>3, <1>4 DEF Next

LEMMA InitInMemory == Init => MemoryInv /\ Lifecycle!Init
<1> SUFFICES ASSUME Init PROVE MemoryInv /\ Lifecycle!Init
  OBVIOUS
<1>1. MemoryInv
  <2>1. \A h \in Handlers : handlers[h] = Idle
    BY DEF Init
  <2>2. \A h \in Handlers : InMemory(handlers[h], stored)
    BY <2>1 DEF InMemory, Idle
  <2>3. active = Users
    BY DEF Init
  <2>4. QED
    BY <2>2, <2>3, InitStoreInv DEF MemoryInv
<1>2. stored.record \in NewRequests
  BY DEF Init, Snapshot
<1>3. WindowHeld = TRUE /\ active = Users
  BY DEF Init, WindowHeld
<1>4. QED
  BY <1>1, <1>2, <1>3, SameNewRequests DEF Lifecycle!Init

\* The adapter is chosen once.
LEMMA AdapterStays ==
    ASSUME [Next]_vars
    PROVE  adapter' = adapter
<1>1. ASSUME NEW h \in Handlers, HandlerStep(h)
      PROVE  adapter' = adapter
  BY <1>1 DEF HandlerStep, ReadRow, ReadAuditEvents, ReadPriceRevisions, ComputeCorrection,
              ComputeDecision, Wants, ReplaceRequest, Respond, Fail
<1>2. QED
  BY <1>1 DEF Next, vars, CloseEditWindow, ImportDirectory

\* With the memory adapter what a handler holds is the stored record as it was
\* at one moment, and what it wants is one call of the lifecycle on it.
THEOREM SpecMemoryInv == Spec => []MemoryInv
<1>1. MemoryInv /\ [Next]_vars => MemoryInv'
  <2> SUFFICES ASSUME MemoryInv, [Next]_vars PROVE MemoryInv'
    OBVIOUS
  <2>1. CASE adapter = "memory"
    BY <2>1, MemoryStep
  <2>2. CASE adapter # "memory"
    <3>1. adapter' = adapter
      BY AdapterStays
    <3>2. StoreInv'
      BY StoreStep DEF MemoryInv
    <3>3. QED
      BY <2>2, <3>1, <3>2 DEF MemoryInv
  <2>3. QED
    BY <2>1, <2>2
<1>2. QED
  BY <1>1, InitInMemory, PTL DEF Spec

\* With the memory adapter the handlers, however they interleave, are the abstract
\* request: each of their steps is one call, the end of the edit window, or nothing
\* (findRequestById, replaceRequest, isAppendOnly in memoryStore.ts).
THEOREM MemoryActsAtomically == Spec => ActsAtomically
<1>1. Init => (adapter = "memory" => Lifecycle!Init)
  BY InitInMemory
<1>2. MemoryInv /\ [Next]_vars => [adapter = "memory" => [Lifecycle!Next]_(Lifecycle!vars)]_vars
  BY MemoryStep
<1>3. QED
  BY <1>1, <1>2, SpecMemoryInv, PTL DEF Spec, ActsAtomically

\* A process started with the memory adapter implements the abstract specification.
THEOREM MemoryImplementsLifecycle == Spec /\ adapter = "memory" => Lifecycle!Spec
<1> DEFINE Inv == MemoryInv /\ adapter = "memory"
<1>1. Init /\ adapter = "memory" => Inv /\ Lifecycle!Init
  BY InitInMemory
<1>2. Inv /\ [Next]_vars => Inv' /\ [Lifecycle!Next]_(Lifecycle!vars)
  BY MemoryStep, AdapterStays
<1> HIDE DEF Inv
<1>3. QED
  BY <1>1, <1>2, PTL DEF Spec, Lifecycle!Spec
=============================================================================
