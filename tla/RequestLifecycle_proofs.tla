--------------------- MODULE RequestLifecycle_proofs ---------------------
(* Theorems of RequestLifecycle, for every company, itinerary and price rule,  *)
(* and of TravelAllowance, which is RequestLifecycle with a calendar and the   *)
(* rates: only the theorems that name AllowanceParameters are about these.     *)
EXTENDS TravelAllowance, WorkflowService_proofs, FiniteSetTheorems

(***************************************************************************)
(* What an event leaves of the history                                     *)
(***************************************************************************)

WellKept(r) ==
    /\ ContiguousTrail(r)
    /\ SignedOnceInOrder(r)
    /\ TrailExplainsFields(r)

\* The trail with one more event.
LEMMA AppendedEvent ==
    ASSUME NEW r, r.audit \in Seq(AuditEvent), NEW e, NEW q, Records(r, e, q)
    PROVE  /\ Len(r.audit) \in Nat /\ Len(q.audit) = Len(r.audit) + 1
           /\ DOMAIN r.audit = 1..Len(r.audit)
           /\ DOMAIN q.audit = 1..(Len(r.audit) + 1)
           /\ q.audit[Len(r.audit) + 1] = e
           /\ \A i \in 1..Len(r.audit) : q.audit[i] = r.audit[i]
<1>1. e \in AuditEvent /\ q.audit = Append(r.audit, e)
  BY DEF Records
<1>2. q.audit \in Seq(AuditEvent)
  BY <1>1, AppendProperties
<1>3. QED
  BY <1>1, <1>2, AppendProperties, LenProperties

\* A trail stays contiguous with every event that is recorded.
LEMMA EventKeepsTrail ==
    ASSUME NEW r, r.audit \in Seq(AuditEvent), NEW e, NEW q, Records(r, e, q),
           ContiguousTrail(r)
    PROVE  ContiguousTrail(q)
<1> DEFINE n == Len(r.audit)
<1>1. /\ n \in Nat /\ n >= 1 /\ Len(q.audit) = n + 1 /\ q.audit[n + 1] = e
      /\ \A i \in 1..n : q.audit[i] = r.audit[i]
  BY AppendedEvent DEF ContiguousTrail
<1>2. /\ e.from = r.stage /\ e.to = q.stage /\ e.action # "submit"
      /\ r.audit[n].to = r.stage
  BY DEF Records, ContiguousTrail
<1>3. q.audit[1].from = "none" /\ q.audit[1].to = "manager-review"
  BY <1>1 DEF ContiguousTrail
<1>4. ASSUME NEW i \in 1..(n + 1)
      PROVE  q.audit[i].action = "submit" <=> i = 1
  <2>1. CASE i = n + 1
    BY <1>1, <1>2, <2>1
  <2>2. CASE i \in 1..n
    BY <1>1, <2>2 DEF ContiguousTrail
  <2>3. QED
    BY <1>1, <2>1, <2>2
<1>5. ASSUME NEW i \in 1..n
      PROVE  q.audit[i + 1].from = q.audit[i].to
  <2>1. CASE i = n
    BY <1>1, <1>2, <2>1
  <2>2. CASE i \in 1..(n - 1)
    <3>1. i + 1 \in 1..n
      BY <1>1, <2>2
    <3>2. QED
      BY <1>1, <2>2, <3>1 DEF ContiguousTrail
  <2>3. QED
    BY <1>1, <2>1, <2>2
<1> HIDE DEF n
<1>6. QED
  BY <1>1, <1>2, <1>3, <1>4, <1>5 DEF ContiguousTrail

\* The events that touch a field, and what TrailExplainsFields says of them.
Touching(r, k) == {i \in DOMAIN r.audit : Touches(r.audit[i], k)}

FieldExplained(r, k, touching) ==
    /\ touching = {} => r.fields[k] = r.submitted[k]
    /\ \A i \in touching : \A c \in r.audit[i].changes : c.field = k =>
          /\ (\A j \in touching : j <= i) => c.after = r.fields[k]
          /\ (\A j \in touching : j >= i) => c.before = r.submitted[k]
          /\ \A j \in touching :
                (j < i /\ \A m \in touching : m <= j \/ m >= i) =>
                    \A d \in r.audit[j].changes : d.field = k => d.after = c.before

LEMMA TrailExplainsEachField ==
    ASSUME NEW r
    PROVE  TrailExplainsFields(r) <=> \A k \in FieldName : FieldExplained(r, k, Touching(r, k))
BY DEF TrailExplainsFields, FieldExplained, Touching

\* Replaying the trail still yields the fields when the event tells what changed.
LEMMA EventExplainsFields ==
    ASSUME NEW r, r.audit \in Seq(AuditEvent), NEW e, NEW q, Records(r, e, q),
           TrailExplainsFields(r)
    PROVE  TrailExplainsFields(q)
<1> DEFINE n == Len(r.audit)
<1>1. /\ n \in Nat /\ DOMAIN r.audit = 1..n /\ DOMAIN q.audit = 1..(n + 1)
      /\ q.audit[n + 1] = e
      /\ \A i \in 1..n : q.audit[i] = r.audit[i]
  BY AppendedEvent
<1>2. q.submitted = r.submitted
  BY DEF Records, SamePapers
<1>3. \A c \in e.changes : c.before = r.fields[c.field] /\ c.after = q.fields[c.field]
  BY DEF Records
<1> HIDE DEF n
<1> SUFFICES ASSUME NEW k \in FieldName,
                    NEW old, old = Touching(r, k), NEW new, new = Touching(q, k)
             PROVE  FieldExplained(q, k, new)
  BY TrailExplainsEachField
<1>4. FieldExplained(r, k, old)
  BY TrailExplainsEachField
<1>5. old \subseteq 1..n
  BY <1>1 DEF Touching
<1>6. CASE ~Touches(e, k)
  <2>1. new = old
    BY <1>1, <1>6 DEF Touching
  <2>2. q.fields[k] = r.fields[k]
    BY <1>6 DEF Records
  <2>3. \A i \in old : q.audit[i] = r.audit[i]
    BY <1>1, <1>5
  <2>4. FieldExplained(q, k, old)
    BY <1>2, <1>4, <2>2, <2>3 DEF FieldExplained
  <2>5. QED
    BY <2>1, <2>4
<1>7. CASE Touches(e, k)
  <2>1. new = old \union {n + 1}
    BY <1>1, <1>7 DEF Touching
  <2>2. new # {}
    BY <2>1
  <2>3. ASSUME NEW c \in e.changes, c.field = k
        PROVE  /\ c.after = q.fields[k]
               /\ (\A j \in new : j >= n + 1) => c.before = q.submitted[k]
               /\ \A j \in new :
                     (j < n + 1 /\ \A m \in new : m <= j \/ m >= n + 1) =>
                         \A d \in q.audit[j].changes : d.field = k => d.after = c.before
    <3>1. c.after = q.fields[k] /\ c.before = r.fields[k]
      BY <1>3, <2>3
    <3>2. (\A j \in new : j >= n + 1) => old = {}
      BY <1>1, <1>5, <2>1
    <3>3. ASSUME NEW j \in new, j < n + 1, \A m \in new : m <= j \/ m >= n + 1,
                 NEW d \in q.audit[j].changes, d.field = k
          PROVE  d.after = c.before
      <4>1. j \in old /\ q.audit[j] = r.audit[j]
        BY <1>1, <1>5, <2>1, <3>3
      <4>2. \A m \in old : m <= j
        BY <1>1, <1>5, <2>1, <3>3
      <4>3. QED
        BY <1>4, <3>1, <3>3, <4>1, <4>2 DEF FieldExplained
    <3>4. QED
      BY <1>2, <1>4, <3>1, <3>2, <3>3 DEF FieldExplained
  <2>4. ASSUME NEW i \in old, NEW c \in q.audit[i].changes, c.field = k
        PROVE  /\ ~(\A j \in new : j <= i)
               /\ (\A j \in new : j >= i) => c.before = q.submitted[k]
               /\ \A j \in new :
                     (j < i /\ \A m \in new : m <= j \/ m >= i) =>
                         \A d \in q.audit[j].changes : d.field = k => d.after = c.before
    <3>1. i \in 1..n /\ q.audit[i] = r.audit[i]
      BY <1>1, <1>5, <2>4
    <3>2. ~(\A j \in new : j <= i)
      BY <1>1, <2>1, <3>1
    <3>3. (\A j \in new : j >= i) => c.before = q.submitted[k]
      BY <1>2, <1>4, <2>1, <2>4, <3>1 DEF FieldExplained
    <3>4. ASSUME NEW j \in new, j < i, \A m \in new : m <= j \/ m >= i,
                 NEW d \in q.audit[j].changes, d.field = k
          PROVE  d.after = c.before
      <4>1. j \in old /\ q.audit[j] = r.audit[j]
        BY <1>1, <1>5, <2>1, <3>1, <3>4
      <4>2. \A m \in old : m <= j \/ m >= i
        BY <2>1, <3>4
      <4>3. QED
        BY <1>4, <2>4, <3>1, <3>4, <4>1, <4>2 DEF FieldExplained
    <3>5. QED
      BY <3>2, <3>3, <3>4
  <2>5. QED
    BY <1>1, <2>1, <2>2, <2>3, <2>4 DEF FieldExplained
<1>8. QED
  BY <1>6, <1>7

\* The approvals of a department in a trail.
Signed(r, role) ==
    {i \in DOMAIN r.audit : r.audit[i].action = "approve" /\ r.audit[i].role = role}

SignedOnce(r, role, signed) ==
    /\ \A i, j \in signed : i = j
    /\ \A i \in signed :
          /\ r.audit[i].from = ApprovalStage(role)
          /\ role = "manager" => r.audit[i].actor = r.manager
    /\ signed # {} <=> StageRank(ReachedStage(r)) > StageRank(ApprovalStage(role))

LEMMA EachDepartmentSignsOnce ==
    ASSUME NEW r
    PROVE  SignedOnceInOrder(r) <=>
             \A role \in ApprovingRole : SignedOnce(r, role, Signed(r, role))
BY DEF SignedOnceInOrder, SignedOnce, Signed

LEMMA SignedAfterApproval ==
    ASSUME NEW r, r.audit \in Seq(AuditEvent), NEW e, NEW q, Records(r, e, q),
           e.action = "approve"
    PROVE  Signed(q, e.role) = Signed(r, e.role) \union {Len(r.audit) + 1}
BY AppendedEvent DEF Signed

LEMMA SignedAfterEvent ==
    ASSUME NEW r, r.audit \in Seq(AuditEvent), NEW e, NEW q, Records(r, e, q),
           NEW role, e.action # "approve" \/ e.role # role
    PROVE  Signed(q, role) = Signed(r, role)
BY AppendedEvent DEF Signed

LEMMA SignedEventsStay ==
    ASSUME NEW r, r.audit \in Seq(AuditEvent), NEW e, NEW q, Records(r, e, q), NEW role
    PROVE  \A i \in Signed(r, role) : q.audit[i] = r.audit[i]
BY AppendedEvent DEF Signed

\* Where a request is known to have been, after an event.
LEMMA ReachedAfterEvent ==
    ASSUME NEW r, r.audit \in Seq(AuditEvent), NEW e, NEW q, Records(r, e, q)
    PROVE  ReachedStage(q) = IF q.stage = "cancelled" THEN r.stage ELSE q.stage
<1>1. q.audit[Len(q.audit)] = e
  BY AppendedEvent
<1>2. QED
  BY <1>1 DEF ReachedStage, Records

\* An event that is no approval leaves the approvals as they are, if it does not
\* take the request past the stage of a department.
LEMMA EventSignsNothing ==
    ASSUME NEW r, r.audit \in Seq(AuditEvent), NEW e, NEW q, Records(r, e, q),
           e.action # "approve", SignedOnceInOrder(r),
           \A role \in ApprovingRole :
              StageRank(ReachedStage(q)) > StageRank(ApprovalStage(role))
                <=> StageRank(ReachedStage(r)) > StageRank(ApprovalStage(role))
    PROVE  SignedOnceInOrder(q)
<1> SUFFICES ASSUME NEW role \in ApprovingRole,
                    NEW signed, signed = Signed(r, role)
             PROVE  SignedOnce(q, role, signed)
  BY SignedAfterEvent, EachDepartmentSignsOnce
<1>1. SignedOnce(r, role, signed)
  BY EachDepartmentSignsOnce
<1>2. \A i \in signed : q.audit[i] = r.audit[i]
  BY SignedEventsStay
<1>3. q.manager = r.manager
  BY DEF Records, SamePapers
<1>4. QED
  BY <1>1, <1>2, <1>3 DEF SignedOnce

\* The stages of the departments that approve come one after the other.
LEMMA ApprovalStageRanks ==
    /\ \A role \in ApprovingRole :
          /\ StageRank(ApprovalStage(role)) \in 1..4
          /\ ApprovalStage(role) \in DOMAIN NextStage
          /\ StageRank(NextStage[ApprovalStage(role)]) = StageRank(ApprovalStage(role)) + 1
          /\ NextStage[ApprovalStage(role)] # "cancelled"
          /\ ApprovalStage(role) # "cancelled"
    /\ StageRank("salary-finalization") = 5 /\ StageRank("completed") = 6
<1>1. /\ ApprovalStage("manager") = "manager-review"
      /\ ApprovalStage("pr") = "pr-review"
      /\ ApprovalStage("transportation") = "transportation-review"
      /\ ApprovalStage("timing") = "timing-review"
  BY DEF ApprovalStage
<1>2. /\ StageRank("manager-review") = 1 /\ StageRank("pr-review") = 2
      /\ StageRank("transportation-review") = 3 /\ StageRank("timing-review") = 4
      /\ StageRank("salary-finalization") = 5 /\ StageRank("completed") = 6
  BY DEF StageRank
<1>3. /\ DOMAIN NextStage = {"manager-review", "pr-review", "transportation-review",
                             "timing-review"}
      /\ NextStage["manager-review"] = "pr-review"
      /\ NextStage["pr-review"] = "transportation-review"
      /\ NextStage["transportation-review"] = "timing-review"
      /\ NextStage["timing-review"] = "salary-finalization"
  BY DEF NextStage
<1>4. QED
  BY <1>1, <1>2, <1>3 DEF ApprovingRole

LEMMA ApprovalStagesDiffer ==
    ASSUME NEW role \in ApprovingRole, NEW other \in ApprovingRole, role # other
    PROVE  StageRank(ApprovalStage(role)) # StageRank(ApprovalStage(other))
BY DEF ApprovingRole, ApprovalStage, StageRank

\* An approval at the stage of its department is the first of that department.
LEMMA ApprovalSignsInOrder ==
    ASSUME NEW r, r.audit \in Seq(AuditEvent), NEW e, NEW q, Records(r, e, q),
           SignedOnceInOrder(r), NEW role \in ApprovingRole,
           e.action = "approve", e.role = role,
           r.stage = ApprovalStage(role), q.stage = NextStage[r.stage],
           role = "manager" => e.actor = q.manager
    PROVE  SignedOnceInOrder(q)
<1>1. /\ ReachedStage(r) = r.stage /\ ReachedStage(q) = q.stage
      /\ StageRank(q.stage) = StageRank(r.stage) + 1
      /\ StageRank(r.stage) \in 1..4
  BY ReachedAfterEvent, ApprovalStageRanks DEF ReachedStage
<1>2. e.from = r.stage /\ q.manager = r.manager
  BY DEF Records, SamePapers
<1>3. SignedOnce(q, role, Signed(q, role))
  <2>1. Signed(r, role) = {}
    <3>1. SignedOnce(r, role, Signed(r, role))
      BY EachDepartmentSignsOnce
    <3>2. QED
      BY <1>1, <3>1 DEF SignedOnce
  <2>2. Signed(q, role) = {Len(r.audit) + 1}
    <3>1. Signed(q, e.role) = Signed(r, e.role) \union {Len(r.audit) + 1}
      BY SignedAfterApproval
    <3>2. QED
      BY <2>1, <3>1
  <2>3. q.audit[Len(r.audit) + 1] = e
    BY AppendedEvent
  <2>4. StageRank(ReachedStage(q)) > StageRank(ApprovalStage(role))
    BY <1>1
  <2>5. QED
    BY <1>2, <2>2, <2>3, <2>4 DEF SignedOnce
<1>4. ASSUME NEW other \in ApprovingRole \ {role}
      PROVE  SignedOnce(q, other, Signed(q, other))
  <2>1. Signed(q, other) = Signed(r, other) /\ \A i \in Signed(r, other) : q.audit[i] = r.audit[i]
    BY <1>4, SignedAfterEvent, SignedEventsStay
  <2>2. SignedOnce(r, other, Signed(r, other))
    BY EachDepartmentSignsOnce
  <2>3. StageRank(ReachedStage(q)) > StageRank(ApprovalStage(other))
          <=> StageRank(ReachedStage(r)) > StageRank(ApprovalStage(other))
    <3>1. StageRank(r.stage) # StageRank(ApprovalStage(other))
      <4>1. other \in ApprovingRole /\ other # role
        BY <1>4
      <4>2. StageRank(ApprovalStage(role)) # StageRank(ApprovalStage(other))
        BY <4>1, ApprovalStagesDiffer
      <4>3. QED
        BY <4>2
    <3>2. StageRank(ApprovalStage(other)) \in 1..4
      BY ApprovalStageRanks
    <3>3. QED
      BY <1>1, <3>1, <3>2
  <2>4. QED
    BY <1>2, <2>1, <2>2, <2>3 DEF SignedOnce
<1>5. QED
  BY <1>3, <1>4, EachDepartmentSignsOnce

(***************************************************************************)
(* What each operation leaves of the history                               *)
(***************************************************************************)

LEMMA NewRequestWellKept ==
    ASSUME NEW r \in NewRequests
    PROVE  WellKept(r)
<1>1. PICK o \in Users, m \in Users, t \in Trips, a \in Accommodations, x \in Transports :
        r = NewRequest(o, m, t, a, x)
  BY DEF NewRequests
<1> DEFINE e == [actor |-> o, role |-> "employee", action |-> "submit",
                 from |-> "none", to |-> "manager-review", changes |-> {}]
<1>2. /\ r.audit = <<e>> /\ r.stage = "manager-review" /\ r.submitted = r.fields
  BY <1>1 DEF NewRequest
<1>3. /\ e.from = "none" /\ e.to = "manager-review" /\ e.action = "submit" /\ e.changes = {}
  OBVIOUS
<1> HIDE DEF e
<1>4. Len(r.audit) = 1 /\ DOMAIN r.audit = {1} /\ r.audit[1] = e
  BY <1>2
<1>5. ContiguousTrail(r)
  BY <1>2, <1>3, <1>4 DEF ContiguousTrail
<1>6. SignedOnceInOrder(r)
  <2>1. ASSUME NEW role \in ApprovingRole
        PROVE  SignedOnce(r, role, Signed(r, role))
    <3>1. Signed(r, role) = {}
      BY <1>3, <1>4 DEF Signed
    <3>2. StageRank(ReachedStage(r)) = 1 /\ StageRank(ApprovalStage(role)) \in 1..4
      BY <1>2, ApprovalStageRanks DEF ReachedStage, StageRank
    <3>3. QED
      BY <3>1, <3>2 DEF SignedOnce
  <2>2. QED
    BY <2>1, EachDepartmentSignsOnce
<1>7. TrailExplainsFields(r)
  <2>1. ASSUME NEW k \in FieldName
        PROVE  FieldExplained(r, k, Touching(r, k))
    <3>1. Touching(r, k) = {}
      BY <1>3, <1>4 DEF Touching, Touches
    <3>2. QED
      BY <1>2, <3>1 DEF FieldExplained
  <2>2. QED
    BY <2>1, TrailExplainsEachField
<1>8. QED
  BY <1>5, <1>6, <1>7 DEF WellKept

LEMMA AmendmentKeepsHistory ==
    ASSUME NEW r \in TravelRequest, WellKept(r), r.stage # "cancelled",
           NEW q, Amends(r, q)
    PROVE  WellKept(q)
<1>1. CASE SameHistory(r, q)
  BY <1>1 DEF SameHistory, SamePapers, WellKept, ContiguousTrail, SignedOnceInOrder,
              ReachedStage, TrailExplainsFields
<1>2. ASSUME NEW e, Records(r, e, q), e.action \in {"edit", "request-info"}
      PROVE  WellKept(q)
  <2>1. r.audit \in Seq(AuditEvent) /\ q.stage = r.stage
    BY RequestParts DEF Amends
  <2>2. ReachedStage(q) = ReachedStage(r)
    BY <1>2, <2>1, ReachedAfterEvent DEF ReachedStage
  <2>3. SignedOnceInOrder(q)
    BY <1>2, <2>1, <2>2, EventSignsNothing DEF WellKept
  <2>4. QED
    BY <1>2, <2>1, <2>3, EventKeepsTrail, EventExplainsFields DEF WellKept
<1>3. QED
  BY <1>1, <1>2 DEF Amends

LEMMA ApprovalWellKept ==
    ASSUME NEW r, Sound(r), WellKept(r), NEW u \in Users, NEW allowed,
           NEW edits \in EditsWithApproval(r, DepartmentRole(u)),
           AcceptsApproval(r, u, edits, allowed)
    PROVE  WellKept(ApprovalOutcome(r, u, edits))
<1> DEFINE role == DepartmentRole(u)
<1> SUFFICES ASSUME NEW q, q = ApprovalOutcome(r, u, edits)
             PROVE  WellKept(q)
  OBVIOUS
<1>1. PICK m \in TravelRequest :
        /\ Amends(r, m)
        /\ Decides(m, u, role, "approve", q)
        /\ role \in ApprovingRole
        /\ r.stage = ApprovalStage(role) /\ q.stage = NextStage[r.stage]
        /\ role = "manager" => q.manager = u
  BY ApprovalDecides
<1> HIDE DEF role
<1>2. WellKept(m)
  BY <1>1, AmendmentKeepsHistory, ApprovalStageRanks DEF Sound
<1>3. PICK e : Records(m, e, q) /\ e.action = "approve" /\ e.role = role /\ e.actor = u
  BY <1>1 DEF Decides
<1>4. m.stage = r.stage /\ m.audit \in Seq(AuditEvent)
  BY <1>1, RequestParts DEF Amends
<1>5. SignedOnceInOrder(q)
  BY <1>1, <1>2, <1>3, <1>4, ApprovalSignsInOrder DEF WellKept
<1>6. QED
  BY <1>2, <1>3, <1>4, <1>5, EventKeepsTrail, EventExplainsFields DEF WellKept

LEMMA RejectionWellKept ==
    ASSUME NEW r, Sound(r), WellKept(r), NEW u \in Users, AcceptsRejection(r, u)
    PROVE  WellKept(RejectionOutcome(r, u))
<1> SUFFICES ASSUME NEW q, q = RejectionOutcome(r, u)
             PROVE  WellKept(q)
  OBVIOUS
<1>1. /\ Decides(r, u, DepartmentRole(u), "reject", q)
      /\ r.stage \in {"manager-review", "timing-review"} /\ q.stage = "cancelled"
  BY RejectionDecides
<1>2. PICK e : Records(r, e, q) /\ e.action = "reject"
  BY <1>1 DEF Decides
<1>3. r.audit \in Seq(AuditEvent)
  BY RequestParts DEF Sound
<1>4. ReachedStage(q) = ReachedStage(r)
  BY <1>1, <1>2, <1>3, ReachedAfterEvent DEF ReachedStage
<1>5. SignedOnceInOrder(q)
  BY <1>2, <1>3, <1>4, EventSignsNothing DEF WellKept
<1>6. QED
  BY <1>2, <1>3, <1>5, EventKeepsTrail, EventExplainsFields DEF WellKept

LEMMA FinalizationWellKept ==
    ASSUME NEW r, Sound(r), WellKept(r), NEW u \in Users, NEW allowed,
           AcceptsFinalization(r, u, allowed)
    PROVE  WellKept(FinalizationOutcome(r, u))
<1> SUFFICES ASSUME NEW q, q = FinalizationOutcome(r, u)
             PROVE  WellKept(q)
  OBVIOUS
<1>1. /\ Decides(r, u, "salary", "finalize", q)
      /\ r.stage = "salary-finalization" /\ q.stage = "completed"
  BY FinalizationDecides
<1>2. PICK e : Records(r, e, q) /\ e.action = "finalize"
  BY <1>1 DEF Decides
<1>3. r.audit \in Seq(AuditEvent)
  BY RequestParts DEF Sound
<1>4. ReachedStage(r) = "salary-finalization" /\ ReachedStage(q) = "completed"
  BY <1>1, <1>2, <1>3, ReachedAfterEvent DEF ReachedStage
<1>5. SignedOnceInOrder(q)
  <2>1. \A role \in ApprovingRole : StageRank(ApprovalStage(role)) \in 1..4
    BY ApprovalStageRanks
  <2>2. StageRank(ReachedStage(r)) = 5 /\ StageRank(ReachedStage(q)) = 6
    BY <1>4, ApprovalStageRanks
  <2>3. \A role \in ApprovingRole :
          /\ StageRank(ReachedStage(q)) > StageRank(ApprovalStage(role))
          /\ StageRank(ReachedStage(r)) > StageRank(ApprovalStage(role))
    BY <2>1, <2>2
  <2>4. QED
    BY <1>2, <1>3, <2>3, EventSignsNothing DEF WellKept
<1>6. QED
  BY <1>2, <1>3, <1>5, EventKeepsTrail, EventExplainsFields DEF WellKept

(***************************************************************************)
(* How the prices of a request lead from one to the next                   *)
(***************************************************************************)

\* Every revision so far has moved the total.
EveryRevisionMoves(r) ==
    \A i \in DOMAIN r.priceRevisions :
        r.priceRevisions[i].newCalculation.totalAmount
            # r.priceRevisions[i].previousCalculation.totalAmount

\* Why ContinuousPrices holds: only the finalization appends a revision that
\* leaves the total as it is, and a correction, which moves the total and
\* appends none, comes before every other change of the price.
PricesKept(r) ==
    /\ ContinuousPrices(r)
    /\ r.stage # "completed" => EveryRevisionMoves(r)
    /\ r.stage = "manager-review" => r.priceRevisions = <<>>

LEMMA RevisionContinuesPrices ==
    ASSUME NEW r \in TravelRequest, ContinuousPrices(r), EveryRevisionMoves(r),
           NEW rev \in PriceRevision,
           NEW q, q.priceRevisions = Append(r.priceRevisions, rev),
           rev.previousCalculation.totalAmount = r.salaryPreview.totalAmount,
           rev.newCalculation.totalAmount = q.salaryPreview.totalAmount,
           \/ rev.newCalculation.totalAmount # rev.previousCalculation.totalAmount
           \/ rev.stage = "completed"
    PROVE  ContinuousPrices(q)
<1> DEFINE n == Len(r.priceRevisions)
<1>1. /\ n \in Nat /\ Len(q.priceRevisions) = n + 1
      /\ DOMAIN r.priceRevisions = 1..n /\ DOMAIN q.priceRevisions = 1..(n + 1)
      /\ q.priceRevisions[n + 1] = rev
      /\ \A i \in 1..n : q.priceRevisions[i] = r.priceRevisions[i]
  <2>1. r.priceRevisions \in Seq(PriceRevision)
    BY RequestParts
  <2>2. q.priceRevisions \in Seq(PriceRevision)
    BY <2>1, AppendProperties
  <2>3. QED
    BY <2>1, <2>2, AppendProperties, LenProperties
<1> HIDE DEF n
<1>2. ASSUME NEW i \in 1..n
      PROVE  q.priceRevisions[i].newCalculation.totalAmount
                = q.priceRevisions[i + 1].previousCalculation.totalAmount
  <2>1. CASE i = n
    <3>1. r.priceRevisions[n].newCalculation.totalAmount = r.salaryPreview.totalAmount
      BY <1>1, <1>2, <2>1 DEF ContinuousPrices, n
    <3>2. QED
      BY <1>1, <2>1, <3>1
  <2>2. CASE i # n
    <3>1. i \in 1..(n - 1) /\ i + 1 \in 1..n
      BY <1>1, <1>2, <2>2
    <3>2. r.priceRevisions[i].newCalculation.totalAmount
             = r.priceRevisions[i + 1].previousCalculation.totalAmount
      BY <3>1 DEF ContinuousPrices, n
    <3>3. QED
      BY <1>1, <3>1, <3>2
  <2>3. QED
    BY <2>1, <2>2
<1>3. ASSUME NEW i \in DOMAIN q.priceRevisions,
             q.priceRevisions[i].newCalculation.totalAmount
                = q.priceRevisions[i].previousCalculation.totalAmount
      PROVE  q.priceRevisions[i].stage = "completed" /\ i = n + 1
  BY <1>1, <1>3 DEF EveryRevisionMoves
<1>4. q.priceRevisions[n + 1].newCalculation.totalAmount = q.salaryPreview.totalAmount
  BY <1>1
<1>5. Len(q.priceRevisions) = n + 1 /\ n + 1 - 1 = n
  BY <1>1
<1>6. QED
  BY <1>2, <1>3, <1>4, <1>5 DEF ContinuousPrices

\* An edit that moves the price says so.
LEMMA EditsContinuePrices ==
    ASSUME NEW r, Sound(r), ContinuousPrices(r), EveryRevisionMoves(r),
           NEW u \in Users, NEW role \in SystemRole, NEW edits, IsEdit(edits),
           NEW q, q = WithFinancialEdits(r, u, role, edits)
    PROVE  ContinuousPrices(q) /\ EveryRevisionMoves(q)
<1>1. r \in TravelRequest /\ r.salaryPreview = Calculate(r.fields)
  BY DEF Sound
<1>2. /\ q \in TravelRequest
      /\ q.priceRevisions =
            IF q.salaryPreview.totalAmount # r.salaryPreview.totalAmount
            THEN Append(r.priceRevisions,
                        NewRevision(r, u, role, r.salaryPreview, q.salaryPreview))
            ELSE r.priceRevisions
  BY <1>1, WithFinancialEditsEffect
<1>3. CASE q.salaryPreview.totalAmount = r.salaryPreview.totalAmount
  BY <1>2, <1>3 DEF ContinuousPrices, EveryRevisionMoves
<1>4. CASE q.salaryPreview.totalAmount # r.salaryPreview.totalAmount
  <2>1. PICK rev \in PriceRevision :
          /\ q.priceRevisions = Append(r.priceRevisions, rev)
          /\ rev.previousCalculation = r.salaryPreview
          /\ rev.newCalculation = q.salaryPreview
    <3>1. NewRevision(r, u, role, r.salaryPreview, q.salaryPreview) \in PriceRevision
      BY <1>1, <1>2, RequestParts, NewRevisionType
    <3>2. QED
      BY <1>2, <1>4, <3>1 DEF NewRevision
  <2>2. ContinuousPrices(q)
    BY <1>1, <1>4, <2>1, RevisionContinuesPrices
  <2>3. EveryRevisionMoves(q)
    <3>1. r.priceRevisions \in Seq(PriceRevision)
      BY <1>1, RequestParts
    <3>2. QED
      BY <1>4, <2>1, <3>1, AppendProperties, LenProperties DEF EveryRevisionMoves
  <2>4. QED
    BY <2>2, <2>3
<1>5. QED
  BY <1>3, <1>4

LEMMA UnmovedPricesKept ==
    ASSUME NEW r, PricesKept(r), r.stage # "completed",
           NEW q, q.priceRevisions = r.priceRevisions, q.salaryPreview = r.salaryPreview,
           q.stage = r.stage \/ q.stage = "cancelled"
    PROVE  PricesKept(q)
BY DEF PricesKept, ContinuousPrices, EveryRevisionMoves

LEMMA CorrectionKeepsPrices ==
    ASSUME NEW r, Sound(r), PricesKept(r), NEW u \in Users, NEW edits \in CorrectionEdits(r),
           r.stage = "manager-review"
    PROVE  PricesKept(CorrectionOutcome(r, u, edits))
<1> DEFINE m == EditRequest(r, u, "employee", edits)
           q == CorrectionOutcome(r, u, edits)
<1>1. "employee" \in SystemRole /\ IsEdit(edits)
  BY CorrectionEditsType DEF SystemRole
<1>2. m \in TravelRequest /\ m.priceRevisions = r.priceRevisions
  BY <1>1, EditRequestEffect DEF Sound
<1>3. q.priceRevisions = m.priceRevisions
  BY <1>2 DEF CorrectionOutcome, TravelRequest
<1> HIDE DEF m, q
<1>4. q.priceRevisions = <<>>
  BY <1>2, <1>3 DEF PricesKept
<1>5. QED
  BY <1>4 DEF PricesKept, ContinuousPrices, EveryRevisionMoves, q

LEMMA ApprovalKeepsPrices ==
    ASSUME NEW r, Sound(r), PricesKept(r), NEW u \in Users, NEW allowed,
           NEW edits \in EditsWithApproval(r, DepartmentRole(u)),
           AcceptsApproval(r, u, edits, allowed)
    PROVE  PricesKept(ApprovalOutcome(r, u, edits))
<1> DEFINE role == DepartmentRole(u)
           m == WithFinancialEdits(r, u, role, edits)
           q == ApprovalOutcome(r, u, edits)
<1>1. role \in SystemRole \ {"employee"} /\ r.stage = ApprovalStage(role)
  BY DepartmentRoleType DEF AcceptsApproval, CanApprove
<1>2. IsEdit(edits)
  BY <1>1, EditsWithApprovalType
<1>3. q = Approved(m, u, role)
  BY DEF ApprovalOutcome
<1> HIDE DEF q, role
<1>4. r.stage \in DOMAIN NextStage
  <2>1. r.stage \in WorkflowStage
    BY RequestParts DEF Sound
  <2>2. QED
    BY <1>1, <2>1 DEF ApprovalStage, SystemRole, WorkflowStage, ReviewStages, Terminal, NextStage
<1>5. m \in TravelRequest /\ m.stage = r.stage
  BY <1>1, <1>2, WithFinancialEditsEffect DEF Sound
<1>6. ContinuousPrices(m) /\ EveryRevisionMoves(m)
  <2>1. r.stage # "completed"
    BY <1>4 DEF NextStage
  <2>2. QED
    BY <1>1, <1>2, <2>1, EditsContinuePrices DEF PricesKept
<1> HIDE DEF m
<1>7. /\ q.priceRevisions = m.priceRevisions /\ q.salaryPreview = m.salaryPreview
      /\ q.stage = NextStage[r.stage]
  BY <1>1, <1>3, <1>4, <1>5, ApprovedEffect
<1>8. q.stage \notin {"completed", "manager-review"}
  BY <1>4, <1>7 DEF NextStage
<1>9. QED
  BY <1>6, <1>7, <1>8 DEF PricesKept, ContinuousPrices, EveryRevisionMoves, q

LEMMA ReviewKeepsPrices ==
    ASSUME NEW r, Sound(r), PricesKept(r), r.stage \notin {"manager-review", "completed"},
           NEW u \in Users, NEW role \in SystemRole, NEW edits, IsEdit(edits)
    PROVE  PricesKept(WithFinancialEdits(r, u, role, edits))
<1> SUFFICES ASSUME NEW q, q = WithFinancialEdits(r, u, role, edits)
             PROVE  PricesKept(q)
  OBVIOUS
<1>1. ContinuousPrices(q) /\ EveryRevisionMoves(q)
  BY EditsContinuePrices DEF PricesKept
<1>2. q.stage = r.stage
  BY WithFinancialEditsEffect DEF Sound
<1>3. QED
  BY <1>1, <1>2 DEF PricesKept

LEMMA FinalizationKeepsPrices ==
    ASSUME NEW r, Sound(r), PricesKept(r), NEW u \in Users, NEW allowed,
           AcceptsFinalization(r, u, allowed)
    PROVE  PricesKept(FinalizationOutcome(r, u))
<1> SUFFICES ASSUME NEW q, q = FinalizationOutcome(r, u)
             PROVE  PricesKept(q)
  OBVIOUS
<1>1. /\ DepartmentRole(u) \in SystemRole /\ r \in TravelRequest
      /\ r.stage = "salary-finalization" /\ r.salaryPreview = Calculate(r.fields)
  BY DepartmentRoleType DEF AcceptsFinalization, CanFinalize, Sound
<1>2. q.fields = r.fields /\ q.stage = "completed" /\ q.salaryPreview = Calculate(q.fields)
  BY <1>1, FinalizationEffect
<1>3. PICK rev \in PriceRevision :
        /\ q.priceRevisions = Append(r.priceRevisions, rev)
        /\ rev.stage = "completed"
        /\ rev.previousCalculation = q.salaryPreview /\ rev.newCalculation = q.salaryPreview
  BY <1>1, FinalizationEffect
<1>4. ContinuousPrices(r) /\ EveryRevisionMoves(r) /\ r.salaryPreview = q.salaryPreview
  BY <1>1, <1>2 DEF PricesKept
<1>5. ContinuousPrices(q)
  BY <1>1, <1>3, <1>4, RevisionContinuesPrices
<1>6. QED
  BY <1>2, <1>5 DEF PricesKept

(***************************************************************************)
(* What a step may do: one stage ahead, and only with the fields still open *)
(***************************************************************************)

\* The stages a request may go to next.
Advances(r, q) ==
    q.stage # r.stage =>
        \/ StageRank(q.stage) = StageRank(r.stage) + 1 /\ q.stage # "cancelled"
        \/ q.stage = "cancelled" /\ r.stage \in {"manager-review", "timing-review"}

OnlyOpenFieldsMove(r, q) ==
    \A k \in FieldName : q.fields[k] # r.fields[k] => r.stage \in OpenAt(k)

\* The flag that would let a manager edit again is never set.
FlagDown(r) == r.fields.timeNeedsVerification = FALSE

Lawful(r, q) ==
    /\ r.stage \notin Terminal
    /\ Advances(r, q)
    /\ OnlyOpenFieldsMove(r, q)
    /\ FlagDown(q)

\* Finalization is the last of six stages that are passed in order.
LEMMA NextStageRanks ==
    /\ \A s \in DOMAIN NextStage : /\ StageRank(NextStage[s]) = StageRank(s) + 1
                                   /\ NextStage[s] # "cancelled"
    /\ StageRank("completed") = StageRank("salary-finalization") + 1
BY DEF NextStage, StageRank

\* Edits move the fields they name, and nothing sets the flag.
LEMMA EditsMoveOpenFields ==
    ASSUME NEW r \in TravelRequest, FlagDown(r), NEW edits, IsEdit(edits),
           \A k \in DOMAIN edits : r.stage \in OpenAt(k),
           NEW q, q.fields = Edited(r.fields, edits)
    PROVE  OnlyOpenFieldsMove(r, q) /\ FlagDown(q)
<1>1. \A k \in FieldName :
        q.fields[k] = IF k \in DOMAIN edits THEN edits[k] ELSE r.fields[k]
  BY EditedField
<1>2. OnlyOpenFieldsMove(r, q)
  BY <1>1 DEF OnlyOpenFieldsMove
<1>3. FlagDown(q)
  BY <1>1 DEF FlagDown, IsEdit, FieldName
<1>4. QED
  BY <1>2, <1>3

\* The edits of a department are the ones of its stage.
LEMMA ApprovalEditsAreOpen ==
    ASSUME NEW r, NEW role \in SystemRole, NEW edits \in ApprovalEdits(r, role),
           NEW k \in DOMAIN edits
    PROVE  ApprovalStage(role) \in OpenAt(k)
<1>1. CASE role = "pr"
  BY <1>1 DEF ApprovalEdits, ApprovalStage, OpenAt
<1>2. CASE role = "transportation"
  BY <1>2 DEF ApprovalEdits, ApprovalStage, OpenAt
<1>3. CASE role = "timing"
  <2>1. k \in {"verifiedDates", "hoursCredited"}
    BY <1>3 DEF ApprovalEdits, Attendance
  <2>2. QED
    BY <1>3, <2>1 DEF ApprovalStage, OpenAt
<1>4. CASE role \notin {"pr", "transportation", "timing"}
  BY <1>4 DEF ApprovalEdits
<1>5. QED
  BY <1>1, <1>2, <1>3, <1>4

LEMMA CorrectionLawful ==
    ASSUME NEW r, Sound(r), FlagDown(r), NEW u \in Users, NEW edits \in CorrectionEdits(r),
           r.stage = "manager-review"
    PROVE  Lawful(r, CorrectionOutcome(r, u, edits))
<1> DEFINE m == EditRequest(r, u, "employee", edits)
           q == CorrectionOutcome(r, u, edits)
<1>1. "employee" \in SystemRole /\ IsEdit(edits)
  BY CorrectionEditsType DEF SystemRole
<1>2. m \in TravelRequest /\ m.fields = Edited(r.fields, edits) /\ m.stage = r.stage
  BY <1>1, EditRequestEffect DEF Sound
<1>3. q.fields = m.fields /\ q.stage = m.stage
  BY <1>2 DEF CorrectionOutcome, TravelRequest
<1>4. \A k \in DOMAIN edits : r.stage \in OpenAt(k)
  BY DEF CorrectionEdits, OpenAt
<1> HIDE DEF m, q
<1>5. OnlyOpenFieldsMove(r, q) /\ FlagDown(q)
  BY <1>1, <1>2, <1>3, <1>4, EditsMoveOpenFields DEF Sound
<1>6. QED
  BY <1>2, <1>3, <1>5 DEF Lawful, Advances, Terminal, q

LEMMA ApprovalLawful ==
    ASSUME NEW r, Sound(r), FlagDown(r), NEW u \in Users, NEW allowed,
           NEW edits \in EditsWithApproval(r, DepartmentRole(u)),
           AcceptsApproval(r, u, edits, allowed)
    PROVE  Lawful(r, ApprovalOutcome(r, u, edits))
<1> DEFINE role == DepartmentRole(u)
           m == WithFinancialEdits(r, u, role, edits)
           q == ApprovalOutcome(r, u, edits)
<1>1. role \in SystemRole \ {"employee"} /\ r.stage = ApprovalStage(role)
  BY DepartmentRoleType DEF AcceptsApproval, CanApprove
<1>2. IsEdit(edits)
  BY <1>1, EditsWithApprovalType
<1>3. m \in TravelRequest /\ m.fields = Edited(r.fields, edits) /\ m.stage = r.stage
  BY <1>1, <1>2, WithFinancialEditsEffect DEF Sound
<1>4. \A k \in DOMAIN edits : r.stage \in OpenAt(k)
  BY <1>1, ApprovalEditsAreOpen DEF EditsWithApproval, NoEdits
<1>5. r.stage \in DOMAIN NextStage /\ r.stage \notin Terminal
  <2>1. r.stage \in WorkflowStage
    BY RequestParts DEF Sound
  <2>2. QED
    BY <1>1, <2>1 DEF ApprovalStage, SystemRole, WorkflowStage, ReviewStages, Terminal, NextStage
<1>6. q = Approved(m, u, role)
  BY DEF ApprovalOutcome
<1> HIDE DEF m, q, role
<1>7. q.fields = m.fields /\ q.stage = NextStage[r.stage]
  BY <1>1, <1>3, <1>5, <1>6, ApprovedEffect
<1>8. OnlyOpenFieldsMove(r, q) /\ FlagDown(q)
  BY <1>2, <1>3, <1>4, <1>7, EditsMoveOpenFields DEF Sound
<1>9. Advances(r, q)
  BY <1>5, <1>7, NextStageRanks DEF Advances
<1>10. QED
  BY <1>5, <1>8, <1>9 DEF Lawful, q

LEMMA ReviewLawful ==
    ASSUME NEW r, Sound(r), FlagDown(r), NEW u \in Users, NEW allowed,
           NEW edits \in ReviewEdits(r, DepartmentRole(u)),
           AcceptsReview(r, u, edits, allowed)
    PROVE  Lawful(r, ReviewOutcome(r, u, edits))
<1> DEFINE role == DepartmentRole(u)
           q == ReviewOutcome(r, u, edits)
<1>1. role \in SystemRole
  BY DepartmentRoleType DEF AcceptsReview
<1>2. CanEdit(r, role)
  BY DEF AcceptsReview
<1>3. IsEdit(edits)
  BY <1>1, ReviewEditsType
<1>4. q.fields = Edited(r.fields, edits) /\ q.stage = r.stage
  BY <1>1, <1>3, WithFinancialEditsEffect DEF Sound, ReviewOutcome
<1> HIDE DEF q, role
<1>5. role # "manager"
  BY <1>2 DEF CanEdit, FlagDown
<1>6. \A k \in DOMAIN edits : r.stage \in OpenAt(k)
  <2>1. CASE role = "salary"
    <3>1. r.stage = "salary-finalization"
      BY <1>2, <2>1 DEF CanEdit
    <3>2. DOMAIN edits \subseteq {"adjustments", "ticket", "ticketVerified"}
      BY <2>1 DEF ReviewEdits, SalaryEdits, role
    <3>3. QED
      BY <3>1, <3>2 DEF OpenAt
  <2>2. CASE role # "salary"
    <3>1. r.stage = ApprovalStage(role)
      BY <1>2, <1>5, <2>2 DEF CanEdit
    <3>2. edits \in ApprovalEdits(r, role)
      BY <1>5, <2>2 DEF ReviewEdits, role
    <3>3. QED
      BY <1>1, <3>1, <3>2, ApprovalEditsAreOpen
  <2>3. QED
    BY <2>1, <2>2
<1>7. OnlyOpenFieldsMove(r, q) /\ FlagDown(q)
  BY <1>3, <1>4, <1>6, EditsMoveOpenFields DEF Sound
<1>8. QED
  BY <1>2, <1>4, <1>7 DEF CanEdit, Lawful, Advances, q

LEMMA RejectionLawful ==
    ASSUME NEW r, Sound(r), FlagDown(r), NEW u \in Users, AcceptsRejection(r, u)
    PROVE  Lawful(r, RejectionOutcome(r, u))
<1>1. DepartmentRole(u) \in SystemRole /\ r.stage \in {"manager-review", "timing-review"}
  BY DepartmentRoleType DEF AcceptsRejection, CanReject
<1>2. /\ RejectionOutcome(r, u).fields = r.fields
      /\ RejectionOutcome(r, u).stage = "cancelled"
  BY <1>1, RejectedEffect DEF RejectionOutcome, Sound
<1>3. QED
  BY <1>1, <1>2 DEF Lawful, Advances, OnlyOpenFieldsMove, FlagDown, Terminal

LEMMA InfoRequestLawful ==
    ASSUME NEW r, Sound(r), FlagDown(r), NEW u \in Users, AcceptsInfoRequest(r, u)
    PROVE  Lawful(r, InfoRequestOutcome(r, u))
<1> DEFINE q == InfoRequestOutcome(r, u)
<1>1. r.stage = "manager-review" /\ "manager" \in SystemRole
  BY DEF AcceptsInfoRequest, SystemRole
<1>2. q.fields = [r.fields EXCEPT !.pendingEmployeeResponse = TRUE] /\ q.stage = r.stage
  BY <1>1, AskedForInfoEffect DEF InfoRequestOutcome, Sound
<1> HIDE DEF q
<1>3. \A k \in FieldName : k # "pendingEmployeeResponse" => q.fields[k] = r.fields[k]
  BY <1>2 DEF Sound, TravelRequest, Fields, FieldName
<1>4. "manager-review" \in OpenAt("pendingEmployeeResponse")
  BY DEF OpenAt
<1>5. OnlyOpenFieldsMove(r, q) /\ FlagDown(q)
  BY <1>1, <1>3, <1>4 DEF OnlyOpenFieldsMove, FlagDown, FieldName
<1>6. QED
  BY <1>1, <1>2, <1>5 DEF Lawful, Advances, Terminal, q

LEMMA FinalizationLawful ==
    ASSUME NEW r, Sound(r), FlagDown(r), NEW u \in Users, NEW allowed,
           AcceptsFinalization(r, u, allowed)
    PROVE  Lawful(r, FinalizationOutcome(r, u))
<1>1. DepartmentRole(u) \in SystemRole /\ r.stage = "salary-finalization"
  BY DepartmentRoleType DEF AcceptsFinalization, CanFinalize
<1>2. /\ FinalizationOutcome(r, u).fields = r.fields
      /\ FinalizationOutcome(r, u).stage = "completed"
  BY <1>1, FinalizationEffect DEF Sound
<1>3. Advances(r, FinalizationOutcome(r, u))
  BY <1>1, <1>2, NextStageRanks DEF Advances
<1>4. QED
  BY <1>1, <1>2, <1>3 DEF Lawful, OnlyOpenFieldsMove, FlagDown, Terminal

(***************************************************************************)
(* The route of ApprovalRoute                                              *)
(***************************************************************************)

IsSignature(e) == e.action \in {"approve", "finalize"}

\* An event adds a signature exactly when it approves or finalizes.
LEMMA SignaturesAfterEvent ==
    ASSUME NEW r, r.audit \in Seq(AuditEvent), NEW e, NEW q, Records(r, e, q)
    PROVE  Signatures(q) = IF IsSignature(e) THEN Signatures(r) \union {e.role} ELSE Signatures(r)
<1>1. /\ DOMAIN q.audit = DOMAIN r.audit \union {Len(r.audit) + 1}
      /\ \A i \in DOMAIN r.audit : q.audit[i] = r.audit[i]
      /\ q.audit[Len(r.audit) + 1] = e
  BY AppendedEvent
<1>2. QED
  BY <1>1 DEF Signatures, IsSignature

\* What a step of ApprovalRoute, or one that it does not see, does to a request.
OnRoute(r, q) ==
    \/ q.stage = r.stage /\ Signatures(q) = Signatures(r)
    \/ /\ r.stage \in Route!ReviewStages
       /\ q.stage = Route!After[r.stage]
       /\ Signatures(q) = Signatures(r) \union {Route!Department[r.stage]}
    \/ /\ r.stage \in Route!CancelledAt
       /\ q.stage = "cancelled" /\ Signatures(q) = Signatures(r)

\* Edits and questions sign nothing.
LEMMA AmendmentSignsNothing ==
    ASSUME NEW r \in TravelRequest, NEW q, Amends(r, q)
    PROVE  q.stage = r.stage /\ Signatures(q) = Signatures(r)
<1>1. CASE SameHistory(r, q)
  BY <1>1 DEF SameHistory, Signatures
<1>2. ASSUME NEW e, Records(r, e, q), e.action \in {"edit", "request-info"}
      PROVE  Signatures(q) = Signatures(r)
  BY <1>2, RequestParts, SignaturesAfterEvent DEF IsSignature
<1>3. QED
  BY <1>1, <1>2 DEF Amends

LEMMA DecisionSigns ==
    ASSUME NEW r \in TravelRequest, NEW u, NEW role, NEW action \in {"approve", "finalize"},
           NEW q, Decides(r, u, role, action, q)
    PROVE  Signatures(q) = Signatures(r) \union {role}
<1>1. PICK e : Records(r, e, q) /\ e.action = action /\ e.role = role
  BY DEF Decides
<1>2. QED
  BY <1>1, RequestParts, SignaturesAfterEvent DEF IsSignature

LEMMA ApprovalOnRoute ==
    ASSUME NEW r, Sound(r), NEW u \in Users, NEW allowed,
           NEW edits \in EditsWithApproval(r, DepartmentRole(u)),
           AcceptsApproval(r, u, edits, allowed)
    PROVE  OnRoute(r, ApprovalOutcome(r, u, edits))
<1> DEFINE role == DepartmentRole(u)
<1> SUFFICES ASSUME NEW q, q = ApprovalOutcome(r, u, edits)
             PROVE  OnRoute(r, q)
  OBVIOUS
<1>1. PICK m \in TravelRequest :
        /\ Amends(r, m)
        /\ Decides(m, u, role, "approve", q)
        /\ role \in ApprovingRole
        /\ r.stage = ApprovalStage(role) /\ q.stage = NextStage[r.stage]
  BY ApprovalDecides
<1> HIDE DEF role
<1>2. Signatures(q) = Signatures(r) \union {role}
  BY <1>1, AmendmentSignsNothing, DecisionSigns DEF Sound
<1>3. /\ r.stage \in Route!ReviewStages
      /\ Route!After[r.stage] = NextStage[r.stage]
      /\ Route!Department[r.stage] = role
  BY <1>1 DEF ApprovalStage, ApprovingRole, NextStage, Route!ReviewStages, Route!After,
              Route!Department
<1>4. QED
  BY <1>1, <1>2, <1>3 DEF OnRoute

LEMMA RejectionOnRoute ==
    ASSUME NEW r, Sound(r), NEW u \in Users, AcceptsRejection(r, u)
    PROVE  OnRoute(r, RejectionOutcome(r, u))
<1> SUFFICES ASSUME NEW q, q = RejectionOutcome(r, u)
             PROVE  OnRoute(r, q)
  OBVIOUS
<1>1. /\ Decides(r, u, DepartmentRole(u), "reject", q)
      /\ r.stage \in {"manager-review", "timing-review"} /\ q.stage = "cancelled"
  BY RejectionDecides
<1>2. PICK e : Records(r, e, q) /\ e.action = "reject"
  BY <1>1 DEF Decides
<1>3. Signatures(q) = Signatures(r)
  BY <1>2, RequestParts, SignaturesAfterEvent DEF Sound, IsSignature
<1>4. QED
  BY <1>1, <1>3 DEF OnRoute, Route!CancelledAt, Route!MayCancel

LEMMA FinalizationOnRoute ==
    ASSUME NEW r, Sound(r), NEW u \in Users, NEW allowed, AcceptsFinalization(r, u, allowed)
    PROVE  OnRoute(r, FinalizationOutcome(r, u))
<1> SUFFICES ASSUME NEW q, q = FinalizationOutcome(r, u)
             PROVE  OnRoute(r, q)
  OBVIOUS
<1>1. /\ Decides(r, u, "salary", "finalize", q)
      /\ r.stage = "salary-finalization" /\ q.stage = "completed"
  BY FinalizationDecides
<1>2. Signatures(q) = Signatures(r) \union {"salary"}
  BY <1>1, DecisionSigns DEF Sound
<1>3. /\ r.stage \in Route!ReviewStages /\ Route!After[r.stage] = "completed"
      /\ Route!Department[r.stage] = "salary"
  BY <1>1 DEF Route!ReviewStages, Route!After, Route!Department
<1>4. QED
  BY <1>1, <1>2, <1>3 DEF OnRoute

(***************************************************************************)
(* The inductive invariant                                                 *)
(***************************************************************************)

Kept(r) ==
    /\ Sound(r)
    /\ WellKept(r)
    /\ PricesKept(r)
    /\ FlagDown(r)

\* What every handler makes of a record that is kept.
Follows(r, q) == Kept(q) /\ Lawful(r, q) /\ OnRoute(r, q)

LEMMA CorrectionFollows ==
    ASSUME NEW r, Kept(r), NEW u \in Users, NEW edits \in CorrectionEdits(r),
           NEW window, NEW allowed, AcceptsCorrection(r, u, edits, window, allowed)
    PROVE  Follows(r, CorrectionOutcome(r, u, edits))
<1> SUFFICES ASSUME NEW q, q = CorrectionOutcome(r, u, edits)
             PROVE  Follows(r, q)
  OBVIOUS
<1>1. /\ Sound(r) /\ WellKept(r) /\ PricesKept(r) /\ FlagDown(r)
      /\ r.stage = "manager-review" /\ r \in TravelRequest
  BY DEF Kept, Sound, AcceptsCorrection, CanCorrect
<1>2. Amends(r, q)
  BY <1>1, CorrectionAmends
<1>3. WellKept(q) /\ OnRoute(r, q)
  BY <1>1, <1>2, AmendmentKeepsHistory, AmendmentSignsNothing DEF OnRoute
<1>4. Sound(q) /\ PricesKept(q) /\ Lawful(r, q)
  BY <1>1, CorrectionSound, CorrectionKeepsPrices, CorrectionLawful
<1>5. QED
  BY <1>3, <1>4 DEF Follows, Kept, Lawful

LEMMA ApprovalFollows ==
    ASSUME NEW r, Kept(r), NEW u \in Users, NEW allowed,
           NEW edits \in EditsWithApproval(r, DepartmentRole(u)),
           AcceptsApproval(r, u, edits, allowed)
    PROVE  Follows(r, ApprovalOutcome(r, u, edits))
<1> SUFFICES ASSUME NEW q, q = ApprovalOutcome(r, u, edits)
             PROVE  Follows(r, q)
  OBVIOUS
<1>1. Sound(r) /\ WellKept(r) /\ PricesKept(r) /\ FlagDown(r)
  BY DEF Kept
<1>2. Sound(q) /\ WellKept(q)
  BY <1>1, ApprovalSound, ApprovalWellKept
<1>3. PricesKept(q) /\ Lawful(r, q) /\ OnRoute(r, q)
  BY <1>1, ApprovalKeepsPrices, ApprovalLawful, ApprovalOnRoute
<1>4. QED
  BY <1>2, <1>3 DEF Follows, Kept, Lawful

LEMMA RejectionFollows ==
    ASSUME NEW r, Kept(r), NEW u \in Users, AcceptsRejection(r, u)
    PROVE  Follows(r, RejectionOutcome(r, u))
<1> SUFFICES ASSUME NEW q, q = RejectionOutcome(r, u)
             PROVE  Follows(r, q)
  OBVIOUS
<1>1. Sound(r) /\ WellKept(r) /\ PricesKept(r) /\ FlagDown(r) /\ r \in TravelRequest
  BY DEF Kept, Sound
<1>2. Sound(q) /\ WellKept(q) /\ Lawful(r, q) /\ OnRoute(r, q)
  BY <1>1, RejectionSound, RejectionWellKept, RejectionLawful, RejectionOnRoute
<1>3. PricesKept(q)
  <2>1. DepartmentRole(u) \in SystemRole /\ r.stage # "completed"
    BY DepartmentRoleType DEF AcceptsRejection, CanReject
  <2>2. /\ q.priceRevisions = r.priceRevisions /\ q.salaryPreview = r.salaryPreview
        /\ q.stage = "cancelled"
    BY <1>1, <2>1, RejectedEffect DEF RejectionOutcome
  <2>3. QED
    BY <1>1, <2>1, <2>2, UnmovedPricesKept
<1>4. QED
  BY <1>2, <1>3 DEF Follows, Kept, Lawful

LEMMA InfoRequestFollows ==
    ASSUME NEW r, Kept(r), NEW u \in Users, AcceptsInfoRequest(r, u)
    PROVE  Follows(r, InfoRequestOutcome(r, u))
<1> SUFFICES ASSUME NEW q, q = InfoRequestOutcome(r, u)
             PROVE  Follows(r, q)
  OBVIOUS
<1>1. /\ Sound(r) /\ WellKept(r) /\ PricesKept(r) /\ FlagDown(r) /\ r \in TravelRequest
      /\ r.stage = "manager-review"
  BY DEF Kept, Sound, AcceptsInfoRequest
<1>2. Amends(r, q)
  BY <1>1, InfoRequestAmends
<1>3. WellKept(q) /\ OnRoute(r, q)
  BY <1>1, <1>2, AmendmentKeepsHistory, AmendmentSignsNothing DEF OnRoute
<1>4. Sound(q) /\ Lawful(r, q)
  BY <1>1, InfoRequestSound, InfoRequestLawful
<1>5. PricesKept(q)
  <2>1. q = AskedForInfo(r, u, "manager")
    BY DEF InfoRequestOutcome
  <2>2. q.priceRevisions = r.priceRevisions /\ q.salaryPreview = r.salaryPreview
    BY <1>1, <2>1, AskedForInfoKeepsPrice
  <2>3. q.stage = r.stage
    BY <1>2 DEF Amends
  <2>4. QED
    BY <1>1, <2>2, <2>3, UnmovedPricesKept
<1>6. QED
  BY <1>3, <1>4, <1>5 DEF Follows, Kept, Lawful

LEMMA ReviewFollows ==
    ASSUME NEW r, Kept(r), NEW u \in Users, NEW allowed,
           NEW edits \in ReviewEdits(r, DepartmentRole(u)),
           AcceptsReview(r, u, edits, allowed)
    PROVE  Follows(r, ReviewOutcome(r, u, edits))
<1> DEFINE role == DepartmentRole(u)
<1> SUFFICES ASSUME NEW q, q = WithFinancialEdits(r, u, role, edits)
             PROVE  Follows(r, q)
  BY DEF ReviewOutcome
<1>1. Sound(r) /\ WellKept(r) /\ PricesKept(r) /\ FlagDown(r) /\ r \in TravelRequest
  BY DEF Kept, Sound
<1>2. /\ role \in SystemRole \ {"employee"} /\ IsEdit(edits)
      /\ r.stage \notin {"manager-review", "completed", "cancelled"}
  <2>1. role \in SystemRole \ {"employee"} /\ CanEdit(r, role)
    BY DepartmentRoleType DEF AcceptsReview
  <2>2. IsEdit(edits)
    BY <2>1, ReviewEditsType
  <2> HIDE DEF role
  <2>3. role # "manager" /\ r.stage \notin {"completed", "cancelled"}
    BY <1>1, <2>1 DEF CanEdit, FlagDown, Terminal
  <2>4. r.stage # "manager-review"
    BY <2>1, <2>3 DEF CanEdit, ApprovalStage, SystemRole
  <2>5. QED
    BY <2>1, <2>2, <2>3, <2>4
<1>3. Lawful(r, q)
  BY <1>1, ReviewLawful DEF ReviewOutcome
<1>4. Sound(q)
  BY <1>1, ReviewSound DEF ReviewOutcome
<1> HIDE DEF role
<1>5. Amends(r, q)
  BY <1>1, <1>2, FinancialEditsAmend
<1>6. WellKept(q) /\ OnRoute(r, q)
  BY <1>1, <1>2, <1>5, AmendmentKeepsHistory, AmendmentSignsNothing DEF OnRoute
<1>7. PricesKept(q)
  BY <1>1, <1>2, ReviewKeepsPrices
<1>8. QED
  BY <1>3, <1>4, <1>6, <1>7 DEF Follows, Kept, Lawful

LEMMA FinalizationFollows ==
    ASSUME NEW r, Kept(r), NEW u \in Users, NEW allowed, AcceptsFinalization(r, u, allowed)
    PROVE  Follows(r, FinalizationOutcome(r, u))
<1> SUFFICES ASSUME NEW q, q = FinalizationOutcome(r, u)
             PROVE  Follows(r, q)
  OBVIOUS
<1>1. Sound(r) /\ WellKept(r) /\ PricesKept(r) /\ FlagDown(r)
  BY DEF Kept
<1>2. Sound(q) /\ WellKept(q)
  BY <1>1, FinalizationSound, FinalizationWellKept
<1>3. PricesKept(q) /\ Lawful(r, q) /\ OnRoute(r, q)
  BY <1>1, FinalizationKeepsPrices, FinalizationLawful, FinalizationOnRoute
<1>4. QED
  BY <1>2, <1>3 DEF Follows, Kept, Lawful

Inv ==
    /\ Kept(request)
    /\ windowOpen \in BOOLEAN
    /\ active \subseteq Users

LEMMA InitInv == Init => Inv
<1> SUFFICES ASSUME Init PROVE Inv
  OBVIOUS
<1>1. request \in NewRequests
  BY DEF Init
<1>2. Sound(request) /\ WellKept(request)
  BY <1>1, NewRequestSound, NewRequestWellKept
<1>3. PricesKept(request) /\ FlagDown(request)
  <2>1. PICK o \in Users, m \in Users, t \in Trips, a \in Accommodations, x \in Transports :
          request = NewRequest(o, m, t, a, x)
    BY <1>1 DEF NewRequests
  <2>2. request.fields = SubmittedFields(t, a, x) /\ request.priceRevisions = <<>>
    BY <2>1 DEF NewRequest
  <2>3. FlagDown(request)
    BY <2>2 DEF SubmittedFields, FlagDown
  <2>4. PricesKept(request)
    BY <2>2 DEF PricesKept, ContinuousPrices, EveryRevisionMoves
  <2>5. QED
    BY <2>3, <2>4
<1>4. QED
  BY <1>2, <1>3 DEF Init, Inv, Kept

LEMMA StepFollows ==
    ASSUME Inv, [Next]_vars
    PROVE  request' = request \/ Follows(request, request')
<1>1. Kept(request) /\ active \subseteq Users
  BY DEF Inv
<1>2. ASSUME NEW u \in active, CorrectRequest(u)
      PROVE  Follows(request, request')
  BY <1>1, <1>2, CorrectionFollows DEF CorrectRequest
<1>3. ASSUME NEW u \in active, DepartmentStep(u)
      PROVE  Follows(request, request')
  <2>1. u \in Users
    BY <1>1
  <2>2. CASE ApproveRequest(u)
    BY <1>1, <2>1, <2>2, ApprovalFollows DEF ApproveRequest
  <2>3. CASE RejectRequest(u)
    BY <1>1, <2>1, <2>3, RejectionFollows DEF RejectRequest
  <2>4. CASE RequestMoreInfo(u)
    BY <1>1, <2>1, <2>4, InfoRequestFollows DEF RequestMoreInfo
  <2>5. CASE ReviewRequest(u)
    BY <1>1, <2>1, <2>5, ReviewFollows DEF ReviewRequest
  <2>6. CASE FinalizeRequest(u)
    BY <1>1, <2>1, <2>6, FinalizationFollows DEF FinalizeRequest
  <2>7. QED
    BY <1>3, <2>2, <2>3, <2>4, <2>5, <2>6 DEF DepartmentStep
<1>4. UNCHANGED vars \/ CloseEditWindow \/ (\E listed \in SUBSET Leavers : ImportDirectory(listed))
        => request' = request
  BY DEF CloseEditWindow, ImportDirectory, vars
<1>5. QED
  BY <1>2, <1>3, <1>4, Zenon DEF Next

LEMMA NextInv == Inv /\ [Next]_vars => Inv'
<1> SUFFICES ASSUME Inv, [Next]_vars PROVE Inv'
  OBVIOUS
<1>1. Kept(request')
  BY StepFollows DEF Inv, Follows
<1>2. windowOpen' \in BOOLEAN /\ active' \subseteq Users
  BY LeaversAssumption
     DEF Inv, Next, vars, CorrectRequest, DepartmentStep, ApproveRequest, RejectRequest,
         RequestMoreInfo, ReviewRequest, FinalizeRequest, CloseEditWindow, ImportDirectory
<1>3. Kept(request)' <=> Kept(request')
  BY DEF Kept, Sound, FiguresTraced, WellKept, ContiguousTrail, SignedOnceInOrder, ReachedStage,
         TrailExplainsFields, PricesKept, ContinuousPrices, EveryRevisionMoves, FlagDown
<1>4. QED
  BY <1>1, <1>2, <1>3 DEF Inv

\* Every reachable record is kept: the invariant the theorems below rest on.
THEOREM SpecInv == Spec => []Inv
<1>1. Init => Inv
  BY InitInv
<1>2. Inv /\ [Next]_vars => Inv'
  BY NextInv
<1>3. QED
  BY <1>1, <1>2, PTL DEF Spec

(***************************************************************************)
(* Theorems                                                                *)
(***************************************************************************)

\* Whatever the company, the itineraries and the price rule, every handler
\* stores a record of the shape both stores persist.
THEOREM TypeCorrect == Spec => []TypeOK
<1>1. Inv => TypeOK
  BY DEF Inv, Kept, Sound, TypeOK
<1>2. QED
  BY <1>1, SpecInv, PTL

\* No sequence of calls leaves a gap in the audit trail, or a trail that ends
\* anywhere but at the request's stage (createAuditEvent, withAuditEvent).
THEOREM TrailContiguous == Spec => []AuditTrailIsContiguous
<1>1. Inv => AuditTrailIsContiguous
  BY DEF Inv, Kept, WellKept, AuditTrailIsContiguous
<1>2. QED
  BY <1>1, SpecInv, PTL

\* Whatever calls arrive in whatever order, a request is past a department's
\* stage exactly when that department has signed it, once, at that stage, and
\* the first signature is the selected manager's (canApprove,
\* assertAssignedManager).
THEOREM DepartmentsSignOnce == Spec => []DepartmentsSignOnceInOrder
<1>1. Inv => DepartmentsSignOnceInOrder
  BY DEF Inv, Kept, WellKept, DepartmentsSignOnceInOrder
<1>2. QED
  BY <1>1, SpecInv, PTL

\* The recorded changes, read in order, lead from what the employee submitted to
\* what is stored, for every field and every history (changesFor, editRequest).
THEOREM TrailExplains == Spec => []AuditTrailExplainsFields
<1>1. Inv => AuditTrailExplainsFields
  BY DEF Inv, Kept, WellKept, AuditTrailExplainsFields
<1>2. QED
  BY <1>1, SpecInv, PTL

\* The preview is the price of the current fields after every operation, for
\* every price rule that ignores the open-question flag.
THEOREM PreviewCurrent == Spec => []PreviewFollowsFields
<1>1. Inv => PreviewFollowsFields
  BY DEF Inv, Kept, Sound, PreviewFollowsFields
<1>2. QED
  BY <1>1, SpecInv, PTL

\* The price history has no gap and no idle revision but the one that locks the
\* amount, for every price rule (applyFinancialEdits, finalizeRequest).
THEOREM PricesContinuous == Spec => []PriceHistoryIsContinuous
<1>1. Inv => PriceHistoryIsContinuous
  BY DEF Inv, Kept, PricesKept, PriceHistoryIsContinuous
<1>2. QED
  BY <1>1, SpecInv, PTL

\* No amount is locked before timing has entered the attendance and payroll the
\* ticket price, and what is locked is the price of those figures.
THEOREM FinalAmountVerified == Spec => []PaidOnVerifiedFigures
<1>1. Inv => PaidOnVerifiedFigures
  BY SoundRequestIsPaidAsVerified DEF Inv, Kept, PaidOnVerifiedFigures
<1>2. QED
  BY <1>1, SpecInv, PTL

\* No call moves a request by more than one stage, backwards, or out of a
\* completed or cancelled state (assertNotTerminal, canApprove, canReject).
THEOREM RequestsOnlyAdvance == Spec => StagesOnlyAdvance
<1> DEFINE Step ==
      /\ request'.stage # request.stage =>
            \/ StageRank(request'.stage) = StageRank(request.stage) + 1 /\ request'.stage # "cancelled"
            \/ request'.stage = "cancelled" /\ request.stage \in {"manager-review", "timing-review"}
      /\ request.stage \in Terminal => UNCHANGED request
<1>1. Inv /\ [Next]_vars => Step
  BY StepFollows DEF Follows, Lawful, Advances
<1>2. QED
  BY <1>1, SpecInv, PTL DEF Spec, StagesOnlyAdvance

\* No call changes a field that an earlier stage has settled, or that the stage
\* the request is at does not own (canEdit, EDITABLE_FIELDS).
THEOREM SettledFieldsAreFrozen == Spec => SettledFieldsStayFrozen
<1> DEFINE Step ==
      \A k \in FieldName :
         request'.fields[k] # request.fields[k] => request.stage \in OpenAt(k)
<1>1. Inv /\ [Next]_vars => Step
  BY StepFollows DEF Follows, Lawful, OnlyOpenFieldsMove
<1>2. QED
  BY <1>1, SpecInv, PTL DEF Spec, SettledFieldsStayFrozen

(***************************************************************************)
(* The request follows the route of ApprovalRoute                          *)
(***************************************************************************)

LEMMA InitOnRoute == Init => Route!Init
<1> SUFFICES ASSUME Init PROVE Route!Init
  OBVIOUS
<1>1. PICK o \in Users, m \in Users, t \in Trips, a \in Accommodations, x \in Transports :
        request = NewRequest(o, m, t, a, x)
  BY DEF Init, NewRequests
<1>2. request.stage = "manager-review"
  BY <1>1 DEF NewRequest
<1>3. Len(request.audit) = 1 /\ request.audit[1].action = "submit" /\ DOMAIN request.audit = {1}
  BY <1>1 DEF NewRequest
<1>4. Signatures(request) = {}
  BY <1>3 DEF Signatures
<1>5. QED
  BY <1>2, <1>4 DEF Route!Init, Route!InTurn, Route!ReviewStages, Route!Departments,
                    Route!SignedAt

LEMMA StepMapsToRoute == Inv /\ [Next]_vars => [Route!NextButForTiming]_(Route!vars)
<1> SUFFICES ASSUME Inv, [Next]_vars PROVE [Route!NextButForTiming]_(Route!vars)
  OBVIOUS
<1>1. OnRoute(request, request')
  BY StepFollows DEF Follows, OnRoute, Signatures
<1>2. CASE request'.stage = request.stage /\ Signatures(request') = Signatures(request)
  <2>1. Signatures(request)' = Signatures(request')
    BY DEF Signatures
  <2>2. QED
    BY <1>2, <2>1 DEF Route!vars
<1>3. Signatures(request)' = Signatures(request')
  BY DEF Signatures
<1>4. CASE /\ request.stage \in Route!ReviewStages
           /\ request'.stage = Route!After[request.stage]
           /\ Signatures(request') = Signatures(request) \union {Route!Department[request.stage]}
  BY <1>3, <1>4 DEF Route!NextButForTiming, Route!Next, Route!Sign
<1>5. CASE /\ request.stage \in Route!CancelledAt
           /\ request'.stage = "cancelled" /\ Signatures(request') = Signatures(request)
  <2>1. Route!Leave("request", request.stage)
    BY <1>3, <1>5 DEF Route!Leave
  <2>2. Route!Cancel("request") \/ Route!TimingRejects("request")
    BY <1>5, <2>1 DEF Route!CancelledAt, Route!Cancel, Route!TimingRejects
  <2>3. QED
    BY <2>2 DEF Route!NextButForTiming, Route!Next
<1>6. QED
  BY <1>1, <1>2, <1>4, <1>5 DEF OnRoute

\* The server keeps to ApprovalRoute but for the rejections by timing, which the
\* documents exclude: whatever calls arrive, in whatever order, a request passes the
\* five departments one after the other, and its audit trail shows their signatures
\* (workflowService.ts, workflowApplicationService.ts).
THEOREM ServerFollowsRoute == Spec => FollowsRouteButForTiming
<1>1. Init => Route!Init
  BY InitOnRoute
<1>2. Inv /\ [Next]_vars => [Route!NextButForTiming]_(Route!vars)
  BY StepMapsToRoute
<1>3. QED
  BY <1>1, <1>2, SpecInv, PTL DEF Spec, FollowsRouteButForTiming, Route!SpecButForTiming

LEMMA RouteSignKeepsTurn ==
    ASSUME Route!SignedInTurn, NEW r \in {"request"}, Route!Sign(r)
    PROVE  Route!SignedInTurn'
<1> DEFINE s == request.stage
<1>1. s \in Route!ReviewStages /\ Signatures(request) = Route!SignedAt(s)
  BY DEF Route!Sign, Route!SignedInTurn, Route!InTurn, Route!ReviewStages
<1>2. /\ request'.stage = Route!After[s]
      /\ Signatures(request)' = Signatures(request) \union {Route!Department[s]}
  BY DEF Route!Sign
<1>3. /\ Route!After[s] \in Route!ReviewStages \union {"completed"}
      /\ Route!Department[s] \in Route!Departments
      /\ Route!SignedAt(Route!After[s]) = Route!SignedAt(s) \union {Route!Department[s]}
  BY <1>1 DEF Route!After, Route!Department, Route!Departments, Route!SignedAt,
              Route!ReviewStages
<1> HIDE DEF s
<1>4. Signatures(request) \in SUBSET Route!Departments
  BY DEF Route!SignedInTurn
<1>5. QED
  BY <1>1, <1>2, <1>3, <1>4 DEF Route!SignedInTurn, Route!InTurn

LEMMA RouteLeaveKeepsTurn ==
    ASSUME Route!SignedInTurn, NEW r \in {"request"}, NEW s \in Route!CancelledAt, Route!Leave(r, s)
    PROVE  Route!SignedInTurn'
<1>1. /\ request.stage = s /\ s \in Route!ReviewStages
      /\ Signatures(request) = Route!SignedAt(s)
  BY DEF Route!Leave, Route!CancelledAt, Route!MayCancel, Route!ReviewStages,
         Route!SignedInTurn, Route!InTurn
<1>2. request'.stage = "cancelled" /\ Signatures(request)' = Signatures(request)
  BY DEF Route!Leave
<1>3. Signatures(request) \in SUBSET Route!Departments
  BY DEF Route!SignedInTurn
<1>4. QED
  BY <1>1, <1>2, <1>3 DEF Route!SignedInTurn, Route!InTurn

\* What is left of the route's promise: a request is paid only with the signatures
\* of all five departments in its audit trail, at each stage the trail shows exactly
\* those of the departments before it, and a cancelled request has those of the
\* stage at which the manager or timing rejected it.
THEOREM SignaturesFollowTheStages == Spec => []Route!SignedInTurn
<1>1. Route!Init => Route!SignedInTurn
  BY DEF Route!Init, Route!SignedInTurn, Route!InTurn, Route!CancelledAt
<1>2. Route!SignedInTurn /\ [Route!NextButForTiming]_(Route!vars) => Route!SignedInTurn'
  <2> SUFFICES ASSUME Route!SignedInTurn, [Route!NextButForTiming]_(Route!vars)
               PROVE  Route!SignedInTurn'
    OBVIOUS
  <2>1. ASSUME NEW r \in {"request"}, Route!Submit(r) PROVE Route!SignedInTurn'
    BY <2>1 DEF Route!Submit, Route!SignedInTurn, Route!InTurn, Route!SignedAt,
                Route!ReviewStages
  <2>2. ASSUME NEW r \in {"request"}, Route!Sign(r) PROVE Route!SignedInTurn'
    BY <2>2, RouteSignKeepsTurn
  <2>3. ASSUME NEW r \in {"request"}, Route!Cancel(r) PROVE Route!SignedInTurn'
    BY <2>3, RouteLeaveKeepsTurn DEF Route!Cancel, Route!CancelledAt
  <2>4. ASSUME NEW r \in {"request"}, Route!TimingRejects(r) PROVE Route!SignedInTurn'
    BY <2>4, RouteLeaveKeepsTurn DEF Route!TimingRejects, Route!CancelledAt
  <2>5. CASE UNCHANGED Route!vars
    BY <2>5 DEF Route!vars, Route!SignedInTurn, Route!InTurn
  <2>6. QED
    BY <2>1, <2>2, <2>3, <2>4, <2>5 DEF Route!NextButForTiming, Route!Next
<1>3. QED
  BY <1>1, <1>2, ServerFollowsRoute, PTL DEF FollowsRouteButForTiming, Route!SpecButForTiming

(***************************************************************************)
(* TravelAllowance: for every set of instants, every level and every       *)
(* calendar in which clocks are not set back across midnight, what the     *)
(* lifecycle pays when its parameters are those of the calculation.        *)
(***************************************************************************)

(***************************************************************************)
(* The amounts, for every level, accommodation and number of nights        *)
(***************************************************************************)

\* The rates are whole multiples of 8 and of 10 hundredths.
LEMMA RatesDivide ==
    /\ SalaryRates(JobLevel) \in Nat /\ SalaryRates(JobLevel) > 0
    /\ SalaryRates(JobLevel) = 8 * (SalaryRates(JobLevel) \div 8)
    /\ SalaryRates(JobLevel) = 10 * (SalaryRates(JobLevel) \div 10)
<1>1. SalaryRates(JobLevel) \in {27000, 24000, 20000, 14000, 11000, 6000}
  BY DEF SalaryRates
<1>2. QED
  BY <1>1

LEMMA FactorType ==
    ASSUME NEW type \in AccommodationType
    PROVE  AccommodationFactors(type) \in Nat
BY DEF AccommodationType, AccommodationFactors

\* Rounding gives back an amount that is whole.
LEMMA WholeAmountsStay ==
    ASSUME NEW k \in Int
    PROVE  Rounded(Fortieths(k)) = k
BY DEF Rounded, Fortieths

\* What a salary input looks like once it has passed the validation.
IsSalaryInput(input) ==
    /\ input.accommodationType \in AccommodationType
    /\ input.overnightCount \in Nat
    /\ input.isSameDayMission \in BOOLEAN
    /\ input.sameDayMinutes \in Nat
    /\ input.returnDayMinutes \in Nat
    /\ input.transportationCost \in Nat
    /\ input.bonusAmount \in Nat
    /\ input.penaltyAmount \in Nat

\* The amounts in closed form: none of them needs rounding.
LEMMA AmountsAreWhole ==
    ASSUME NEW input, IsSalaryInput(input), NEW c, c = CalculateSalary(input),
           NEW rate, rate = SalaryRates(JobLevel),
           NEW factor, factor = AccommodationFactors(input.accommodationType)
    PROVE  /\ c.overnightAmount =
                IF input.isSameDayMission THEN 0
                ELSE (rate \div 8) * input.overnightCount * factor
           /\ c.sameDayAmount =
                IF input.isSameDayMission /\ input.sameDayMinutes >= SevenHours
                THEN rate \div 2 ELSE 0
           /\ c.returnDayAmount =
                IF ~input.isSameDayMission /\ input.returnDayMinutes >= SevenHours
                THEN (3 * rate) \div 10 ELSE 0
           /\ c.totalAmount =
                c.overnightAmount + c.sameDayAmount + c.returnDayAmount
                  + input.transportationCost + input.bonusAmount - input.penaltyAmount
<1> DEFINE n == input.overnightCount
           eighth == rate \div 8
           overnight == IF input.isSameDayMission THEN 0 ELSE 5 * rate * n * factor
           overnightWhole == IF input.isSameDayMission THEN 0 ELSE eighth * n * factor
           sameDay == IF input.isSameDayMission /\ input.sameDayMinutes >= SevenHours
                      THEN 20 * rate ELSE 0
           sameDayWhole == IF input.isSameDayMission /\ input.sameDayMinutes >= SevenHours
                           THEN rate \div 2 ELSE 0
           returnDay == IF ~input.isSameDayMission /\ input.returnDayMinutes >= SevenHours
                        THEN 12 * rate ELSE 0
           returnDayWhole == IF ~input.isSameDayMission /\ input.returnDayMinutes >= SevenHours
                             THEN (3 * rate) \div 10 ELSE 0
           extra == input.transportationCost + input.bonusAmount - input.penaltyAmount
<1>1. rate \in Nat /\ factor \in Nat /\ n \in Nat /\ eighth \in Nat /\ extra \in Int
  BY RatesDivide, FactorType DEF IsSalaryInput
<1>2. overnight = Fortieths(overnightWhole) /\ overnightWhole \in Nat
  <2>1. rate = 8 * eighth
    BY RatesDivide
  <2> HIDE DEF n, eighth
  <2>2. 5 * rate * n * factor = 40 * (eighth * n * factor)
    <3>1. 5 * (8 * eighth) * n * factor = 40 * (eighth * n * factor)
      BY <1>1
    <3>2. QED
      BY <2>1, <3>1
  <2>3. eighth * n * factor \in Nat
    BY <1>1
  <2>4. QED
    BY <2>2, <2>3 DEF Fortieths
<1>3. sameDay = Fortieths(sameDayWhole) /\ sameDayWhole \in Nat
  BY RatesDivide DEF Fortieths
<1>4. returnDay = Fortieths(returnDayWhole) /\ returnDayWhole \in Nat
  BY RatesDivide DEF Fortieths
<1>5. c.overnightAmount = Rounded(overnight) /\ c.sameDayAmount = Rounded(sameDay)
      /\ c.returnDayAmount = Rounded(returnDay)
      /\ c.totalAmount = Rounded(overnight + sameDay + returnDay + Fortieths(extra))
  BY DEF CalculateSalary
<1> HIDE DEF overnight, sameDay, returnDay, overnightWhole, sameDayWhole, returnDayWhole, extra
<1>6. overnight + sameDay + returnDay + Fortieths(extra)
        = Fortieths(overnightWhole + sameDayWhole + returnDayWhole + extra)
  BY <1>1, <1>2, <1>3, <1>4 DEF Fortieths
<1>7. /\ c.overnightAmount = overnightWhole /\ c.sameDayAmount = sameDayWhole
      /\ c.returnDayAmount = returnDayWhole
      /\ c.totalAmount = overnightWhole + sameDayWhole + returnDayWhole + extra
  BY <1>1, <1>2, <1>3, <1>4, <1>5, <1>6, WholeAmountsStay
<1>8. QED
  <2>1. c.totalAmount = c.overnightAmount + c.sameDayAmount + c.returnDayAmount + extra
    BY <1>7
  <2>2. overnightWhole + sameDayWhole + returnDayWhole + extra
          = overnightWhole + sameDayWhole + returnDayWhole + input.transportationCost
              + input.bonusAmount - input.penaltyAmount
    BY <1>2, <1>3, <1>4 DEF extra, IsSalaryInput
  <2>3. QED
    BY <1>7, <2>2 DEF overnightWhole, sameDayWhole, returnDayWhole

\* The rounded parts that the salary page lists add up to the rounded total
\* that is locked (calculateSalary).
THEOREM AmountsAddUp ==
    ASSUME NEW input, IsSalaryInput(input), NEW c, c = CalculateSalary(input)
    PROVE  c.totalAmount =
             c.overnightAmount + c.sameDayAmount + c.returnDayAmount
               + c.transportationCost + c.bonusAmount - c.penaltyAmount
<1>1. /\ c.transportationCost = input.transportationCost
      /\ c.bonusAmount = input.bonusAmount /\ c.penaltyAmount = input.penaltyAmount
  BY DEF CalculateSalary
<1>2. c.totalAmount =
        c.overnightAmount + c.sameDayAmount + c.returnDayAmount
          + input.transportationCost + input.bonusAmount - input.penaltyAmount
  BY AmountsAreWhole
<1>3. QED
  BY <1>1, <1>2

(***************************************************************************)
(* The calendar                                                            *)
(***************************************************************************)

LEMMA InstantTypes ==
    ASSUME NEW t \in Instants
    PROVE  /\ t \in Int /\ LocalTime(t) \in Int
           /\ LocalDay(t) \in Int /\ UtcDay(t) \in Int
           /\ MinutesPerDay * LocalDay(t) <= LocalTime(t)
           /\ LocalTime(t) < MinutesPerDay * (LocalDay(t) + 1)
BY CalendarAssumption DEF LocalTime, LocalDay, UtcDay, MinutesPerDay

LEMMA ItineraryTypes ==
    ASSUME AllowanceParameters, NEW t \in Trips
    PROVE  /\ t.tripType \in {"one-way", "round-trip"}
           /\ t.departureAt \in Instants /\ t.returnAt \in Instants
           /\ t.departureAt <= t.returnAt
           /\ TripType[t] = "one-way" => t.departureAt = t.returnAt
<1>1. t \in Itineraries /\ TripType[t] = t.tripType
  BY DEF AllowanceParameters
<1>2. /\ t.tripType \in {"one-way", "round-trip"}
      /\ t.departureAt \in Instants /\ t.returnAt \in Instants
      /\ IF t.tripType = "one-way" THEN t.returnAt = t.departureAt
                                   ELSE t.returnAt > t.departureAt
  BY <1>1 DEF Itineraries
<1>3. t.departureAt \in Int /\ t.returnAt \in Int
  BY <1>2, CalendarAssumption
<1>4. QED
  BY <1>1, <1>2, <1>3

LEMMA ReturnDayMinutesType ==
    ASSUME NEW t \in Instants
    PROVE  ReturnDayMinutes(t) \in Nat
<1>1. LocalTime(t) % MinutesPerDay \in Int
  BY InstantTypes DEF MinutesPerDay
<1>2. QED
  BY <1>1 DEF ReturnDayMinutes

\* The difference of dates in overnightCount counts the midnights of the trip.
LEMMA NightsAreMidnights ==
    ASSUME AllowanceParameters, NEW d \in Trips
    PROVE  /\ MidnightsSpanned(d) = OvernightCount(d.departureAt, d.returnAt)
           /\ MidnightsSpanned(d) = LocalDay(d.returnAt) - LocalDay(d.departureAt)
           /\ MidnightsSpanned(d) \in Nat
<1> DEFINE from == LocalDay(d.departureAt)
           to == LocalDay(d.returnAt)
           spanned == {day \in from..to : LocalTime(d.departureAt) < MinutesPerDay * day}
<1>1. from \in Int /\ to \in Int /\ from <= to
  BY ItineraryTypes, InstantTypes, CalendarAssumption
<1>2. \A day \in Int : LocalTime(d.departureAt) < MinutesPerDay * day <=> day >= from + 1
  BY ItineraryTypes, InstantTypes DEF MinutesPerDay
<1>3. MidnightsSpanned(d) = Cardinality(spanned)
  BY DEF MidnightsSpanned
<1>4. OvernightCount(d.departureAt, d.returnAt) = IF to - from > 0 THEN to - from ELSE 0
  BY DEF OvernightCount
<1> HIDE DEF from, to
<1>5. spanned = (from + 1)..to
  BY <1>1, <1>2
<1> HIDE DEF spanned
<1>6. Cardinality(spanned) = IF from + 1 > to THEN 0 ELSE to - (from + 1) + 1
  BY <1>1, <1>5, FS_Interval
<1>7. Cardinality(spanned) = to - from
  BY <1>1, <1>6
<1>8. QED
  BY <1>1, <1>3, <1>4, <1>7 DEF from, to

(***************************************************************************)
(* The price of a request                                                  *)
(***************************************************************************)

\* The input that recalculateSalaryPreview passes to calculateSalary.
InputOf(f) ==
    LET dates == IF f.verifiedDates = NotVerified THEN f.trip ELSE f.verifiedDates
        nights == OvernightCount(dates.departureAt, dates.returnAt)
        oneDay == VerifiedOnOneDay(f, NotVerified)
    IN  [accommodationType |-> f.accommodationType,
         overnightCount |-> nights,
         isSameDayMission |-> nights = 0,
         sameDayMinutes |-> IF oneDay THEN CreditedMinutes(f) ELSE 0,
         returnDayMinutes |-> IF oneDay THEN 0 ELSE CreditedMinutes(f),
         transportationCost |-> f.ticket,
         bonusAmount |-> f.adjustments.bonus,
         penaltyAmount |-> f.adjustments.penalty]

LEMMA RecalculationInput ==
    ASSUME AllowanceParameters, NEW f \in Fields
    PROVE  /\ RecalculateSalaryPreview(f, NotVerified) = CalculateSalary(InputOf(f))
           /\ IsSalaryInput(InputOf(f))
<1> DEFINE dates == IF f.verifiedDates = NotVerified THEN f.trip ELSE f.verifiedDates
           nights == OvernightCount(dates.departureAt, dates.returnAt)
           minutes == CreditedMinutes(f)
           i == InputOf(f)
<1>1. RecalculateSalaryPreview(f, NotVerified) = CalculateSalary(i)
  BY DEF RecalculateSalaryPreview, InputOf
<1>2. dates \in Trips
  BY DEF Fields
<1> HIDE DEF dates
<1>3. nights \in Nat
  BY <1>2, NightsAreMidnights
<1>4. minutes \in Nat
  BY DEF CreditedMinutes, SevenHours
<1>5. f.accommodationType \in AccommodationType
  BY DEF AllowanceParameters, Fields
<1>6. f.ticket \in Nat /\ f.adjustments.bonus \in Nat /\ f.adjustments.penalty \in Nat
  BY DEF AllowanceParameters, Fields
<1>7. /\ i.accommodationType = f.accommodationType
      /\ i.overnightCount = nights
      /\ i.isSameDayMission = (nights = 0)
      /\ i.sameDayMinutes \in {0, minutes} /\ i.returnDayMinutes \in {0, minutes}
      /\ i.transportationCost = f.ticket
      /\ i.bonusAmount = f.adjustments.bonus /\ i.penaltyAmount = f.adjustments.penalty
  BY DEF InputOf, dates
<1> HIDE DEF nights, minutes, i
<1>8. IsSalaryInput(i)
  BY <1>3, <1>4, <1>5, <1>6, <1>7 DEF IsSalaryInput
<1>9. QED
  BY <1>1, <1>8 DEF i

\* The calculation the program uses has the two properties that the theorems of
\* RequestLifecycle assume of one: a total that is a number, and no regard for
\* the flag of an open question (recalculateSalaryPreview).
THEOREM RecalculationMeetsAssumption ==
    ASSUME AllowanceParameters, NEW f \in Fields
    PROVE  /\ RecalculateSalaryPreview(f, NotVerified).totalAmount \in Int
           /\ RecalculateSalaryPreview([f EXCEPT !.pendingEmployeeResponse = TRUE], NotVerified)
                = RecalculateSalaryPreview(f, NotVerified)
<1> DEFINE i == InputOf(f)
           c == CalculateSalary(i)
<1>1. IsSalaryInput(i) /\ RecalculateSalaryPreview(f, NotVerified) = c
  BY RecalculationInput
<1> HIDE DEF i
<1>2. c.totalAmount \in Int
  <2>1. Rounded(5) \in Int /\ \A x \in Int : Rounded(x) \in Int
    BY DEF Rounded
  <2>2. /\ i.overnightCount \in Int /\ i.transportationCost \in Int
        /\ i.bonusAmount \in Int /\ i.penaltyAmount \in Int
        /\ AccommodationFactors(i.accommodationType) \in Int /\ SalaryRates(JobLevel) \in Int
    BY <1>1, RatesDivide, FactorType DEF IsSalaryInput
  <2>3. QED
    BY <2>1, <2>2 DEF CalculateSalary, Fortieths
<1> HIDE DEF c
<1>3. InputOf([f EXCEPT !.pendingEmployeeResponse = TRUE]) = InputOf(f)
  BY DEF InputOf, Fields, VerifiedOnOneDay, CreditedMinutes
<1>4. [f EXCEPT !.pendingEmployeeResponse = TRUE] \in Fields
  BY DEF Fields
<1>5. QED
  BY <1>1, <1>2, <1>3, <1>4, RecalculationInput

\* Whatever attendance is recorded, the parts of the price are what the rules
\* say of the verified dates, if both calendars agree on one-day trips.
LEMMA VerifiedAllowance ==
    ASSUME AllowanceParameters,
           NEW f \in Fields, f.verifiedDates # NotVerified, CalendarsAgree(f.verifiedDates),
           NEW c, c = RecalculateSalaryPreview(f, NotVerified)
    PROVE  AllowanceOf(c) =
             AllowanceByTheRules(f.verifiedDates, f.accommodationType, f.hoursCredited)
<1> DEFINE d == f.verifiedDates
           i == InputOf(f)
           nights == MidnightsSpanned(d)
           rate == SalaryRates(JobLevel)
           factor == AccommodationFactors(f.accommodationType)
<1>1. c = CalculateSalary(i) /\ IsSalaryInput(i)
  BY RecalculationInput
<1>2. d \in Trips
  BY DEF Fields
<1>3. /\ nights \in Nat
      /\ nights = OvernightCount(d.departureAt, d.returnAt)
      /\ nights = 0 <=> LocalDay(d.departureAt) = LocalDay(d.returnAt)
  BY <1>2, NightsAreMidnights, ItineraryTypes, InstantTypes
<1>4. VerifiedOnOneDay(f, NotVerified) <=> nights = 0
  BY <1>3 DEF VerifiedOnOneDay, CalendarsAgree
<1>5. f.hoursCredited \in BOOLEAN
  BY DEF Fields
<1>6. /\ i.accommodationType = f.accommodationType /\ i.overnightCount = nights
      /\ i.isSameDayMission = (nights = 0)
      /\ i.sameDayMinutes = IF nights = 0 THEN CreditedMinutes(f) ELSE 0
      /\ i.returnDayMinutes = IF nights = 0 THEN 0 ELSE CreditedMinutes(f)
  BY <1>3, <1>4 DEF InputOf
<1>7. CreditedMinutes(f) = (IF f.hoursCredited THEN 420 ELSE 0) /\ SevenHours = 420
  BY DEF CreditedMinutes, SevenHours
<1>8. rate \in Nat /\ factor \in Nat /\ rate = 8 * (rate \div 8)
  BY <1>1, <1>6, RatesDivide, FactorType DEF IsSalaryInput
<1> HIDE DEF nights, i, rate, factor
<1>9. /\ c.overnightAmount = IF nights = 0 THEN 0 ELSE (rate \div 8) * nights * factor
      /\ c.sameDayAmount = IF nights = 0 /\ f.hoursCredited THEN rate \div 2 ELSE 0
      /\ c.returnDayAmount = IF nights # 0 /\ f.hoursCredited THEN (3 * rate) \div 10 ELSE 0
  <2>1. /\ c.overnightAmount =
             IF i.isSameDayMission THEN 0 ELSE (rate \div 8) * i.overnightCount * factor
        /\ c.sameDayAmount =
             IF i.isSameDayMission /\ i.sameDayMinutes >= SevenHours THEN rate \div 2 ELSE 0
        /\ c.returnDayAmount =
             IF ~i.isSameDayMission /\ i.returnDayMinutes >= SevenHours
             THEN (3 * rate) \div 10 ELSE 0
    BY <1>1, <1>6, AmountsAreWhole DEF rate, factor
  <2>2. CASE nights = 0
    <3>1. i.isSameDayMission
      BY <1>6, <2>2
    <3>2. i.sameDayMinutes >= SevenHours <=> f.hoursCredited
      BY <1>5, <1>6, <1>7, <2>2
    <3>3. /\ c.overnightAmount = 0 /\ c.returnDayAmount = 0
          /\ c.sameDayAmount = IF f.hoursCredited THEN rate \div 2 ELSE 0
      BY <2>1, <3>1, <3>2, Zenon
    <3>4. QED
      BY <2>2, <3>3, Zenon
  <2>3. CASE nights # 0
    <3>1. ~i.isSameDayMission
      BY <1>6, <2>3
    <3>2. i.returnDayMinutes >= SevenHours <=> f.hoursCredited
      BY <1>5, <1>6, <1>7, <2>3
    <3>3. /\ c.overnightAmount = (rate \div 8) * nights * factor /\ c.sameDayAmount = 0
          /\ c.returnDayAmount = IF f.hoursCredited THEN (3 * rate) \div 10 ELSE 0
      BY <1>6, <2>1, <3>1, <3>2, Zenon
    <3>4. QED
      BY <2>3, <3>3, Zenon
  <2>4. QED
    BY <2>2, <2>3
<1>10. (rate * nights * factor) \div 8 = (rate \div 8) * nights * factor
  <2>1. PICK e \in Nat : e = rate \div 8
    BY <1>8
  <2>2. rate * nights * factor = 8 * (e * nights * factor)
    <3>1. 8 * e * nights * factor = 8 * (e * nights * factor)
      BY <1>3, <1>8, <2>1
    <3>2. QED
      BY <1>8, <2>1, <3>1
  <2>3. e * nights * factor \in Nat
    BY <1>3, <1>8, <2>1
  <2>4. QED
    BY <2>1, <2>2, <2>3
<1>11. AllowanceByTheRules(d, f.accommodationType, f.hoursCredited) =
         (rate \div 8) * nights * factor
           + IF ~f.hoursCredited THEN 0
             ELSE IF nights = 0 THEN rate \div 2 ELSE (3 * rate) \div 10
  BY <1>10 DEF AllowanceByTheRules, nights, rate, factor
<1>12. (rate \div 8) * nights * factor \in Nat /\ (rate \div 8) * 0 * factor = 0
  BY <1>3, <1>8
<1>13. AllowanceOf(c) = c.overnightAmount + c.sameDayAmount + c.returnDayAmount
  BY DEF AllowanceOf
<1>14. CASE nights = 0
  <2>1. c.overnightAmount = 0 /\ c.returnDayAmount = 0
        /\ c.sameDayAmount = IF f.hoursCredited THEN rate \div 2 ELSE 0
    BY <1>9, <1>14
  <2>2. QED
    BY <1>8, <1>11, <1>12, <1>13, <1>14, <2>1
<1>15. CASE nights # 0
  <2>1. c.overnightAmount = (rate \div 8) * nights * factor /\ c.sameDayAmount = 0
        /\ c.returnDayAmount = IF f.hoursCredited THEN (3 * rate) \div 10 ELSE 0
    BY <1>9, <1>15
  <2>2. QED
    BY <1>8, <1>11, <1>12, <1>13, <1>15, <2>1
<1>16. QED
  BY <1>14, <1>15

\* A request that timing has verified is priced by the published rules on the
\* verified dates, whatever was claimed, corrected or reviewed before, if both
\* calendars agree on one-day trips (recalculateSalaryPreview, approvalEdits).
THEOREM VerifiedTripsArePricedByTheRules ==
    ASSUME AllowanceParameters PROVE Spec => []VerifiedTripsFollowTheRules
<1>1. Inv => VerifiedTripsFollowTheRules
  <2> SUFFICES ASSUME Inv PROVE VerifiedTripsFollowTheRules
    OBVIOUS
  <2>1. request.fields \in Fields /\ request.salaryPreview = Calculate(request.fields)
    BY RequestParts DEF Inv, Kept, Sound
  <2>2. request.salaryPreview = RecalculateSalaryPreview(request.fields, NotVerified)
    BY <2>1 DEF AllowanceParameters
  <2>3. QED
    BY <2>1, <2>2, VerifiedAllowance DEF VerifiedTripsFollowTheRules
<1>2. QED
  BY <1>1, SpecInv, PTL

(***************************************************************************)
(* One-way trips, and the preview of a request nobody has touched          *)
(***************************************************************************)

\* Corrections and attendance keep the type of the trip, a one-way trip earns no
\* hours, and the fields start as createNewRequest sets them.
AttendanceTraced(r) ==
    /\ TripType[r.fields.trip] = TripType[r.submitted.trip]
    /\ r.fields.verifiedDates # NotVerified =>
          TripType[r.fields.verifiedDates] = TripType[r.submitted.trip]
    /\ TripType[r.submitted.trip] = "one-way" => ~r.fields.hoursCredited
    /\ Len(r.audit) = 1 =>
          r.fields = SubmittedFields(r.fields.trip, r.fields.accommodationType,
                                     r.fields.transportation)

AllowanceInv == Inv /\ AttendanceTraced(request)

\* Edits that keep the type of the trip and credit a one-way trip no hours.
FitsTrip(r, edits) ==
    /\ "trip" \in DOMAIN edits => TripType[edits.trip] = TripType[r.fields.trip]
    /\ "verifiedDates" \in DOMAIN edits =>
          TripType[edits.verifiedDates] = TripType[r.fields.trip]
    /\ "hoursCredited" \in DOMAIN edits =>
          (TripType[r.fields.trip] = "one-way" => ~edits.hoursCredited)

LEMMA CorrectionFitsTrip ==
    ASSUME NEW r, NEW edits \in CorrectionEdits(r)
    PROVE  FitsTrip(r, edits)
BY DEF FitsTrip, CorrectionEdits, SameTripType

LEMMA ApprovalEditsFitTrip ==
    ASSUME NEW r, NEW role \in SystemRole, NEW edits \in ApprovalEdits(r, role)
    PROVE  FitsTrip(r, edits)
<1>1. CASE role = "timing"
  <2>1. PICK t \in Trips, met \in BOOLEAN :
          SameTripType(r, t) /\ edits = Attendance(r, t, met)
    BY <1>1 DEF ApprovalEdits
  <2>2. DOMAIN edits = {"verifiedDates", "hoursCredited"} /\ edits.verifiedDates = t
    BY <2>1 DEF Attendance
  <2>3. edits.hoursCredited <=> TripType[r.fields.trip] = "round-trip" /\ met
    BY <2>1 DEF Attendance
  <2>4. QED
    BY <2>1, <2>2, <2>3 DEF FitsTrip, SameTripType
<1>2. CASE role # "timing"
  BY <1>2 DEF ApprovalEdits, FitsTrip
<1>3. QED
  BY <1>1, <1>2

LEMMA EditsWithApprovalFitTrip ==
    ASSUME NEW r, NEW role \in SystemRole, NEW edits \in EditsWithApproval(r, role)
    PROVE  FitsTrip(r, edits)
BY ApprovalEditsFitTrip DEF EditsWithApproval, NoEdits, FitsTrip

LEMMA ReviewEditsFitTrip ==
    ASSUME NEW r, NEW role \in SystemRole, NEW edits \in ReviewEdits(r, role)
    PROVE  FitsTrip(r, edits)
<1>1. CASE role = "manager"
  BY <1>1 DEF ReviewEdits, FitsTrip
<1>2. CASE role = "salary"
  BY <1>2 DEF ReviewEdits, SalaryEdits, FitsTrip
<1>3. CASE role \notin {"manager", "salary"}
  BY <1>3, ApprovalEditsFitTrip DEF ReviewEdits
<1>4. QED
  BY <1>1, <1>2, <1>3

\* What was submitted is never written again.
LEMMA EditKeepsSubmission ==
    ASSUME NEW r \in TravelRequest, NEW u, NEW role, NEW edits
    PROVE  EditRequest(r, u, role, edits).submitted = r.submitted
BY DEF EditRequest, WithAuditEvent, TravelRequest

LEMMA FinancialEditsKeepSubmission ==
    ASSUME NEW r \in TravelRequest, NEW u \in Users, NEW role \in SystemRole,
           NEW edits, IsEdit(edits)
    PROVE  WithFinancialEdits(r, u, role, edits).submitted = r.submitted
<1> DEFINE m == EditRequest(r, u, role, edits)
<1>1. m \in TravelRequest /\ m.submitted = r.submitted
  BY EditRequestEffect, EditKeepsSubmission
<1>2. QED
  BY <1>1 DEF WithFinancialEdits, TravelRequest

LEMMA MoveKeepsSubmission ==
    ASSUME NEW r \in TravelRequest, NEW u, NEW role
    PROVE  /\ Approved(r, u, role).submitted = r.submitted
           /\ Rejected(r, u, role).submitted = r.submitted
           /\ AskedForInfo(r, u, role).submitted = r.submitted
           /\ FinalizationOutcome(r, u).submitted = r.submitted
<1>1. Approved(r, u, role).submitted = r.submitted
  BY DEF Approved, WithAuditEvent, TravelRequest
<1>2. Rejected(r, u, role).submitted = r.submitted
  BY DEF Rejected, WithAuditEvent, TravelRequest
<1>3. AskedForInfo(r, u, role).submitted = r.submitted
  BY DEF AskedForInfo, WithAuditEvent, TravelRequest
<1>4. FinalizationOutcome(r, u).submitted = r.submitted
  BY DEF FinalizationOutcome, Finalized, WithAuditEvent, TravelRequest
<1>5. QED
  BY <1>1, <1>2, <1>3, <1>4

\* Once there is a second event, only trip, dates and hours matter.
LEMMA LaterRequestTraced ==
    ASSUME NEW r, AttendanceTraced(r), NEW q, q.submitted = r.submitted,
           q.fields.trip = r.fields.trip, q.fields.verifiedDates = r.fields.verifiedDates,
           q.fields.hoursCredited = r.fields.hoursCredited,
           Len(q.audit) # 1 \/ (q.fields = r.fields /\ q.audit = r.audit)
    PROVE  AttendanceTraced(q)
BY DEF AttendanceTraced

LEMMA EditedRequestTraced ==
    ASSUME NEW r \in TravelRequest, AttendanceTraced(r), NEW edits, IsEdit(edits),
           FitsTrip(r, edits), NEW q, q.submitted = r.submitted,
           q.fields = Edited(r.fields, edits),
           Len(q.audit) # 1 \/ (q.fields = r.fields /\ q.audit = r.audit)
    PROVE  AttendanceTraced(q)
<1>1. /\ q.fields.trip = IF "trip" \in DOMAIN edits THEN edits.trip ELSE r.fields.trip
      /\ q.fields.verifiedDates = IF "verifiedDates" \in DOMAIN edits
                                  THEN edits.verifiedDates ELSE r.fields.verifiedDates
      /\ q.fields.hoursCredited = IF "hoursCredited" \in DOMAIN edits
                                  THEN edits.hoursCredited ELSE r.fields.hoursCredited
  BY EditedField DEF FieldName
<1>2. TripType[q.fields.trip] = TripType[q.submitted.trip]
  BY <1>1 DEF FitsTrip, AttendanceTraced
<1>3. q.fields.verifiedDates # NotVerified =>
        TripType[q.fields.verifiedDates] = TripType[q.submitted.trip]
  BY <1>1 DEF FitsTrip, AttendanceTraced
<1>4. TripType[q.submitted.trip] = "one-way" => ~q.fields.hoursCredited
  <2> SUFFICES ASSUME TripType[q.submitted.trip] = "one-way" PROVE ~q.fields.hoursCredited
    OBVIOUS
  <2>1. CASE "hoursCredited" \in DOMAIN edits
    BY <1>1, <2>1, Zenon DEF FitsTrip, AttendanceTraced
  <2>2. CASE "hoursCredited" \notin DOMAIN edits
    BY <1>1, <2>2, Zenon DEF AttendanceTraced
  <2>3. QED
    BY <2>1, <2>2
<1>5. Len(q.audit) = 1 => q.fields = r.fields /\ q.audit = r.audit
  OBVIOUS
<1>6. QED
  BY <1>2, <1>3, <1>4, <1>5 DEF AttendanceTraced

LEMMA CorrectionTraced ==
    ASSUME NEW r, Sound(r), ContiguousTrail(r), AttendanceTraced(r), NEW u \in Users,
           NEW edits \in CorrectionEdits(r)
    PROVE  AttendanceTraced(CorrectionOutcome(r, u, edits))
<1> DEFINE m == EditRequest(r, u, "employee", edits)
           q == CorrectionOutcome(r, u, edits)
<1>1. "employee" \in SystemRole /\ IsEdit(edits) /\ FitsTrip(r, edits)
  BY CorrectionEditsType, CorrectionFitsTrip DEF SystemRole
<1>2. /\ m \in TravelRequest /\ m.fields = Edited(r.fields, edits)
      /\ \/ m = r
         \/ m.audit = Append(r.audit, NewAuditEvent(r, u, "employee", "edit", r.stage,
                                                   ChangesFor(r, edits)))
  BY <1>1, EditRequestEffect DEF Sound
<1>3. m.submitted = r.submitted
  BY EditKeepsSubmission DEF Sound
<1>4. /\ q.fields = m.fields /\ q.audit = m.audit /\ q.submitted = m.submitted
  BY <1>2 DEF CorrectionOutcome, TravelRequest
<1> HIDE DEF m, q
<1>5. Len(q.audit) # 1 \/ (q.fields = r.fields /\ q.audit = r.audit)
  BY <1>2, <1>4 DEF Sound, TravelRequest, ContiguousTrail
<1>6. AttendanceTraced(q)
  BY <1>1, <1>2, <1>3, <1>4, <1>5, EditedRequestTraced DEF Sound
<1>7. QED
  BY <1>6 DEF q

\* Edits that may move the price, alone or with an approval.
LEMMA FinancialEditsTraced ==
    ASSUME NEW r, Sound(r), ContiguousTrail(r), AttendanceTraced(r), NEW u \in Users, NEW role \in SystemRole,
           NEW edits, IsEdit(edits), FitsTrip(r, edits),
           NEW q, q = WithFinancialEdits(r, u, role, edits)
    PROVE  AttendanceTraced(q) /\ q \in TravelRequest /\ Len(q.audit) >= 1
<1>1. /\ q \in TravelRequest /\ q.fields = Edited(r.fields, edits)
      /\ \/ q = r
         \/ q.audit = Append(r.audit, NewAuditEvent(r, u, role, "edit", r.stage,
                                                   ChangesFor(r, edits)))
  BY WithFinancialEditsEffect DEF Sound
<1>2. q.submitted = r.submitted
  BY FinancialEditsKeepSubmission DEF Sound
<1>3. r.audit \in Seq(AuditEvent) /\ Len(r.audit) >= 1
  BY RequestParts DEF Sound, ContiguousTrail
<1>4. Len(q.audit) # 1 \/ (q.fields = r.fields /\ q.audit = r.audit)
  BY <1>1, <1>3
<1>5. Len(q.audit) >= 1
  BY <1>1, <1>3
<1>6. QED
  BY <1>1, <1>2, <1>4, <1>5, EditedRequestTraced DEF Sound

LEMMA ApprovalTraced ==
    ASSUME NEW r, Sound(r), ContiguousTrail(r), AttendanceTraced(r), NEW u \in Users, NEW allowed,
           NEW edits \in EditsWithApproval(r, DepartmentRole(u)),
           AcceptsApproval(r, u, edits, allowed)
    PROVE  AttendanceTraced(ApprovalOutcome(r, u, edits))
<1> DEFINE role == DepartmentRole(u)
           m == WithFinancialEdits(r, u, role, edits)
           q == ApprovalOutcome(r, u, edits)
<1>1. role \in SystemRole
  BY DepartmentRoleType DEF AcceptsApproval
<1>2. IsEdit(edits) /\ FitsTrip(r, edits)
  BY <1>1, EditsWithApprovalType, EditsWithApprovalFitTrip
<1>3. AttendanceTraced(m) /\ m \in TravelRequest /\ Len(m.audit) >= 1
  BY <1>1, <1>2, FinancialEditsTraced
<1>4. q = Approved(m, u, role)
  BY DEF ApprovalOutcome
<1> HIDE DEF m, q
<1>5. /\ q.submitted = m.submitted /\ q.fields = m.fields
      /\ q.audit = Append(m.audit, NewAuditEvent(m, u, role, "approve", NextStage[m.stage], {}))
  BY <1>3, <1>4, MoveKeepsSubmission DEF Approved, WithAuditEvent, TravelRequest
<1>6. Len(q.audit) # 1
  BY <1>3, <1>5 DEF TravelRequest
<1>7. QED
  BY <1>3, <1>5, <1>6, LaterRequestTraced DEF q

LEMMA ReviewTraced ==
    ASSUME NEW r, Sound(r), ContiguousTrail(r), AttendanceTraced(r), NEW u \in Users, NEW allowed,
           NEW edits \in ReviewEdits(r, DepartmentRole(u)),
           AcceptsReview(r, u, edits, allowed)
    PROVE  AttendanceTraced(ReviewOutcome(r, u, edits))
<1>1. DepartmentRole(u) \in SystemRole
  BY DepartmentRoleType DEF AcceptsReview
<1>2. IsEdit(edits) /\ FitsTrip(r, edits)
  BY <1>1, ReviewEditsType, ReviewEditsFitTrip
<1>3. QED
  BY <1>1, <1>2, FinancialEditsTraced DEF ReviewOutcome

\* Operations that leave the figures alone and record one event.
LEMMA RejectionTraced ==
    ASSUME NEW r, Sound(r), ContiguousTrail(r), AttendanceTraced(r), NEW u \in Users
    PROVE  AttendanceTraced(RejectionOutcome(r, u))
<1> DEFINE q == RejectionOutcome(r, u)
<1>1. /\ q.fields = r.fields
      /\ q.audit = Append(r.audit, NewAuditEvent(r, u, DepartmentRole(u), "reject",
                                                "cancelled", {}))
  BY DEF RejectionOutcome, Rejected, WithAuditEvent, Sound, TravelRequest
<1>2. q.submitted = r.submitted
  BY MoveKeepsSubmission DEF RejectionOutcome, Sound
<1> HIDE DEF q
<1>3. Len(q.audit) # 1
  BY <1>1 DEF Sound, TravelRequest, ContiguousTrail
<1>4. QED
  BY <1>1, <1>2, <1>3, LaterRequestTraced DEF q

LEMMA InfoRequestTraced ==
    ASSUME NEW r, Sound(r), ContiguousTrail(r), AttendanceTraced(r), NEW u \in Users
    PROVE  AttendanceTraced(InfoRequestOutcome(r, u))
<1> DEFINE q == InfoRequestOutcome(r, u)
<1>1. q = AskedForInfo(r, u, "manager") /\ r \in TravelRequest
  BY DEF InfoRequestOutcome, Sound
<1> HIDE DEF q
<1>2. /\ q.fields = [r.fields EXCEPT !.pendingEmployeeResponse = TRUE]
      /\ Len(q.audit) = Len(r.audit) + 1
  BY <1>1 DEF AskedForInfo, WithAuditEvent, TravelRequest
<1>3. q.submitted = r.submitted
  BY <1>1, MoveKeepsSubmission DEF Sound
<1>4. /\ q.fields.trip = r.fields.trip /\ q.fields.verifiedDates = r.fields.verifiedDates
      /\ q.fields.hoursCredited = r.fields.hoursCredited
  BY <1>2 DEF Sound, TravelRequest, Fields
<1>5. Len(q.audit) # 1
  BY <1>2 DEF Sound, TravelRequest, ContiguousTrail
<1>6. QED
  BY <1>3, <1>4, <1>5, LaterRequestTraced DEF q

LEMMA FinalizationTraced ==
    ASSUME NEW r, Sound(r), ContiguousTrail(r), AttendanceTraced(r), NEW u \in Users, NEW allowed,
           AcceptsFinalization(r, u, allowed)
    PROVE  AttendanceTraced(FinalizationOutcome(r, u))
<1> DEFINE q == FinalizationOutcome(r, u)
<1>1. DepartmentRole(u) \in SystemRole
  BY DepartmentRoleType DEF AcceptsFinalization
<1>2. q.fields = r.fields /\ Len(q.audit) = Len(r.audit) + 1
  BY <1>1, FinalizationEffect DEF Sound
<1>3. q.submitted = r.submitted
  BY MoveKeepsSubmission DEF Sound
<1> HIDE DEF q
<1>4. Len(q.audit) # 1
  BY <1>2 DEF Sound, TravelRequest, ContiguousTrail
<1>5. QED
  BY <1>2, <1>3, <1>4, LaterRequestTraced DEF q

\* The calculation reads hours only to compare them with seven.
LEMMA SameHoursSameAmounts ==
    ASSUME NEW i, NEW j,
           i.accommodationType = j.accommodationType, i.overnightCount = j.overnightCount,
           i.isSameDayMission = j.isSameDayMission,
           i.transportationCost = j.transportationCost,
           i.bonusAmount = j.bonusAmount, i.penaltyAmount = j.penaltyAmount,
           i.sameDayMinutes >= SevenHours <=> j.sameDayMinutes >= SevenHours,
           ~i.isSameDayMission =>
               (i.returnDayMinutes >= SevenHours <=> j.returnDayMinutes >= SevenHours)
    PROVE  CalculateSalary(i) = CalculateSalary(j)
<1> DEFINE rate == SalaryRates(JobLevel)
           sameDay(k) == IF k.isSameDayMission /\ k.sameDayMinutes >= SevenHours
                         THEN 20 * rate ELSE 0
           returnDay(k) == IF ~k.isSameDayMission /\ k.returnDayMinutes >= SevenHours
                           THEN 12 * rate ELSE 0
<1>1. sameDay(i) = sameDay(j)
  OBVIOUS
<1>2. returnDay(i) = returnDay(j)
  OBVIOUS
<1>3. QED
  BY <1>1, <1>2, Zenon DEF CalculateSalary

\* The input of the preview that is shown before submission.
InitialInputOf(t, a) ==
    LET nights == OvernightCount(t.departureAt, t.returnAt)
    IN  [accommodationType |-> a, overnightCount |-> nights,
         isSameDayMission |-> nights = 0, sameDayMinutes |-> 0,
         returnDayMinutes |-> IF nights > 0 THEN ReturnDayMinutes(t.returnAt) ELSE 0,
         transportationCost |-> 0, bonusAmount |-> 0, penaltyAmount |-> 0]

\* A trip earns a return day exactly if it spans a night and ends seven hours
\* after eight o'clock.
LEMMA ReturnDayIsEarned ==
    ASSUME AllowanceParameters, NEW t \in Trips, NEW a \in Accommodations
    PROVE  /\ IsSalaryInput(InitialInputOf(t, a))
           /\ ComputeInitialSalaryPreview(t, a) = CalculateSalary(InitialInputOf(t, a))
           /\ ComputeInitialSalaryPreview(t, a).returnDayAmount > 0 <=>
                /\ OvernightCount(t.departureAt, t.returnAt) # 0
                /\ ReturnDayMinutes(t.returnAt) >= SevenHours
<1> DEFINE nights == OvernightCount(t.departureAt, t.returnAt)
           worked == ReturnDayMinutes(t.returnAt)
           i == InitialInputOf(t, a)
           c == CalculateSalary(i)
           rate == SalaryRates(JobLevel)
<1>1. nights \in Nat /\ worked \in Nat
  BY NightsAreMidnights, ItineraryTypes, ReturnDayMinutesType
<1>2. a \in AccommodationType
  BY DEF AllowanceParameters
<1>3. ComputeInitialSalaryPreview(t, a) = c
  BY DEF ComputeInitialSalaryPreview, InitialInputOf
<1>4. /\ i.accommodationType = a /\ i.overnightCount = nights
      /\ i.isSameDayMission = (nights = 0) /\ i.sameDayMinutes = 0
      /\ i.returnDayMinutes = IF nights > 0 THEN worked ELSE 0
      /\ i.transportationCost = 0 /\ i.bonusAmount = 0 /\ i.penaltyAmount = 0
  BY DEF InitialInputOf
<1> HIDE DEF nights, worked, i
<1>5. IsSalaryInput(i)
  BY <1>1, <1>2, <1>4 DEF IsSalaryInput
<1>6. c.returnDayAmount =
        IF ~i.isSameDayMission /\ i.returnDayMinutes >= SevenHours THEN (3 * rate) \div 10 ELSE 0
  BY <1>5, AmountsAreWhole
<1>7. rate \in Nat /\ rate > 0 /\ rate = 10 * (rate \div 10)
  BY RatesDivide
<1> HIDE DEF c, rate
<1>8. (3 * rate) \div 10 > 0
  BY <1>7
<1>9. CASE nights = 0
  <2>1. i.isSameDayMission
    BY <1>4, <1>9
  <2>2. c.returnDayAmount = 0
    BY <1>6, <2>1, Zenon
  <2>3. QED
    BY <1>3, <1>5, <1>9, <2>2 DEF i, nights, c
<1>10. CASE nights # 0
  <2>1. ~i.isSameDayMission
    BY <1>4, <1>10
  <2>2. i.returnDayMinutes = worked
    BY <1>1, <1>4, <1>10
  <2>3. c.returnDayAmount = IF worked >= SevenHours THEN (3 * rate) \div 10 ELSE 0
    BY <1>6, <2>1, <2>2, Zenon
  <2>4. c.returnDayAmount > 0 <=> worked >= SevenHours
    BY <1>8, <2>3
  <2>5. QED
    BY <1>3, <1>5, <1>10, <2>4 DEF i, nights, worked, c
<1>11. QED
  BY <1>9, <1>10

\* The hours credited at submission make the price of the record the preview.
LEMMA SubmissionIsPricedAsPreviewed ==
    ASSUME AllowanceParameters, NEW t \in Trips, NEW a \in Accommodations, NEW x \in Transports,
           NEW f, f = SubmittedFields(t, a, x)
    PROVE  RecalculateSalaryPreview(f, NotVerified) = ComputeInitialSalaryPreview(t, a)
<1> DEFINE nights == OvernightCount(t.departureAt, t.returnAt)
           worked == ReturnDayMinutes(t.returnAt)
           i == InputOf(f)
           j == InitialInputOf(t, a)
           earned == nights # 0 /\ worked >= SevenHours
<1>1. f \in Fields
  BY DataAssumption DEF SubmittedFields, Fields
<1>2. /\ f.trip = t /\ f.accommodationType = a /\ f.verifiedDates = NotVerified
      /\ f.ticket = 0 /\ f.adjustments.bonus = 0 /\ f.adjustments.penalty = 0
      /\ f.hoursCredited = EarnsReturnDay[t]
  BY DEF AllowanceParameters, SubmittedFields
<1>3. EarnsReturnDay[t] <=> earned
  <2>1. EarnsReturnDay[t] = ItineraryEarnsReturnDay(t)
    BY DEF AllowanceParameters
  <2>2. \A b \in Accommodations :
          ComputeInitialSalaryPreview(t, b).returnDayAmount > 0 <=> earned
    BY ReturnDayIsEarned
  <2> HIDE DEF earned
  <2>3. QED
    BY <2>1, <2>2 DEF ItineraryEarnsReturnDay
<1>4. ~VerifiedOnOneDay(f, NotVerified)
  BY <1>2 DEF VerifiedOnOneDay
<1>5. nights \in Nat /\ worked \in Nat
  BY NightsAreMidnights, ItineraryTypes, ReturnDayMinutesType
<1>6. /\ i.accommodationType = a /\ i.overnightCount = nights
      /\ i.isSameDayMission = (nights = 0) /\ i.sameDayMinutes = 0
      /\ i.returnDayMinutes = CreditedMinutes(f)
      /\ i.transportationCost = 0 /\ i.bonusAmount = 0 /\ i.penaltyAmount = 0
  BY <1>2, <1>4 DEF InputOf
<1>7. /\ j.accommodationType = a /\ j.overnightCount = nights
      /\ j.isSameDayMission = (nights = 0) /\ j.sameDayMinutes = 0
      /\ j.returnDayMinutes = IF nights > 0 THEN worked ELSE 0
      /\ j.transportationCost = 0 /\ j.bonusAmount = 0 /\ j.penaltyAmount = 0
  BY DEF InitialInputOf
<1>8. CreditedMinutes(f) >= SevenHours <=> earned
  BY <1>2, <1>3 DEF CreditedMinutes, SevenHours
<1> HIDE DEF nights, worked, i, j
<1>9. ~i.isSameDayMission =>
        (i.returnDayMinutes >= SevenHours <=> j.returnDayMinutes >= SevenHours)
  <2> SUFFICES ASSUME ~i.isSameDayMission
               PROVE  i.returnDayMinutes >= SevenHours <=> j.returnDayMinutes >= SevenHours
    OBVIOUS
  <2>1. nights # 0
    BY <1>6, Zenon
  <2>2. j.returnDayMinutes = worked
    BY <1>5, <1>7, <2>1
  <2>3. i.returnDayMinutes >= SevenHours <=> worked >= SevenHours
    BY <1>6, <1>8, <2>1
  <2>4. QED
    BY <2>2, <2>3
<1>10. CalculateSalary(i) = CalculateSalary(j)
  BY <1>6, <1>7, <1>9, SameHoursSameAmounts
<1>11. QED
  BY <1>1, <1>10, RecalculationInput, ReturnDayIsEarned DEF i, j

\* A trip without a night that earned no hours is paid its expenses.
LEMMA TripWithoutHours ==
    ASSUME AllowanceParameters, NEW f \in Fields, ~f.hoursCredited,
           NEW d \in Trips, d = (IF f.verifiedDates = NotVerified THEN f.trip ELSE f.verifiedDates),
           TripType[d] = "one-way", NEW c, c = RecalculateSalaryPreview(f, NotVerified)
    PROVE  c.totalAmount = f.ticket + f.adjustments.bonus - f.adjustments.penalty
<1> DEFINE i == InputOf(f)
           nights == OvernightCount(d.departureAt, d.returnAt)
           minutes == CreditedMinutes(f)
<1>1. c = CalculateSalary(i) /\ IsSalaryInput(i)
  BY RecalculationInput
<1>2. nights = 0
  <2>1. d.departureAt = d.returnAt /\ LocalDay(d.returnAt) \in Int
    BY ItineraryTypes, InstantTypes
  <2>2. QED
    BY <2>1, NightsAreMidnights
<1>3. minutes = 0 /\ SevenHours = 420
  BY DEF CreditedMinutes, SevenHours
<1>4. /\ i.isSameDayMission = (nights = 0)
      /\ i.sameDayMinutes = 0 \/ i.sameDayMinutes = minutes
      /\ i.transportationCost = f.ticket
      /\ i.bonusAmount = f.adjustments.bonus /\ i.penaltyAmount = f.adjustments.penalty
  <2>1. i.isSameDayMission = (nights = 0)
    BY DEF InputOf
  <2>2. i.sameDayMinutes = 0 \/ i.sameDayMinutes = minutes
    BY DEF InputOf
  <2>3. QED
    BY <2>1, <2>2 DEF InputOf
<1> HIDE DEF nights, minutes, i
<1>5. i.isSameDayMission /\ ~(i.sameDayMinutes >= SevenHours)
  <2>1. i.isSameDayMission
    BY <1>2, <1>4
  <2>2. i.sameDayMinutes = 0
    BY <1>3, <1>4
  <2>3. QED
    BY <1>3, <2>1, <2>2
<1>6. /\ c.overnightAmount = IF i.isSameDayMission THEN 0
                             ELSE (SalaryRates(JobLevel) \div 8) * i.overnightCount
                                    * AccommodationFactors(i.accommodationType)
      /\ c.sameDayAmount = IF i.isSameDayMission /\ i.sameDayMinutes >= SevenHours
                           THEN SalaryRates(JobLevel) \div 2 ELSE 0
      /\ c.returnDayAmount = IF ~i.isSameDayMission /\ i.returnDayMinutes >= SevenHours
                             THEN (3 * SalaryRates(JobLevel)) \div 10 ELSE 0
      /\ c.totalAmount = c.overnightAmount + c.sameDayAmount + c.returnDayAmount
                           + i.transportationCost + i.bonusAmount - i.penaltyAmount
  BY <1>1, AmountsAreWhole
<1>7. c.overnightAmount = 0 /\ c.sameDayAmount = 0 /\ c.returnDayAmount = 0
  BY <1>5, <1>6, Zenon
<1>8. QED
  BY <1>1, <1>4, <1>6, <1>7 DEF IsSalaryInput

LEMMA NewRequestTraced ==
    ASSUME AllowanceParameters, NEW r \in NewRequests
    PROVE  AttendanceTraced(r)
<1>1. PICK o \in Users, m \in Users, t \in Trips, a \in Accommodations, x \in Transports :
        r = NewRequest(o, m, t, a, x)
  BY DEF NewRequests
<1> DEFINE f == SubmittedFields(t, a, x)
<1>2. r.fields = f /\ r.submitted = f
  BY <1>1 DEF NewRequest
<1>3. /\ f.trip = t /\ f.accommodationType = a /\ f.transportation = x
      /\ f.verifiedDates = NotVerified /\ f.hoursCredited = EarnsReturnDay[t]
  BY DEF SubmittedFields
<1>4. TripType[t] = "one-way" => ~EarnsReturnDay[t]
  <2> SUFFICES ASSUME TripType[t] = "one-way" PROVE ~EarnsReturnDay[t]
    OBVIOUS
  <2>1. OvernightCount(t.departureAt, t.returnAt) = 0
    <3>1. t.departureAt = t.returnAt /\ LocalDay(t.returnAt) \in Int
      BY ItineraryTypes, InstantTypes
    <3>2. QED
      BY <3>1, NightsAreMidnights
  <2>2. \A b \in Accommodations :
          ~(ComputeInitialSalaryPreview(t, b).returnDayAmount > 0)
    BY <2>1, ReturnDayIsEarned
  <2>3. QED
    BY <2>2 DEF AllowanceParameters, ItineraryEarnsReturnDay
<1> HIDE DEF f
<1>5. r.fields = SubmittedFields(r.fields.trip, r.fields.accommodationType,
                                 r.fields.transportation)
  BY <1>2, <1>3 DEF f
<1>6. QED
  BY <1>2, <1>3, <1>4, <1>5 DEF AttendanceTraced

LEMMA InitAllowanceInv ==
    ASSUME AllowanceParameters PROVE Init => AllowanceInv
BY InitInv, NewRequestTraced DEF Init, AllowanceInv

LEMMA NextAllowanceInv == AllowanceInv /\ [Next]_vars => AllowanceInv'
<1> SUFFICES ASSUME AllowanceInv, [Next]_vars PROVE AttendanceTraced(request)'
  BY NextInv DEF AllowanceInv
<1>1. /\ Sound(request) /\ ContiguousTrail(request) /\ AttendanceTraced(request)
      /\ active \subseteq Users
  BY DEF AllowanceInv, Inv, Kept, WellKept
<1>2. ASSUME NEW u \in active, CorrectRequest(u)
      PROVE  AttendanceTraced(request)'
  <2>1. PICK edits \in CorrectionEdits(request) :
          request' = CorrectionOutcome(request, u, edits)
    BY <1>2 DEF CorrectRequest
  <2>2. AttendanceTraced(request')
    BY <1>1, <2>1, CorrectionTraced
  <2>3. QED
    BY <2>2 DEF AttendanceTraced
<1>3. ASSUME NEW u \in active, DepartmentStep(u)
      PROVE  AttendanceTraced(request)'
  <2>1. u \in Users
    BY <1>1
  <2>2. CASE ApproveRequest(u)
    <3>1. PICK edits \in EditsWithApproval(request, DepartmentRole(u)) :
            /\ AcceptsApproval(request, u, edits, active)
            /\ request' = ApprovalOutcome(request, u, edits)
      BY <2>2 DEF ApproveRequest
    <3>2. AttendanceTraced(request')
      BY <1>1, <2>1, <3>1, ApprovalTraced
    <3>3. QED
      BY <3>2 DEF AttendanceTraced
  <2>3. CASE RejectRequest(u)
    <3>1. AttendanceTraced(request')
      BY <1>1, <2>1, <2>3, RejectionTraced DEF RejectRequest
    <3>2. QED
      BY <3>1 DEF AttendanceTraced
  <2>4. CASE RequestMoreInfo(u)
    <3>1. AttendanceTraced(request')
      BY <1>1, <2>1, <2>4, InfoRequestTraced DEF RequestMoreInfo
    <3>2. QED
      BY <3>1 DEF AttendanceTraced
  <2>5. CASE ReviewRequest(u)
    <3>1. PICK edits \in ReviewEdits(request, DepartmentRole(u)) :
            /\ AcceptsReview(request, u, edits, active)
            /\ request' = ReviewOutcome(request, u, edits)
      BY <2>5 DEF ReviewRequest
    <3>2. AttendanceTraced(request')
      BY <1>1, <2>1, <3>1, ReviewTraced
    <3>3. QED
      BY <3>2 DEF AttendanceTraced
  <2>6. CASE FinalizeRequest(u)
    <3>1. AttendanceTraced(request')
      BY <1>1, <2>1, <2>6, FinalizationTraced DEF FinalizeRequest
    <3>2. QED
      BY <3>1 DEF AttendanceTraced
  <2>7. QED
    BY <1>3, <2>2, <2>3, <2>4, <2>5, <2>6 DEF DepartmentStep
<1>4. ASSUME UNCHANGED request
      PROVE  AttendanceTraced(request)'
  BY <1>1, <1>4 DEF AttendanceTraced
<1>5. UNCHANGED vars \/ CloseEditWindow \/ (\E listed \in SUBSET Leavers : ImportDirectory(listed))
        => UNCHANGED request
  BY DEF CloseEditWindow, ImportDirectory, vars
<1>6. QED
  BY <1>2, <1>3, <1>4, <1>5, Zenon DEF Next

\* The type of a trip and the hours a one-way trip may earn survive every call.
THEOREM SpecAllowanceInv ==
    ASSUME AllowanceParameters PROVE Spec => []AllowanceInv
<1>1. Init => AllowanceInv
  BY InitAllowanceInv
<1>2. AllowanceInv /\ [Next]_vars => AllowanceInv'
  BY NextAllowanceInv
<1>3. QED
  BY <1>1, <1>2, PTL DEF Spec

\* A one-way trip is paid its expenses and adjustments and no allowance, for
\* every calendar and every sequence of corrections and attendances.
THEOREM OneWayIsPaidExpenses ==
    ASSUME AllowanceParameters PROVE Spec => []OneWayPaysExpensesOnly
<1>1. AllowanceInv => OneWayPaysExpensesOnly
  <2> SUFFICES ASSUME AllowanceInv, TripType[request.submitted.trip] = "one-way"
               PROVE  request.salaryPreview.totalAmount =
                        request.fields.ticket + request.fields.adjustments.bonus
                          - request.fields.adjustments.penalty
    BY DEF OneWayPaysExpensesOnly
  <2> DEFINE f == request.fields
             d == IF f.verifiedDates = NotVerified THEN f.trip ELSE f.verifiedDates
  <2>1. f \in Fields /\ request.salaryPreview = Calculate(f)
    BY RequestParts DEF AllowanceInv, Inv, Kept, Sound
  <2>2. request.salaryPreview = RecalculateSalaryPreview(f, NotVerified)
    BY <2>1 DEF AllowanceParameters
  <2>3. ~f.hoursCredited /\ TripType[d] = "one-way"
    BY DEF AllowanceInv, AttendanceTraced
  <2>4. d \in Trips
    BY <2>1 DEF Fields
  <2>5. QED
    BY <2>1, <2>2, <2>3, <2>4, TripWithoutHours
<1>2. QED
  BY <1>1, SpecAllowanceInv, PTL

\* The price that createNewRequest stores from the initial preview is the one
\* that recalculateSalaryPreview finds on the stored record.
THEOREM SubmissionKeepsPreview ==
    ASSUME AllowanceParameters PROVE Spec => []InitialPreviewIsRecalculated
<1>1. AllowanceInv => InitialPreviewIsRecalculated
  <2> SUFFICES ASSUME AllowanceInv, Len(request.audit) = 1
               PROVE  request.salaryPreview =
                        ComputeInitialSalaryPreview(request.fields.trip,
                                                    request.fields.accommodationType)
    BY DEF InitialPreviewIsRecalculated
  <2> DEFINE f == request.fields
  <2>1. f \in Fields /\ request.salaryPreview = Calculate(f)
    BY RequestParts DEF AllowanceInv, Inv, Kept, Sound
  <2>2. f = SubmittedFields(f.trip, f.accommodationType, f.transportation)
    BY DEF AllowanceInv, AttendanceTraced
  <2>3. f.trip \in Trips /\ f.accommodationType \in Accommodations
        /\ f.transportation \in Transports
    BY <2>1 DEF Fields
  <2> HIDE DEF f
  <2>4. RecalculateSalaryPreview(f, NotVerified)
          = ComputeInitialSalaryPreview(f.trip, f.accommodationType)
    BY <2>2, <2>3, SubmissionIsPricedAsPreviewed
  <2>5. QED
    BY <2>1, <2>4 DEF AllowanceParameters, f
<1>2. QED
  BY <1>1, SpecAllowanceInv, PTL
=============================================================================
