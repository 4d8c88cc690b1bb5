------------------------- MODULE ReviewDesk_proofs -------------------------
(* Theorems of ReviewDesk, for any departments, requests, figures and bounds. *)
EXTENDS ReviewDesk, FiniteSetTheorems, TLAPS

(***************************************************************************)
(* The inductive invariant                                                 *)
(***************************************************************************)

\* Every write counts in updates, so that a copy of an item shows its figures or
\* is known to be older.
Copy(c, item) ==
    /\ c.updates <= item.updates
    /\ c.updates = item.updates => c.figures = item.figures

QueueOK(q, rec) == IsQueue(q) /\ \A r \in DOMAIN q : Copy(q[r], rec[r])

\* Displayed, of any department.
DisplayedTo(dep, figures) ==
    IF dep = "transportation" /\ figures \notin Methods THEN FirstMethod ELSE figures

\* A form that stayed on its row is about that row: its comment was written for
\* it, and what nobody typed is what the row had when the form was opened.
FormOK(f, r, item, dep) ==
    ~f.moved =>
        /\ f.note \in {None, r}
        /\ f.seen <= item.updates
        /\ ~f.typed /\ f.seen = item.updates => f.figures = DisplayedTo(dep, item.figures)

ShownOK(q, sel, f, rec, dep) ==
    /\ sel \in DOMAIN q \union {None}
    /\ f \in Form
    /\ sel # None => FormOK(f, sel, rec[sel], dep)

LoadOK(l, rec) ==
    /\ l = [n |-> l.n, state |-> l.state, answer |-> l.answer]
    /\ l.n \in Nat /\ l.state \in {"sent", "answered"}
    /\ QueueOK(l.answer, rec)

DecisionOK(d, rec, dep) == d \in Decision /\ FormOK(d.form, d.request, rec[d.request], dep)

\* The numbers tell the decisions under way apart.
Distinct(ds) == \A d, e \in ds : d.n = e.n => d = e

\* A decision that ends makes a load, so that both together are as few as the
\* calls that were made.
Counted(ls, ds, k) ==
    /\ k \in Nat
    /\ IsFiniteSet(ls) /\ IsFiniteSet(ds)
    /\ Cardinality(ls) + Cardinality(ds) <= k
    /\ k <= MaxCalls \/ (k = 1 /\ ds = {})

PendingOK(ls, ds, rec, k, dep) ==
    /\ \A l \in ls : LoadOK(l, rec)
    /\ \A d \in ds : DecisionOK(d, rec, dep)
    /\ Distinct(ds)
    /\ Counted(ls, ds, k)

Inv ==
    /\ department \in Departments
    /\ record \in [Requests -> Item]
    /\ loading \in BOOLEAN /\ failed \in BOOLEAN
    /\ QueueOK(queue, record)
    /\ ShownOK(queue, selected, form, record, department)
    /\ PendingOK(loads, decisions, record, sent, department)

(***************************************************************************)
(* Calls have numbers                                                      *)
(***************************************************************************)

LEMMA SizeType ==
    ASSUME NEW calls, IsFiniteSet(calls)
    PROVE  Cardinality(calls) \in Nat
BY FS_CardinalityType

\* As many calls as are under way leave a number to one more.
LEMMA NumberIsFree ==
    ASSUME NEW calls, IsFiniteSet(calls), Cardinality(calls) < 2 * MaxCalls
    PROVE  FreeNumber(calls) \in Nat /\ \A c \in calls : c.n # FreeNumber(calls)
<1> DEFINE numbers == {c.n : c \in calls}
           f == [c \in calls |-> c.n]
           m == 2 * MaxCalls
<1>1. f \in Surjection(calls, numbers)
  BY DEF Surjection
<1>2. IsFiniteSet(numbers) /\ Cardinality(numbers) <= Cardinality(calls)
  BY <1>1, FS_Surjection
<1>3. Cardinality(numbers) \in Nat /\ Cardinality(calls) \in Nat /\ m \in Nat
  BY <1>2, SizeType, ReviewAssumption
<1>4. IsFiniteSet(1..m) /\ Cardinality(1..m) = m
  <2> HIDE DEF m
  <2>1. 1 \in Int /\ m \in Int
    BY <1>3
  <2>2. IsFiniteSet(1..m) /\ Cardinality(1..m) = IF 1 > m THEN 0 ELSE m - 1 + 1
    BY <2>1, FS_Interval
  <2>3. QED
    BY <1>3, <2>2
<1>5. ~ (1..m \subseteq numbers)
  <2>1. 1..m \subseteq numbers => Cardinality(1..m) <= Cardinality(numbers)
    BY <1>2, FS_Subset
  <2>2. Cardinality(calls) < m
    OBVIOUS
  <2> HIDE DEF m, numbers
  <2>3. QED
    BY <1>2, <1>3, <1>4, <2>1, <2>2
<1>6. \E n \in 1..m : \A c \in calls : c.n # n
  BY <1>5
<1>7. FreeNumber(calls) \in 1..m /\ \A c \in calls : c.n # FreeNumber(calls)
  BY <1>6 DEF FreeNumber
<1>8. QED
  BY <1>3, <1>7

LEMMA Removed ==
    ASSUME NEW calls, IsFiniteSet(calls), NEW c \in calls
    PROVE  /\ IsFiniteSet(calls \ {c})
           /\ Cardinality(calls \ {c}) = Cardinality(calls) - 1
           /\ Cardinality(calls) \in Nat \ {0}
<1>1. IsFiniteSet(calls \ {c}) /\ Cardinality(calls \ {c}) = Cardinality(calls) - 1
  BY FS_RemoveElement
<1>2. Cardinality(calls) \in Nat /\ Cardinality(calls \ {c}) \in Nat
  BY <1>1, SizeType
<1>3. QED
  BY <1>1, <1>2

LEMMA Added ==
    ASSUME NEW calls, IsFiniteSet(calls), NEW c
    PROVE  /\ IsFiniteSet(calls \union {c})
           /\ Cardinality(calls \union {c}) <= Cardinality(calls) + 1
           /\ Cardinality(calls \union {c}) \in Nat /\ Cardinality(calls) \in Nat
<1>1. /\ IsFiniteSet(calls \union {c})
      /\ \/ Cardinality(calls \union {c}) = Cardinality(calls)
         \/ Cardinality(calls \union {c}) = Cardinality(calls) + 1
  BY FS_AddElement
<1>2. Cardinality(calls) \in Nat /\ Cardinality(calls \union {c}) \in Nat
  BY <1>1, SizeType
<1>3. QED
  BY <1>1, <1>2

LEMMA LoadsRemain ==
    ASSUME NEW ls, NEW ds, NEW k, Counted(ls, ds, k), NEW l \in ls
    PROVE  /\ Counted(ls \ {l}, ds, k)
           /\ \A m : Counted((ls \ {l}) \union {m}, ds, k)
<1>1. /\ IsFiniteSet(ls) /\ IsFiniteSet(ds) /\ k \in Nat
      /\ Cardinality(ls) + Cardinality(ds) <= k
  BY DEF Counted
<1>2. Cardinality(ds) \in Nat
  BY <1>1, SizeType
<1>3. /\ IsFiniteSet(ls \ {l}) /\ Cardinality(ls \ {l}) = Cardinality(ls) - 1
      /\ Cardinality(ls) \in Nat \ {0}
  BY <1>1, Removed
<1>4. ASSUME NEW m
      PROVE  Counted((ls \ {l}) \union {m}, ds, k)
  <2>1. /\ IsFiniteSet((ls \ {l}) \union {m})
        /\ Cardinality((ls \ {l}) \union {m}) <= Cardinality(ls \ {l}) + 1
        /\ Cardinality((ls \ {l}) \union {m}) \in Nat
    BY <1>3, Added
  <2>2. QED
    BY <1>1, <1>2, <1>3, <2>1 DEF Counted
<1>5. Counted(ls \ {l}, ds, k)
  BY <1>1, <1>2, <1>3 DEF Counted
<1>6. QED
  BY <1>4, <1>5

LEMMA DecisionsRemain ==
    ASSUME NEW ls, NEW ds, NEW k, Counted(ls, ds, k), NEW d \in ds
    PROVE  /\ Counted(ls, ds \ {d}, k)
           /\ \A e : Counted(ls, (ds \ {d}) \union {e}, k)
           /\ \A l : Counted(ls \union {l}, ds \ {d}, k)
           /\ Cardinality(ls) < 2 * MaxCalls
<1>1. /\ IsFiniteSet(ls) /\ IsFiniteSet(ds) /\ k \in Nat
      /\ Cardinality(ls) + Cardinality(ds) <= k
      /\ k <= MaxCalls /\ MaxCalls \in Nat
  BY ReviewAssumption DEF Counted
<1>2. Cardinality(ls) \in Nat
  BY <1>1, SizeType
<1>3. /\ IsFiniteSet(ds \ {d}) /\ Cardinality(ds \ {d}) = Cardinality(ds) - 1
      /\ Cardinality(ds) \in Nat \ {0}
  BY <1>1, Removed
<1>4. ASSUME NEW e
      PROVE  Counted(ls, (ds \ {d}) \union {e}, k)
  <2>1. /\ IsFiniteSet((ds \ {d}) \union {e})
        /\ Cardinality((ds \ {d}) \union {e}) <= Cardinality(ds \ {d}) + 1
        /\ Cardinality((ds \ {d}) \union {e}) \in Nat
    BY <1>3, Added
  <2>2. QED
    BY <1>1, <1>2, <1>3, <2>1 DEF Counted
<1>5. ASSUME NEW l
      PROVE  Counted(ls \union {l}, ds \ {d}, k)
  <2>1. /\ IsFiniteSet(ls \union {l}) /\ Cardinality(ls \union {l}) <= Cardinality(ls) + 1
        /\ Cardinality(ls \union {l}) \in Nat
    BY <1>1, Added
  <2>2. QED
    BY <1>1, <1>2, <1>3, <2>1 DEF Counted
<1>6. Counted(ls, ds \ {d}, k)
  BY <1>1, <1>2, <1>3 DEF Counted
<1>7. Cardinality(ls) < 2 * MaxCalls
  BY <1>1, <1>2, <1>3
<1>8. QED
  BY <1>4, <1>5, <1>6, <1>7

\* A call within the bounds.
LEMMA CallIsMade ==
    ASSUME NEW ls, NEW ds, NEW k, Counted(ls, ds, k), k < MaxCalls
    PROVE  /\ \A l : Counted(ls \union {l}, ds, k + 1)
           /\ \A d : Counted(ls, ds \union {d}, k + 1)
           /\ Cardinality(ls) < 2 * MaxCalls /\ Cardinality(ds) < 2 * MaxCalls
<1>1. /\ IsFiniteSet(ls) /\ IsFiniteSet(ds) /\ k \in Nat /\ MaxCalls \in Nat
      /\ Cardinality(ls) + Cardinality(ds) <= k
  BY ReviewAssumption DEF Counted
<1>2. Cardinality(ls) \in Nat /\ Cardinality(ds) \in Nat
  BY <1>1, SizeType
<1>3. ASSUME NEW l
      PROVE  Counted(ls \union {l}, ds, k + 1)
  <2>1. /\ IsFiniteSet(ls \union {l}) /\ Cardinality(ls \union {l}) <= Cardinality(ls) + 1
        /\ Cardinality(ls \union {l}) \in Nat
    BY <1>1, Added
  <2>2. QED
    BY <1>1, <1>2, <2>1 DEF Counted
<1>4. ASSUME NEW d
      PROVE  Counted(ls, ds \union {d}, k + 1)
  <2>1. /\ IsFiniteSet(ds \union {d}) /\ Cardinality(ds \union {d}) <= Cardinality(ds) + 1
        /\ Cardinality(ds \union {d}) \in Nat
    BY <1>1, Added
  <2>2. QED
    BY <1>1, <1>2, <2>1 DEF Counted
<1>5. Cardinality(ls) < 2 * MaxCalls /\ Cardinality(ds) < 2 * MaxCalls
  BY <1>1, <1>2
<1>6. QED
  BY <1>3, <1>4, <1>5

(***************************************************************************)
(* A write to a request                                                    *)
(***************************************************************************)

LEMMA ItemParts ==
    ASSUME NEW item \in Item
    PROVE  /\ item.stage \in {"earlier", "here", "passed"} /\ item.figures \in Figures
           /\ item.updates \in Nat
           /\ item = [stage |-> item.stage, figures |-> item.figures, updates |-> item.updates]
BY DEF Item

LEMMA FormParts ==
    ASSUME NEW f \in Form
    PROVE  /\ f.figures \in Figures /\ f.note \in Requests \union {None}
           /\ f.typed \in BOOLEAN /\ f.moved \in BOOLEAN /\ f.seen \in Nat
BY DEF Form

LEMMA DecisionParts ==
    ASSUME NEW d \in Decision
    PROVE  /\ d.n \in Nat /\ d.kind \in {"approve", "reject"} /\ d.request \in Requests
           /\ d.form \in Form /\ d.state \in {"sent", "accepted"}
BY DEF Decision

\* A write makes every copy older, and what was seen past.
LEMMA WriteAges ==
    ASSUME NEW rec \in [Requests -> Item], NEW w \in Requests, NEW new \in Item,
           new.updates = rec[w].updates + 1,
           NEW rec2, rec2 = [rec EXCEPT ![w] = new], NEW r \in Requests
    PROVE  /\ \A c \in Item : Copy(c, rec[r]) => Copy(c, rec2[r])
           /\ \A f \in Form : \A q : FormOK(f, q, rec[r], department) => FormOK(f, q, rec2[r], department)
<1>1. rec2[r] = IF r = w THEN new ELSE rec[r]
  OBVIOUS
<1>2. rec[r].updates \in Nat
  BY ItemParts
<1>3. CASE r # w
  BY <1>1, <1>3
<1>4. CASE r = w
  <2>1. rec2[r].updates = rec[r].updates + 1
    BY <1>1, <1>4
  <2>2. \A c \in Item : Copy(c, rec[r]) => Copy(c, rec2[r])
    BY <1>2, <2>1, ItemParts DEF Copy
  <2>3. \A f \in Form : \A q : FormOK(f, q, rec[r], department) => FormOK(f, q, rec2[r], department)
    BY <1>2, <2>1, FormParts DEF FormOK
  <2>4. QED
    BY <2>2, <2>3
<1>5. QED
  BY <1>3, <1>4

LEMMA QueueItems ==
    ASSUME NEW q, NEW rec, QueueOK(q, rec)
    PROVE  /\ IsQueue(q) /\ DOMAIN q \subseteq Requests
           /\ \A r \in DOMAIN q : q[r] \in Item /\ Copy(q[r], rec[r])
BY DEF QueueOK, IsQueue

LEMMA WriteKeeps ==
    ASSUME NEW rec \in [Requests -> Item], NEW w \in Requests, NEW new \in Item,
           new.updates = rec[w].updates + 1,
           NEW rec2, rec2 = [rec EXCEPT ![w] = new]
    PROVE  /\ rec2 \in [Requests -> Item]
           /\ \A q : QueueOK(q, rec) => QueueOK(q, rec2)
           /\ \A l : LoadOK(l, rec) => LoadOK(l, rec2)
           /\ \A d : DecisionOK(d, rec, department) => DecisionOK(d, rec2, department)
<1>1. \A r \in Requests : /\ \A c \in Item : Copy(c, rec[r]) => Copy(c, rec2[r])
                          /\ \A f \in Form : \A q : FormOK(f, q, rec[r], department) => FormOK(f, q, rec2[r], department)
  BY WriteAges
<1>2. \A q : QueueOK(q, rec) => QueueOK(q, rec2)
  <2>1. ASSUME NEW q, QueueOK(q, rec) PROVE QueueOK(q, rec2)
    <3>1. \A r \in DOMAIN q : Copy(q[r], rec2[r])
      BY <1>1, <2>1, QueueItems
    <3>2. QED
      BY <2>1, <3>1 DEF QueueOK
  <2>2. QED
    BY <2>1
<1>3. \A l : LoadOK(l, rec) => LoadOK(l, rec2)
  BY <1>2 DEF LoadOK
<1>4. \A d : DecisionOK(d, rec, department) => DecisionOK(d, rec2, department)
  BY <1>1, DecisionParts DEF DecisionOK
<1>5. QED
  BY <1>2, <1>3, <1>4

LEMMA WriteKeepsShown ==
    ASSUME NEW rec \in [Requests -> Item], NEW w \in Requests, NEW new \in Item,
           new.updates = rec[w].updates + 1,
           NEW rec2, rec2 = [rec EXCEPT ![w] = new],
           NEW q, QueueOK(q, rec), NEW sel, NEW f, ShownOK(q, sel, f, rec, department)
    PROVE  ShownOK(q, sel, f, rec2, department)
<1>1. sel # None => sel \in Requests
  BY QueueItems DEF ShownOK
<1>2. sel # None => FormOK(f, sel, rec2[sel], department)
  BY <1>1, WriteAges DEF ShownOK
<1>3. QED
  BY <1>2 DEF ShownOK

LEMMA ElsewhereStep ==
    ASSUME Inv, NEW r \in Requests, Elsewhere(r)
    PROVE  Inv'
<1>1. /\ UNCHANGED <<department, pageVars, loads, decisions, sent>>
      /\ record \in [Requests -> Item] /\ record[r] \in Item
  BY DEF Elsewhere, Inv
<1>2. PICK new \in Item : /\ record' = [record EXCEPT ![r] = new]
                          /\ new.updates = record[r].updates + 1
  <2> DEFINE up == record[r].updates + 1
             corrected(g) == [stage |-> record[r].stage, figures |-> g, updates |-> up]
             passed(st) == [stage |-> st, figures |-> record[r].figures, updates |-> up]
  <2>1. up \in Nat
    BY <1>1, ItemParts
  <2>2. /\ \A g \in Figures : corrected(g) \in Item /\ corrected(g).updates = up
        /\ \A st \in {"here", "passed"} : passed(st) \in Item /\ passed(st).updates = up
    <3> HIDE DEF up
    <3>1. QED
      BY <1>1, <2>1, ItemParts DEF Item
  <2>3. CASE \E g \in Figures :
               record' = [record EXCEPT ![r].figures = g, ![r].updates = @ + 1]
    <3>1. PICK g \in Figures : record' = [record EXCEPT ![r].figures = g, ![r].updates = @ + 1]
      BY <2>3
    <3>2. record' = [record EXCEPT ![r] = corrected(g)]
      BY <1>1, <3>1, ItemParts
    <3>3. QED
      BY <2>2, <3>2
  <2>4. CASE record' = [record EXCEPT
               ![r].stage = IF @ = "earlier" THEN "here" ELSE "passed", ![r].updates = @ + 1]
    <3> DEFINE st == IF record[r].stage = "earlier" THEN "here" ELSE "passed"
    <3>1. record' = [record EXCEPT ![r] = passed(st)]
      BY <1>1, <2>4, ItemParts
    <3>2. st \in {"here", "passed"}
      OBVIOUS
    <3> HIDE DEF st
    <3>3. QED
      BY <2>2, <3>1, <3>2
  <2>5. QED
    BY <2>3, <2>4 DEF Elsewhere
<1>3. /\ record' \in [Requests -> Item] /\ QueueOK(queue, record')
      /\ \A l \in loads : LoadOK(l, record')
      /\ \A d \in decisions : DecisionOK(d, record', department)
  BY <1>1, <1>2, WriteKeeps DEF Inv, PendingOK
<1>4. ShownOK(queue, selected, form, record', department)
  BY <1>1, <1>2, WriteKeepsShown DEF Inv
<1>5. QED
  BY <1>1, <1>3, <1>4 DEF Inv, PendingOK, pageVars

(***************************************************************************)
(* What the page shows                                                     *)
(***************************************************************************)

LEMMA NoFormParts ==
    /\ NoForm \in Form /\ NoForm.note = None /\ ~NoForm.typed /\ ~NoForm.moved
<1>1. NoForm \in Form
  BY ReviewAssumption DEF NoForm, Form
<1>2. NoForm.note = None
  BY DEF NoForm
<1>3. NoForm.typed = FALSE /\ NoForm.moved = FALSE
  BY DEF NoForm
<1>4. QED
  BY <1>1, <1>2, <1>3

LEMMA FormIsFilled ==
    ASSUME NEW f \in Form, NEW g \in Figures, NEW n \in Nat
    PROVE  LET h == [f EXCEPT !.figures = g, !.seen = n]
           IN  /\ h \in Form /\ h.figures = g /\ h.seen = n /\ h.note = f.note
               /\ h.typed = f.typed /\ h.moved = f.moved
BY DEF Form

\* A form that has just been opened shows its row and nothing of another.
LEMMA OpenedOK ==
    ASSUME NEW item \in Item, NEW now \in Item, Copy(item, now), NEW r
    PROVE  Opened(item) \in Form /\ FormOK(Opened(item), r, now, department)
<1> DEFINE f == Opened(item)
           g == DisplayedTo(department, item.figures)
<1>1. g \in Figures /\ item.updates \in Nat
  BY ItemParts, ReviewAssumption DEF DisplayedTo
<1>2. f = [NoForm EXCEPT !.figures = g, !.seen = item.updates]
  BY DEF Opened, Displayed, DisplayedTo
<1> HIDE DEF f, g
<1>3. /\ f \in Form /\ f.figures = g /\ f.seen = item.updates /\ f.note = None
      /\ ~f.typed /\ ~f.moved
  BY <1>1, <1>2, NoFormParts, FormIsFilled
<1>4. FormOK(f, r, now, department)
  BY <1>3 DEF FormOK, Copy, g
<1>5. QED
  BY <1>3, <1>4 DEF f

\* The selection that is there after a rendering is on the list, and its form is
\* the one that was there, or a new one.
LEMMA RenderShows ==
    ASSUME Render, QueueOK(queue', record'), form \in Form, None \notin Requests,
           selected # None => FormOK(form, selected, record'[selected], department),
           record' \in [Requests -> Item]
    PROVE  ShownOK(queue', selected', form', record', department)
<1> DEFINE rows == IF ~loading' /\ ~failed' THEN DOMAIN queue' ELSE {}
<1>1. rows \subseteq DOMAIN queue' /\ DOMAIN queue' \subseteq Requests
  BY QueueItems
<1>2. IF selected \in rows THEN UNCHANGED <<selected, form>>
      ELSE \E r \in IF rows = {} THEN {None} ELSE rows : selected' = r /\ form' = FormFor(r, form)
  BY DEF Render, KeepsSelection
<1> HIDE DEF rows
<1>3. CASE selected \in rows
  BY <1>1, <1>2, <1>3 DEF ShownOK
<1>4. CASE selected \notin rows
  <2>1. PICK r \in IF rows = {} THEN {None} ELSE rows : selected' = r /\ form' = FormFor(r, form)
    BY <1>2, <1>4
  <2>2. CASE r = None
    BY <2>1, <2>2, NoFormParts DEF FormFor, ShownOK
  <2>3. CASE r # None
    <3>1. r \in DOMAIN queue' /\ r \in Requests
      BY <1>1, <2>1, <2>3
    <3>2. queue'[r] \in Item /\ Copy(queue'[r], record'[r]) /\ record'[r] \in Item
      BY <3>1, QueueItems
    <3>3. form' = Opened(queue'[r])
      BY <2>1, <2>3 DEF FormFor
    <3>4. QED
      BY <2>1, <3>1, <3>2, <3>3, OpenedOK DEF ShownOK
  <2>4. QED
    BY <2>2, <2>3
<1>5. QED
  BY <1>3, <1>4

LEMMA EmptyQueueOK ==
    ASSUME NEW rec
    PROVE  QueueOK(EmptyQueue, rec)
BY DEF EmptyQueue, QueueOK, IsQueue

(***************************************************************************)
(* The loads                                                               *)
(***************************************************************************)

LEMMA FetchQueueKeeps ==
    ASSUME Inv, FetchQueue, Cardinality(loads) < 2 * MaxCalls
    PROVE  /\ record' = record /\ department' = department /\ queue' = queue
           /\ loading' \in BOOLEAN /\ failed' \in BOOLEAN
           /\ \A l \in loads' : LoadOK(l, record)
           /\ \E l : loads' = loads \union {l}
           /\ ShownOK(queue', selected', form', record', department)
<1> DEFINE new == [n |-> FreeNumber(loads), state |-> "sent", answer |-> EmptyQueue]
<1>1. /\ record' = record /\ department' = department /\ queue' = queue /\ failed' = failed
      /\ loading' = TRUE /\ loads' = loads \union {new} /\ Render
  BY DEF FetchQueue
<1>2. LoadOK(new, record)
  <2>1. FreeNumber(loads) \in Nat
    BY NumberIsFree DEF Inv, PendingOK, Counted
  <2>2. QED
    BY <2>1, EmptyQueueOK DEF LoadOK
<1> HIDE DEF new
<1>3. /\ record \in [Requests -> Item] /\ QueueOK(queue, record) /\ failed \in BOOLEAN
      /\ form \in Form /\ (selected # None => FormOK(form, selected, record[selected], department))
      /\ \A l \in loads : LoadOK(l, record)
  BY DEF Inv, ShownOK, PendingOK
<1>4. ShownOK(queue', selected', form', record', department)
  BY <1>1, <1>3, RenderShows, ReviewAssumption
<1>5. QED
  BY <1>1, <1>2, <1>3, <1>4

LEMMA ReloadStep ==
    ASSUME Inv, Retry \/ SwitchLanguage
    PROVE  Inv'
<1>1. MayCall /\ sent' = sent + 1 /\ FetchQueue /\ decisions' = decisions
  BY DEF Retry, SwitchLanguage
<1>2. sent < MaxCalls /\ Counted(loads, decisions, sent)
  BY <1>1 DEF MayCall, Inv, PendingOK
<1>3. Cardinality(loads) < 2 * MaxCalls /\ \A l : Counted(loads \union {l}, decisions, sent + 1)
  BY <1>2, CallIsMade
<1>4. /\ record' = record /\ department' = department /\ queue' = queue
      /\ loading' \in BOOLEAN /\ failed' \in BOOLEAN
      /\ \A l \in loads' : LoadOK(l, record)
      /\ \E l : loads' = loads \union {l}
      /\ ShownOK(queue', selected', form', record', department)
  BY <1>1, <1>3, FetchQueueKeeps
<1>5. Counted(loads', decisions', sent')
  BY <1>1, <1>3, <1>4
<1>6. QED
  BY <1>1, <1>4, <1>5 DEF Inv, PendingOK

LEMMA AnswerLoadStep ==
    ASSUME Inv, NEW l \in loads, AnswerLoad(l)
    PROVE  Inv'
<1> DEFINE m == [l EXCEPT !.state = "answered", !.answer = Waiting]
<1>1. /\ UNCHANGED <<department, record, pageVars, decisions, sent>>
      /\ loads' = (loads \ {l}) \union {m}
  BY DEF AnswerLoad
<1>2. LoadOK(l, record) /\ record \in [Requests -> Item]
  BY DEF Inv, PendingOK
<1>3. QueueOK(Waiting, record)
  <2>1. /\ DOMAIN Waiting \subseteq Requests /\ Waiting \in [DOMAIN Waiting -> Item]
        /\ \A r \in DOMAIN Waiting : Waiting[r] = record[r] /\ record[r] \in Item
    BY <1>2 DEF Waiting
  <2>2. QED
    BY <2>1, ItemParts DEF QueueOK, IsQueue, Copy
<1>4. m = [n |-> l.n, state |-> "answered", answer |-> Waiting]
  <2> DEFINE a == Waiting
  <2>1. l = [n |-> l.n, state |-> l.state, answer |-> l.answer]
    BY <1>2 DEF LoadOK
  <2> HIDE DEF a
  <2> DEFINE i == [l EXCEPT !.state = "answered"]
  <2>2. i = [n |-> l.n, state |-> "answered", answer |-> l.answer]
    BY <2>1
  <2>3. m = [i EXCEPT !.answer = a]
    BY DEF a
  <2> HIDE DEF i
  <2>4. [i EXCEPT !.answer = a] = [n |-> l.n, state |-> "answered", answer |-> a]
    BY <2>2
  <2>5. QED
    BY <2>3, <2>4 DEF a
<1> HIDE DEF m
<1>5. LoadOK(m, record)
  BY <1>2, <1>3, <1>4 DEF LoadOK
<1>6. Counted(loads', decisions, sent)
  BY <1>1, LoadsRemain DEF Inv, PendingOK
<1>7. \A k \in loads' : LoadOK(k, record)
  BY <1>1, <1>5 DEF Inv, PendingOK
<1>8. QED
  BY <1>1, <1>6, <1>7 DEF Inv, PendingOK, pageVars

LEMMA LoadEndsStep ==
    ASSUME Inv, NEW l \in loads, EndLoad(l) \/ FailLoad(l)
    PROVE  Inv'
<1>1. /\ UNCHANGED <<department, record, decisions, sent>> /\ loads' = loads \ {l} /\ Render
      /\ loading' \in BOOLEAN /\ failed' \in BOOLEAN
      /\ queue' = queue \/ queue' = l.answer
  BY DEF EndLoad, FailLoad
<1>2. /\ record' \in [Requests -> Item] /\ QueueOK(queue', record')
      /\ form \in Form /\ (selected # None => FormOK(form, selected, record'[selected], department))
  BY <1>1 DEF Inv, ShownOK, PendingOK, LoadOK
<1>3. ShownOK(queue', selected', form', record', department)
  BY <1>1, <1>2, RenderShows, ReviewAssumption
<1>4. PendingOK(loads', decisions', record', sent', department)
  BY <1>1, LoadsRemain DEF Inv, PendingOK
<1>5. QED
  BY <1>1, <1>2, <1>3, <1>4 DEF Inv

(***************************************************************************)
(* The panel                                                               *)
(***************************************************************************)

LEMMA FormChanges ==
    ASSUME NEW f \in Form
    PROVE  /\ [f EXCEPT !.moved = TRUE] \in Form /\ [f EXCEPT !.moved = TRUE].moved
           /\ \A g \in Figures :
                /\ [f EXCEPT !.figures = g, !.typed = TRUE] \in Form
                /\ [f EXCEPT !.figures = g, !.typed = TRUE].typed
                /\ [f EXCEPT !.figures = g, !.typed = TRUE].note = f.note
                /\ [f EXCEPT !.figures = g, !.typed = TRUE].moved = f.moved
                /\ [f EXCEPT !.figures = g, !.typed = TRUE].seen = f.seen
           /\ \A note \in Requests \union {None} :
                /\ [f EXCEPT !.note = note] \in Form
                /\ [f EXCEPT !.note = note].note = note
                /\ [f EXCEPT !.note = note].figures = f.figures
                /\ [f EXCEPT !.note = note].typed = f.typed
                /\ [f EXCEPT !.note = note].moved = f.moved
                /\ [f EXCEPT !.note = note].seen = f.seen
BY DEF Form

\* What the reviewer does to the form leaves it about its row.
LEMMA FormStaysOK ==
    ASSUME NEW f \in Form, NEW r, NEW item, FormOK(f, r, item, department)
    PROVE  /\ \A s, i : FormOK([f EXCEPT !.moved = TRUE], s, i, department)
           /\ \A g \in Figures : FormOK([f EXCEPT !.figures = g, !.typed = TRUE], r, item, department)
           /\ r \in Requests =>
                \A note \in {r, None} : FormOK([f EXCEPT !.note = note], r, item, department)
<1>1. \A s, i : FormOK([f EXCEPT !.moved = TRUE], s, i, department)
  BY FormChanges DEF FormOK
<1>2. \A g \in Figures : FormOK([f EXCEPT !.figures = g, !.typed = TRUE], r, item, department)
  <2>1. ASSUME NEW g \in Figures, NEW h, h = [f EXCEPT !.figures = g, !.typed = TRUE]
        PROVE  FormOK(h, r, item, department)
    <3>1. h.typed /\ h.note = f.note /\ h.moved = f.moved /\ h.seen = f.seen
      BY <2>1, FormChanges
    <3>2. QED
      BY <3>1 DEF FormOK
  <2>2. QED
    BY <2>1
<1>3. ASSUME r \in Requests, NEW note \in {r, None}
      PROVE  FormOK([f EXCEPT !.note = note], r, item, department)
  <2>1. ASSUME NEW h, h = [f EXCEPT !.note = note]
        PROVE  FormOK(h, r, item, department)
    <3>1. /\ h.note = note /\ h.figures = f.figures /\ h.typed = f.typed
          /\ h.moved = f.moved /\ h.seen = f.seen
      BY <1>3, <2>1, FormChanges
    <3>2. QED
      BY <3>1 DEF FormOK
  <2>2. QED
    BY <2>1
<1>4. QED
  BY <1>1, <1>2, <1>3

LEMMA PanelKeepsInv ==
    ASSUME Inv, UNCHANGED <<department, record, queue, loading, failed, loads, decisions, sent>>,
           ShownOK(queue, selected', form', record, department)
    PROVE  Inv'
BY DEF Inv

LEMMA SelectRowStep ==
    ASSUME Inv, NEW r \in Requests, SelectRow(r)
    PROVE  Inv'
<1>1. /\ r \in DOMAIN queue /\ selected' = r /\ form' = [form EXCEPT !.moved = TRUE]
      /\ UNCHANGED <<department, record, queue, loading, failed, loads, decisions, sent>>
  BY DEF SelectRow
<1>2. form \in Form
  BY DEF Inv, ShownOK
<1>3. form' \in Form /\ form'.moved
  BY <1>1, <1>2, FormChanges
<1>4. ShownOK(queue, selected', form', record, department)
  BY <1>1, <1>3 DEF ShownOK, FormOK
<1>5. QED
  BY <1>1, <1>4, PanelKeepsInv

LEMMA EnterFiguresStep ==
    ASSUME Inv, NEW figures \in Figures, EnterFigures(figures)
    PROVE  Inv'
<1>1. /\ selected # None /\ selected' = selected
      /\ form' = [form EXCEPT !.figures = figures, !.typed = TRUE]
      /\ UNCHANGED <<department, record, queue, loading, failed, loads, decisions, sent>>
  BY DEF EnterFigures
<1>2. form \in Form /\ FormOK(form, selected, record[selected], department) /\ selected \in DOMAIN queue
  BY <1>1 DEF Inv, ShownOK
<1>3. form' \in Form /\ FormOK(form', selected, record[selected], department)
  BY <1>1, <1>2, FormChanges, FormStaysOK
<1>4. QED
  BY <1>1, <1>2, <1>3, PanelKeepsInv DEF ShownOK

LEMMA WriteCommentStep ==
    ASSUME Inv, WriteComment
    PROVE  Inv'
<1>1. PICK note \in {selected, None} : form' = [form EXCEPT !.note = note]
  BY DEF WriteComment
<1>2. /\ selected' = selected
      /\ UNCHANGED <<department, record, queue, loading, failed, loads, decisions, sent>>
  BY DEF WriteComment
<1>3. /\ form \in Form /\ selected \in DOMAIN queue \union {None} /\ DOMAIN queue \subseteq Requests
      /\ (selected # None => FormOK(form, selected, record[selected], department))
  BY QueueItems DEF Inv, ShownOK
<1>4. form' \in Form
  BY <1>1, <1>3, FormChanges
<1>5. selected # None => FormOK(form', selected, record[selected], department)
  BY <1>1, <1>3, FormStaysOK
<1>6. QED
  BY <1>2, <1>3, <1>4, <1>5, PanelKeepsInv DEF ShownOK

LEMMA DecideStep ==
    ASSUME Inv, NEW kind \in {"approve", "reject"}, NEW content, Decide(kind, content),
           content \in Form, selected # None => FormOK(content, selected, record[selected], department)
    PROVE  Inv'
<1> DEFINE new == [n |-> FreeNumber(decisions), kind |-> kind, request |-> selected,
                   form |-> content, state |-> "sent"]
<1>1. /\ selected # None /\ MayCall /\ sent' = sent + 1 /\ decisions' = decisions \union {new}
      /\ UNCHANGED <<department, record, pageVars, loads>>
  BY DEF Decide
<1>2. sent < MaxCalls /\ Counted(loads, decisions, sent)
  BY <1>1 DEF MayCall, Inv, PendingOK
<1>3. Cardinality(decisions) < 2 * MaxCalls /\ \A d : Counted(loads, decisions \union {d}, sent + 1)
  BY <1>2, CallIsMade
<1>4. FreeNumber(decisions) \in Nat /\ \A d \in decisions : d.n # FreeNumber(decisions)
  BY <1>2, <1>3, NumberIsFree DEF Counted
<1>5. selected \in Requests
  BY <1>1, QueueItems DEF Inv, ShownOK
<1>6. DecisionOK(new, record, department)
  BY <1>1, <1>4, <1>5 DEF DecisionOK, Decision
<1>7. new.n = FreeNumber(decisions)
  OBVIOUS
<1> HIDE DEF new
<1>8. Distinct(decisions')
  BY <1>1, <1>4, <1>7 DEF Distinct, Inv, PendingOK
<1>9. PendingOK(loads', decisions', record', sent', department)
  BY <1>1, <1>3, <1>6, <1>8 DEF Inv, PendingOK
<1>10. QED
  BY <1>1, <1>9 DEF Inv, pageVars

LEMMA ApproveStep ==
    ASSUME Inv, Approve
    PROVE  Inv'
BY DecideStep DEF Approve, Inv, ShownOK

LEMMA RejectStep ==
    ASSUME Inv, Reject
    PROVE  Inv'
<1> DEFINE reasoned == [form EXCEPT !.note = IF @ = None THEN selected ELSE @]
<1>1. /\ form \in Form /\ selected \in DOMAIN queue \union {None} /\ DOMAIN queue \subseteq Requests
      /\ (selected # None => FormOK(form, selected, record[selected], department))
  BY QueueItems DEF Inv, ShownOK
<1>2. CASE Decide("reject", form)
  BY <1>1, <1>2, DecideStep
<1>3. CASE Decide("reject", reasoned)
  <2>1. selected # None
    BY <1>3 DEF Decide
  <2> DEFINE note == IF form.note = None THEN selected ELSE form.note
  <2>2. reasoned = [form EXCEPT !.note = note]
    OBVIOUS
  <2>3. note \in Requests \union {None}
    BY <1>1, <2>1, FormParts
  <2>4. ~form.moved => note \in {selected, None}
    BY <1>1, <2>1 DEF FormOK
  <2> HIDE DEF reasoned, note
  <2>5. reasoned \in Form
    BY <1>1, <2>2, <2>3, FormChanges
  <2>6. FormOK(reasoned, selected, record[selected], department)
    BY <1>1, <2>1, <2>2, <2>3, <2>4, FormChanges DEF FormOK
  <2>7. QED
    BY <1>3, <2>5, <2>6, DecideStep DEF reasoned
<1>4. QED
  BY <1>2, <1>3 DEF Reject

(***************************************************************************)
(* The decisions                                                           *)
(***************************************************************************)

LEMMA DistinctSubset ==
    ASSUME NEW ds, Distinct(ds), NEW d \in ds
    PROVE  /\ Distinct(ds \ {d})
           /\ \A e : e.n = d.n => Distinct((ds \ {d}) \union {e})
BY DEF Distinct

LEMMA AnswerDecisionStep ==
    ASSUME Inv, NEW d \in decisions, AnswerDecision(d)
    PROVE  Inv'
<1> DEFINE new == Decided(record[d.request], d)
           e == [d EXCEPT !.state = "accepted"]
<1>1. /\ DecisionOK(d, record, department) /\ d \in Decision /\ d.request \in Requests /\ d.form \in Form
      /\ record \in [Requests -> Item] /\ record[d.request] \in Item
  BY DecisionParts DEF Inv, PendingOK, DecisionOK
<1>2. /\ record' = [record EXCEPT ![d.request] = new]
      /\ decisions' = (decisions \ {d}) \union {e}
      /\ UNCHANGED <<department, pageVars, loads, sent>>
  BY DEF AnswerDecision
<1>3. new \in Item /\ new.updates = record[d.request].updates + 1
  <2> DEFINE g == IF d.kind = "approve" /\ department # "manager" THEN d.form.figures
                  ELSE record[d.request].figures
             up == record[d.request].updates + 1
  <2>1. new = [stage |-> "passed", figures |-> g, updates |-> up]
    <3> DEFINE item == record[d.request]
               i == [item EXCEPT !.stage = "passed"]
               j == [i EXCEPT !.figures = g]
    <3>1. item = [stage |-> item.stage, figures |-> item.figures, updates |-> item.updates]
      BY <1>1, ItemParts
    <3>2. i = [stage |-> "passed", figures |-> item.figures, updates |-> item.updates]
      BY <3>1
    <3>3. new = [j EXCEPT !.updates = up]
      BY <3>2 DEF Decided
    <3> HIDE DEF i, g, up
    <3>4. j = [stage |-> "passed", figures |-> g, updates |-> item.updates]
      BY <3>2
    <3> HIDE DEF j
    <3>5. [j EXCEPT !.updates = up] = [stage |-> "passed", figures |-> g, updates |-> up]
      BY <3>4
    <3>6. QED
      BY <3>3, <3>5
  <2>2. g \in Figures /\ up \in Nat
    BY <1>1, ItemParts, FormParts
  <2> HIDE DEF new, g, up
  <2>3. new \in Item /\ new.updates = up
    BY <2>1, <2>2 DEF Item
  <2>4. QED
    BY <2>3 DEF up
<1> HIDE DEF new, e
<1>4. /\ record' \in [Requests -> Item] /\ QueueOK(queue, record')
      /\ \A l \in loads : LoadOK(l, record')
      /\ \A c \in decisions : DecisionOK(c, record', department)
      /\ ShownOK(queue, selected, form, record', department)
  <2>1. PICK w \in Item : /\ record' = [record EXCEPT ![d.request] = w]
                          /\ w.updates = record[d.request].updates + 1
    BY <1>2, <1>3
  <2>2. PICK r \in Requests : r = d.request
    BY <1>1
  <2>3. /\ record' = [record EXCEPT ![r] = w] /\ w.updates = record[r].updates + 1
    BY <2>1, <2>2
  <2>4. /\ record' \in [Requests -> Item] /\ QueueOK(queue, record')
        /\ \A l \in loads : LoadOK(l, record')
        /\ \A c \in decisions : DecisionOK(c, record', department)
    BY <1>1, <2>3, WriteKeeps DEF Inv, PendingOK
  <2>5. ShownOK(queue, selected, form, record', department)
    BY <1>1, <2>3, WriteKeepsShown DEF Inv
  <2>6. QED
    BY <2>4, <2>5
<1>6. e \in Decision /\ e.n = d.n /\ e.request = d.request /\ e.form = d.form
  BY <1>1 DEF Decision, e
<1>5. ShownOK(queue, selected, form, record', department)
  BY <1>4
<1>7. \A c \in decisions' : DecisionOK(c, record', department)
  BY <1>2, <1>4, <1>6 DEF DecisionOK
<1>8. Distinct(decisions') /\ Counted(loads, decisions', sent)
  BY <1>2, <1>6, DistinctSubset, DecisionsRemain DEF Inv, PendingOK
<1>9. QED
  BY <1>2, <1>4, <1>5, <1>7, <1>8 DEF Inv, PendingOK, pageVars

LEMMA EndDecisionStep ==
    ASSUME Inv, NEW d \in decisions, EndDecision(d)
    PROVE  Inv'
<1>1. decisions' = decisions \ {d} /\ FetchQueue /\ sent' = sent
  BY DEF EndDecision
<1>2. /\ Cardinality(loads) < 2 * MaxCalls
      /\ \A l : Counted(loads \union {l}, decisions \ {d}, sent)
  BY DecisionsRemain DEF Inv, PendingOK
<1>3. /\ record' = record /\ department' = department /\ queue' = queue
      /\ loading' \in BOOLEAN /\ failed' \in BOOLEAN
      /\ \A l \in loads' : LoadOK(l, record)
      /\ \E l : loads' = loads \union {l}
      /\ ShownOK(queue', selected', form', record', department)
  BY <1>1, <1>2, FetchQueueKeeps
<1>4. Counted(loads', decisions', sent') /\ Distinct(decisions')
  BY <1>1, <1>2, <1>3, DistinctSubset DEF Inv, PendingOK
<1>5. QED
  BY <1>1, <1>3, <1>4 DEF Inv, PendingOK

LEMMA FailDecisionStep ==
    ASSUME Inv, NEW d \in decisions, FailDecision(d)
    PROVE  Inv'
<1>1. /\ decisions' = decisions \ {d} /\ failed' = TRUE /\ Render
      /\ UNCHANGED <<department, record, queue, loading, loads, sent>>
  BY DEF FailDecision
<1>2. /\ record' \in [Requests -> Item] /\ QueueOK(queue', record')
      /\ form \in Form /\ (selected # None => FormOK(form, selected, record'[selected], department))
  BY <1>1 DEF Inv, ShownOK
<1>3. ShownOK(queue', selected', form', record', department)
  BY <1>1, <1>2, RenderShows, ReviewAssumption
<1>4. Counted(loads', decisions', sent') /\ Distinct(decisions')
  BY <1>1, DistinctSubset, DecisionsRemain DEF Inv, PendingOK
<1>5. QED
  BY <1>1, <1>2, <1>3, <1>4 DEF Inv, PendingOK

(***************************************************************************)
(* The theorems                                                            *)
(***************************************************************************)

LEMMA InitInv == Init => Inv
<1> SUFFICES ASSUME Init PROVE Inv
  OBVIOUS
<1> DEFINE first == [n |-> 1, state |-> "sent", answer |-> EmptyQueue]
           item(st, claimed) == [stage |-> st, figures |-> claimed, updates |-> 0]
           initial == {item(s, claimed) : s \in {"earlier", "here"}, claimed \in Figures}
<1>1. record \in [Requests -> Item]
  <2>1. \A s \in {"earlier", "here"} : \A claimed \in Figures : item(s, claimed) \in Item
    BY DEF Item
  <2>2. record \in [Requests -> initial]
    BY DEF Init
  <2> HIDE DEF item
  <2>3. initial \subseteq Item
    BY <2>1
  <2> HIDE DEF initial
  <2>4. QED
    BY <2>2, <2>3
<1>2. QueueOK(queue, record) /\ LoadOK(first, record)
  BY EmptyQueueOK DEF Init, LoadOK
<1>3. ShownOK(queue, selected, form, record, department)
  BY NoFormParts DEF Init, ShownOK
<1>4. Counted({first}, {}, 1)
  <2> HIDE DEF first
  <2>1. IsFiniteSet({first}) /\ Cardinality({first}) = 1
    BY FS_Singleton
  <2>2. IsFiniteSet({}) /\ Cardinality({}) = 0
    BY FS_EmptySet
  <2>3. QED
    BY <2>1, <2>2 DEF Counted
<1>5. PendingOK(loads, decisions, record, sent, department)
  BY <1>2, <1>4 DEF Init, PendingOK, Distinct
<1>6. department \in Departments /\ loading \in BOOLEAN /\ failed \in BOOLEAN
  <2>1. department \in Departments /\ loading = TRUE /\ failed = FALSE
    BY DEF Init
  <2>2. QED
    BY <2>1
<1>7. QED
  BY <1>1, <1>2, <1>3, <1>5, <1>6 DEF Inv

LEMMA NextInv == Inv /\ [Next]_vars => Inv'
<1> SUFFICES ASSUME Inv, [Next]_vars PROVE Inv'
  OBVIOUS
<1>1. ASSUME NEW r \in Requests, Elsewhere(r) PROVE Inv'
  BY <1>1, ElsewhereStep
<1>2. CASE PageStep
  <2>1. CASE Retry \/ SwitchLanguage
    BY <2>1, ReloadStep
  <2>2. ASSUME NEW r \in Requests, SelectRow(r) PROVE Inv'
    BY <2>2, SelectRowStep
  <2>3. ASSUME NEW figures \in Figures, EnterFigures(figures) PROVE Inv'
    BY <2>3, EnterFiguresStep
  <2>4. CASE WriteComment
    BY <2>4, WriteCommentStep
  <2>5. CASE Approve
    BY <2>5, ApproveStep
  <2>6. CASE Reject
    BY <2>6, RejectStep
  <2>7. QED
    BY <1>2, <2>1, <2>2, <2>3, <2>4, <2>5, <2>6 DEF PageStep
<1>3. ASSUME NEW l \in loads, LoadStep(l) PROVE Inv'
  BY <1>3, AnswerLoadStep, LoadEndsStep DEF LoadStep
<1>4. ASSUME NEW d \in decisions, DecisionStep(d) PROVE Inv'
  BY <1>4, AnswerDecisionStep, EndDecisionStep, FailDecisionStep DEF DecisionStep
<1>5. CASE UNCHANGED vars
  BY <1>5 DEF vars, pageVars, Inv
<1>6. QED
  BY <1>1, <1>2, <1>3, <1>4, <1>5 DEF Next

LEMMA InvHolds == Spec => []Inv
BY InitInv, NextInv, PTL DEF Spec

\* The state of the page, of the calls it awaits and of the stored requests
\* stays well formed, whatever overtakes what: an answer that comes late brings
\* no row of a request there is not, and the selected row is on the list.
THEOREM TypeCorrect == Spec => []TypeOK
<1>1. Inv => TypeOK
  <2> SUFFICES ASSUME Inv PROVE TypeOK
    OBVIOUS
  <2>1. IsQueue(queue) /\ selected \in DOMAIN queue \union {None} /\ form \in Form
    BY DEF Inv, QueueOK, ShownOK
  <2>2. ASSUME NEW l \in loads PROVE IsLoad(l)
    <3>1. LoadOK(l, record)
      BY DEF Inv, PendingOK
    <3>2. DOMAIN l = {"n", "state", "answer"}
      BY <3>1 DEF LoadOK
    <3>3. QED
      BY <3>1, <3>2 DEF LoadOK, QueueOK, IsLoad
  <2>3. decisions \subseteq Decision /\ sent \in Nat
    BY DEF Inv, PendingOK, DecisionOK, Counted
  <2>4. QED
    BY <2>1, <2>2, <2>3 DEF Inv, TypeOK
<1>2. QED
  BY <1>1, InvHolds, PTL

\* Nothing but the answer to a decision turns it into an accepted one.
LEMMA OnlyAnswerAccepts ==
    ASSUME Inv, [Next]_vars, NEW d \in decisions, Accepts(d)
    PROVE  AnswerDecision(d)
<1> DEFINE e == [d EXCEPT !.state = "accepted"]
<1>1. Distinct(decisions) /\ d \in Decision
  BY DEF Inv, PendingOK, DecisionOK
<1>2. e \in decisions' /\ e.n = d.n /\ e.state = "accepted" /\ d.state = "sent"
  BY <1>1 DEF Accepts, Decision
<1> HIDE DEF e
<1>3. e \notin decisions
  BY <1>1, <1>2 DEF Distinct
<1>4. ~ decisions' \subseteq decisions
  BY <1>2, <1>3
<1>5. \A r \in Requests : ~Elsewhere(r)
  BY <1>4 DEF Elsewhere
<1>6. ~PageStep
  <2>1. /\ ~Retry /\ ~SwitchLanguage /\ ~WriteComment
        /\ \A r \in Requests : ~SelectRow(r)
        /\ \A figures \in Figures : ~EnterFigures(figures)
    BY <1>4 DEF Retry, SwitchLanguage, WriteComment, SelectRow, EnterFigures
  <2>2. ASSUME NEW kind, NEW content, Decide(kind, content) PROVE FALSE
    <3> DEFINE new == [n |-> FreeNumber(decisions), kind |-> kind, request |-> selected,
                       form |-> content, state |-> "sent"]
    <3>1. decisions' = decisions \union {new} /\ new.state = "sent"
      BY <2>2 DEF Decide
    <3> HIDE DEF new
    <3>2. QED
      BY <1>2, <1>3, <3>1
  <2>3. ~Approve /\ ~Reject
    BY <2>2 DEF Approve, Reject
  <2>4. QED
    BY <2>1, <2>3 DEF PageStep
<1>7. \A l \in loads : ~LoadStep(l)
  BY <1>4 DEF LoadStep, AnswerLoad, EndLoad, FailLoad
<1>8. ~UNCHANGED vars
  BY <1>4 DEF vars
<1>9. PICK c \in decisions : DecisionStep(c)
  BY <1>5, <1>6, <1>7, <1>8 DEF Next
<1>10. AnswerDecision(c)
  BY <1>4, <1>9 DEF DecisionStep, EndDecision, FailDecision
<1>11. c = d
  <2> DEFINE m == [c EXCEPT !.state = "accepted"]
  <2>1. c \in Decision
    BY DEF Inv, PendingOK, DecisionOK
  <2>2. m.n = c.n /\ decisions' = (decisions \ {c}) \union {m}
    BY <1>10, <2>1 DEF AnswerDecision, Decision
  <2> HIDE DEF m
  <2>3. QED
    BY <1>1, <1>2, <1>3, <2>2 DEF Distinct
<1>12. QED
  BY <1>10, <1>11

\* What is stored when a decision is accepted.
LEMMA DecidedFigures ==
    ASSUME NEW item \in Item, NEW d
    PROVE  Decided(item, d).figures \in {item.figures, d.form.figures}
BY DEF Decided, Item

\* A reviewer who stays on the row the form was opened for decides about that
\* request with what was entered for it: no list that arrives late, no colleague
\* who edits the request and no other decision under way puts the figures or the
\* comment of another request under the buttons.
THEOREM DecidesAsEntered == Spec => DecidedAsEntered
<1> DEFINE Entered(d) ==
             /\ d.form.note \in {None, d.request}
             /\ record'[d.request].figures # record[d.request].figures => ChangeIsExplained(d)
<1>1. ASSUME Inv, [Next]_vars, NEW d \in decisions, Accepts(d), ~d.form.moved
      PROVE  Entered(d)
  <2>1. AnswerDecision(d)
    BY <1>1, OnlyAnswerAccepts
  <2>2. /\ DecisionOK(d, record, department) /\ d \in Decision /\ d.request \in Requests
        /\ d.form \in Form /\ record \in [Requests -> Item] /\ record[d.request] \in Item
    BY <1>1, DecisionParts DEF Inv, PendingOK, DecisionOK
  <2> DEFINE item == record[d.request]
  <2>3. /\ d.form.note \in {None, d.request} /\ d.form.seen <= item.updates
        /\ ~d.form.typed /\ d.form.seen = item.updates => d.form.figures = Displayed(item.figures)
    BY <1>1, <2>2 DEF DecisionOK, FormOK, Displayed, DisplayedTo
  <2>4. record'[d.request].figures \in {item.figures, d.form.figures}
    <3>1. record'[d.request] = Decided(item, d)
      BY <2>1, <2>2 DEF AnswerDecision
    <3>2. QED
      BY <2>2, <3>1, DecidedFigures
  <2>5. QED
    BY <2>3, <2>4 DEF ChangeIsExplained
<1>2. Inv /\ [Next]_vars => [\A d \in decisions : Accepts(d) /\ ~d.form.moved => Entered(d)]_vars
  BY <1>1
<1>3. QED
  BY <1>2, InvHolds, PTL DEF Spec, DecidedAsEntered
=============================================================================
