------------------------ MODULE PayrollDesk_proofs ------------------------
(* Theorems of PayrollDesk, for any requests, figures and bounds. *)
EXTENDS PayrollDesk, FiniteSetTheorems, TLAPS

(***************************************************************************)
(* The inductive invariant                                                 *)
(***************************************************************************)

\* Every write raises updatedAt, so that a copy of an item is as old as it says:
\* it equals the stored item or has a smaller updatedAt.
Copy(c, item) ==
    /\ c.updatedAt <= item.updatedAt
    /\ c.updatedAt = item.updatedAt => c = item

\* What an officer relies on are the stored figures, or older ones.
ReliedOK(x, item) ==
    /\ x \in Reliance
    /\ x.updatedAt <= item.updatedAt
    /\ x.updatedAt = item.updatedAt => x.figures = item.figures

ListOK(list, rec) ==
    /\ list \in List
    /\ \A r \in Ids(list) : Copy(list[r], rec[r])

PanelOK(p, rec) ==
    \/ p = NoPanel
    \/ p \in Panel /\ (p.dialog => ReliedOK(p.relied, rec[p.request]))

LoadOK(l, rec) ==
    /\ l = [n |-> l.n, tab |-> l.tab, state |-> l.state, answer |-> l.answer]
    /\ l.tab \in Tabs
    /\ ListOK(l.answer, rec)

SaveOK(s, rec, p) ==
    /\ s = [n |-> s.n, request |-> s.request, input |-> s.input, opens |-> s.opens,
            mounted |-> s.mounted, state |-> s.state, answer |-> s.answer]
    /\ s.request \in Requests /\ s.input \in Figures
    /\ s.mounted => p.request = s.request
    /\ s.state = "answered" =>
         s.answer \in Item /\ Copy(s.answer, rec[s.request]) /\ s.answer.figures = s.input

FinalizationOK(f, rec, p) ==
    /\ f = [n |-> f.n, request |-> f.request, relied |-> f.relied, mounted |-> f.mounted,
            state |-> f.state, answer |-> f.answer]
    /\ f.request \in Requests
    /\ ReliedOK(f.relied, rec[f.request])
    /\ f.mounted => p.request = f.request
    /\ f.state = "answered" =>
         /\ f.answer \in Item /\ Copy(f.answer, rec[f.request])
         /\ f.answer.updatedAt = f.relied.updatedAt + 1 => f.answer.figures = f.relied.figures

\* The parts that a write to a request leaves as they are: lists and calls.
ServedOK(rec, q, ls) ==
    /\ rec \in [Requests -> Item]
    /\ q \in [Tabs -> List]
    /\ \A t \in Tabs : ListOK(q[t], rec)
    /\ \A l \in ls : LoadOK(l, rec)

MountedOK(rec, p, ss, fs) ==
    /\ PanelOK(p, rec)
    /\ \A s \in ss : SaveOK(s, rec, p)
    /\ \A f \in fs : FinalizationOK(f, rec, p)

\* SelectionBelongsToList of some lists and selections.
SelectionOK(q, sel) ==
    /\ DOMAIN sel = Tabs
    /\ \A t \in Tabs : IF Ids(q[t]) = {} THEN sel[t] = None ELSE sel[t] \in Ids(q[t])

Inv ==
    /\ activeTab \in Tabs
    /\ ServedOK(record, queue, loads)
    /\ SelectionOK(queue, selected)
    /\ MountedOK(record, panel, saves, finalizations)

LEMMA CopyOfItself ==
    ASSUME NEW item \in Item
    PROVE  Copy(item, item)
BY DEF Copy, Item

LEMMA NoCopyOfNothing ==
    /\ EmptyList \in List /\ Ids(EmptyList) = {}
    /\ \A item \in Item : item # Absent
BY DEF EmptyList, List, Ids, Absent, Item

LEMMA ListedItem ==
    ASSUME NEW list \in List, NEW r \in Ids(list)
    PROVE  r \in Requests /\ list[r] \in Item
BY DEF List, Ids

(***************************************************************************)
(* A write to a request                                                    *)
(***************************************************************************)

\* A write makes every copy and everything relied on older, never false.
LEMMA WriteAgesCopies ==
    ASSUME NEW rec \in [Requests -> Item], NEW w \in Requests, NEW new \in Item,
           new.updatedAt = rec[w].updatedAt + 1,
           NEW rec2, rec2 = [rec EXCEPT ![w] = new], NEW r \in Requests
    PROVE  /\ rec2 \in [Requests -> Item]
           /\ \A c \in Item : Copy(c, rec[r]) => Copy(c, rec2[r])
           /\ \A x : ReliedOK(x, rec[r]) => ReliedOK(x, rec2[r])
<1>1. rec2 \in [Requests -> Item] /\ rec2[r] = IF r = w THEN new ELSE rec[r]
  OBVIOUS
<1>2. rec[r].updatedAt \in Nat /\ rec2[r].updatedAt \in Nat
  BY <1>1 DEF Item
<1>3. r = w => rec2[r].updatedAt = rec[r].updatedAt + 1
  BY <1>1
<1>4. ASSUME NEW c \in Item, Copy(c, rec[r]) PROVE Copy(c, rec2[r])
  <2>1. c.updatedAt \in Nat
    BY DEF Item
  <2>2. QED
    BY <1>1, <1>2, <1>3, <1>4, <2>1 DEF Copy
<1>5. ASSUME NEW x, ReliedOK(x, rec[r]) PROVE ReliedOK(x, rec2[r])
  <2>1. x.updatedAt \in Nat
    BY <1>5 DEF ReliedOK, Reliance
  <2>2. QED
    BY <1>1, <1>2, <1>3, <1>5, <2>1 DEF ReliedOK
<1>6. QED
  BY <1>1, <1>4, <1>5

LEMMA WriteKeepsLists ==
    ASSUME NEW rec, NEW q, NEW ls, ServedOK(rec, q, ls),
           NEW w \in Requests, NEW new \in Item, new.updatedAt = rec[w].updatedAt + 1,
           NEW rec2, rec2 = [rec EXCEPT ![w] = new]
    PROVE  ServedOK(rec2, q, ls)
<1>1. rec \in [Requests -> Item]
  BY DEF ServedOK
<1>2. \A r \in Requests : \A c \in Item : Copy(c, rec[r]) => Copy(c, rec2[r])
  BY <1>1, WriteAgesCopies
<1>3. rec2 \in [Requests -> Item]
  BY <1>1
<1>4. \A list : ListOK(list, rec) => ListOK(list, rec2)
  BY <1>2, ListedItem DEF ListOK
<1>5. QED
  BY <1>3, <1>4 DEF ServedOK, LoadOK

LEMMA WriteKeepsMounted ==
    ASSUME NEW rec \in [Requests -> Item], NEW p, NEW ss, NEW fs, MountedOK(rec, p, ss, fs),
           NEW w \in Requests, NEW new \in Item, new.updatedAt = rec[w].updatedAt + 1,
           NEW rec2, rec2 = [rec EXCEPT ![w] = new]
    PROVE  MountedOK(rec2, p, ss, fs)
<1>1. \A r \in Requests : \A c \in Item : Copy(c, rec[r]) => Copy(c, rec2[r])
  BY WriteAgesCopies
<1>2. \A r \in Requests : \A x : ReliedOK(x, rec[r]) => ReliedOK(x, rec2[r])
  BY WriteAgesCopies
<1>3. PanelOK(p, rec2)
  <2>1. p \in Panel => p.request \in Requests
    BY DEF Panel
  <2>2. QED
    BY <1>2, <2>1 DEF MountedOK, PanelOK
<1>4. \A s \in ss : SaveOK(s, rec2, p)
  BY <1>1 DEF MountedOK, SaveOK
<1>5. \A f \in fs : FinalizationOK(f, rec2, p)
  BY <1>1, <1>2 DEF MountedOK, FinalizationOK
<1>6. QED
  BY <1>3, <1>4, <1>5 DEF MountedOK

\* The three writes.
ItemWith(st, v, g, n) == [stage |-> st, verified |-> v, figures |-> g, updatedAt |-> n]

LEMMA ItemWithType ==
    ASSUME NEW st \in {"earlier", "salary-finalization", "completed"}, NEW v \in BOOLEAN,
           NEW g \in Figures, NEW n \in Nat
    PROVE  /\ ItemWith(st, v, g, n) \in Item
           /\ ItemWith(st, v, g, n).updatedAt = n /\ ItemWith(st, v, g, n).figures = g
BY DEF ItemWith, Item

LEMMA ItemParts ==
    ASSUME NEW item \in Item
    PROVE  /\ item = ItemWith(item.stage, item.verified, item.figures, item.updatedAt)
           /\ item.stage \in {"earlier", "salary-finalization", "completed"}
           /\ item.verified \in BOOLEAN /\ item.figures \in Figures
           /\ item.updatedAt \in Nat /\ item.updatedAt + 1 \in Nat
BY DEF ItemWith, Item

SavedAs(item, v, g) ==
    [item EXCEPT !.verified = v, !.figures = g, !.updatedAt = item.updatedAt + 1]

LEMMA SavedAsParts ==
    ASSUME NEW item \in Item, NEW v \in BOOLEAN, NEW g \in Figures
    PROVE  /\ SavedAs(item, v, g) \in Item
           /\ SavedAs(item, v, g).updatedAt = item.updatedAt + 1
           /\ SavedAs(item, v, g).figures = g
<1> DEFINE i == [item EXCEPT !.verified = v]
           j == [i EXCEPT !.figures = g]
<1>1. i = ItemWith(item.stage, v, item.figures, item.updatedAt)
  BY ItemParts DEF ItemWith
<1>2. SavedAs(item, v, g) = [j EXCEPT !.updatedAt = item.updatedAt + 1]
  BY DEF SavedAs
<1> HIDE DEF i
<1>3. j = ItemWith(item.stage, v, g, item.updatedAt)
  BY <1>1 DEF ItemWith
<1> HIDE DEF j
<1>4. SavedAs(item, v, g) = ItemWith(item.stage, v, g, item.updatedAt + 1)
  BY <1>2, <1>3 DEF ItemWith
<1>5. item.stage \in {"earlier", "salary-finalization", "completed"} /\ item.updatedAt + 1 \in Nat
  BY ItemParts
<1> DEFINE k == ItemWith(item.stage, v, g, item.updatedAt + 1)
<1>6. k \in Item /\ k.updatedAt = item.updatedAt + 1 /\ k.figures = g
  BY <1>5, ItemWithType
<1> HIDE DEF k
<1>7. SavedAs(item, v, g) = k
  BY <1>4 DEF k
<1>8. QED
  BY <1>6, <1>7

LEMMA WritesRaiseUpdatedAt ==
    ASSUME NEW item \in Item
    PROVE  /\ \A g \in Figures : /\ Saved(item, g) \in Item
                                 /\ Saved(item, g).updatedAt = item.updatedAt + 1
                                 /\ Saved(item, g).figures = g
           /\ Finalized(item) \in Item
           /\ Finalized(item).updatedAt = item.updatedAt + 1
           /\ Finalized(item).figures = item.figures
           /\ PassedOn(item) \in Item
           /\ PassedOn(item).updatedAt = item.updatedAt + 1
<1>2. Finalized(item) = ItemWith("completed", item.verified, item.figures, item.updatedAt + 1)
  <2> DEFINE i == [item EXCEPT !.stage = "completed"]
  <2>1. i = ItemWith("completed", item.verified, item.figures, item.updatedAt)
    BY ItemParts DEF ItemWith
  <2>2. Finalized(item) = [i EXCEPT !.updatedAt = i.updatedAt + 1]
    BY DEF Finalized
  <2> HIDE DEF i
  <2>3. QED
    BY <2>1, <2>2 DEF ItemWith
<1>3. PassedOn(item)
        = ItemWith("salary-finalization", item.verified, item.figures, item.updatedAt + 1)
  <2> DEFINE i == [item EXCEPT !.stage = "salary-finalization"]
  <2>1. i = ItemWith("salary-finalization", item.verified, item.figures, item.updatedAt)
    BY ItemParts DEF ItemWith
  <2>2. PassedOn(item) = [i EXCEPT !.updatedAt = i.updatedAt + 1]
    BY DEF PassedOn
  <2> HIDE DEF i
  <2>3. QED
    BY <2>1, <2>2 DEF ItemWith
<1>4. ASSUME NEW g \in Figures
      PROVE  /\ Saved(item, g) \in Item /\ Saved(item, g).figures = g
             /\ Saved(item, g).updatedAt = item.updatedAt + 1
  <2>1. TRUE \in BOOLEAN
    OBVIOUS
  <2>2. Saved(item, g) = SavedAs(item, TRUE, g)
    BY DEF Saved, SavedAs
  <2>3. \A v \in BOOLEAN : /\ SavedAs(item, v, g) \in Item
                            /\ SavedAs(item, v, g).updatedAt = item.updatedAt + 1
                            /\ SavedAs(item, v, g).figures = g
    BY <1>4, SavedAsParts
  <2> DEFINE k == SavedAs(item, TRUE, g)
  <2>4. k \in Item /\ k.updatedAt = item.updatedAt + 1 /\ k.figures = g
    BY <2>1, <2>3, Zenon
  <2> HIDE DEF k
  <2>5. Saved(item, g) = k
    BY <2>2 DEF k
  <2>6. QED
    BY <2>4, <2>5
<1>5. /\ Finalized(item) \in Item /\ Finalized(item).figures = item.figures
      /\ Finalized(item).updatedAt = item.updatedAt + 1
  BY <1>2, ItemParts, ItemWithType
<1>6. /\ PassedOn(item) \in Item
      /\ PassedOn(item).updatedAt = item.updatedAt + 1
  BY <1>3, ItemParts, ItemWithType
<1>7. QED
  BY <1>4, <1>5, <1>6

(***************************************************************************)
(* Rendering                                                               *)
(***************************************************************************)

LEMMA ShownIsListed ==
    ASSUME NEW tab, NEW lists, NEW chosen, NEW busy, NEW broken, NEW r,
           r = SelectedRequest(tab, lists, chosen, busy, broken)
    PROVE  r = None \/ r \in Ids(lists[tab])
BY DEF SelectedRequest

\* The panel that is there after a rendering is the one that was, or a new one
\* without a dialog; the calls of a panel that is gone are no longer followed.
LEMMA RenderedOK ==
    ASSUME NEW rec, NEW p, NEW ss, NEW fs, MountedOK(rec, p, ss, fs),
           NEW list, ListOK(list, rec), NEW r, r = None \/ r \in Ids(list)
    PROVE  MountedOK(rec, Rendered(p, r, list), Followed(ss, p.request = r), Followed(fs, p.request = r))
<1> DEFINE kept == p.request = r
           n == Rendered(p, r, list)
<1>1. r # None => r \in Requests /\ list[r] \in Item
  BY ListedItem DEF ListOK
<1>2. NoPanel.request = None /\ None \notin Requests
  BY DeskAssumption DEF NoPanel
<1>3. PanelOK(n, rec)
  <2>1. CASE r = None
    BY <2>1 DEF Rendered, PanelOK
  <2>2. CASE r # None /\ kept
    BY <2>2 DEF Rendered, MountedOK
  <2>3. CASE r # None /\ ~kept
    <3>1. n = Opened(r, list[r])
      BY <2>3 DEF Rendered
    <3>2. list[r].figures \in Figures /\ r \in Requests
      BY <1>1, <2>3 DEF Item
    <3>3. NothingRelied \in Reliance
      BY DEF NothingRelied, Reliance
    <3>4. Opened(r, list[r]) \in Panel /\ Opened(r, list[r]).dialog = FALSE
      BY <3>2, <3>3 DEF Opened, Panel
    <3>5. QED
      BY <3>1, <3>4 DEF PanelOK
  <2>4. QED
    BY <2>1, <2>2, <2>3
<1>4. kept => n.request = p.request
  BY <1>2 DEF Rendered
<1> HIDE DEF n, kept
<1>5. ASSUME NEW s \in ss PROVE SaveOK([s EXCEPT !.mounted = @ /\ kept], rec, n)
  <2>1. SaveOK(s, rec, p)
    BY DEF MountedOK
  <2> DEFINE q == [s EXCEPT !.mounted = @ /\ kept]
  <2>2. q = [n |-> s.n, request |-> s.request, input |-> s.input, opens |-> s.opens,
             mounted |-> s.mounted /\ kept, state |-> s.state, answer |-> s.answer]
    BY <2>1 DEF SaveOK
  <2> HIDE DEF q
  <2>3. /\ q = [n |-> q.n, request |-> q.request, input |-> q.input, opens |-> q.opens,
                mounted |-> q.mounted, state |-> q.state, answer |-> q.answer]
        /\ q.request = s.request /\ q.input = s.input /\ q.state = s.state /\ q.answer = s.answer
        /\ q.mounted = (s.mounted /\ kept)
    BY <2>2
  <2>4. q.mounted => n.request = q.request
    BY <1>4, <2>1, <2>3 DEF SaveOK
  <2>5. SaveOK(q, rec, n)
    BY <2>1, <2>3, <2>4 DEF SaveOK
  <2>6. QED
    BY <2>5 DEF q
<1>6. ASSUME NEW f \in fs PROVE FinalizationOK([f EXCEPT !.mounted = @ /\ kept], rec, n)
  <2>1. FinalizationOK(f, rec, p)
    BY DEF MountedOK
  <2> DEFINE q == [f EXCEPT !.mounted = @ /\ kept]
  <2>2. q = [n |-> f.n, request |-> f.request, relied |-> f.relied,
             mounted |-> f.mounted /\ kept, state |-> f.state, answer |-> f.answer]
    BY <2>1 DEF FinalizationOK
  <2> HIDE DEF q
  <2>3. /\ q = [n |-> q.n, request |-> q.request, relied |-> q.relied, mounted |-> q.mounted,
                state |-> q.state, answer |-> q.answer]
        /\ q.request = f.request /\ q.relied = f.relied /\ q.state = f.state /\ q.answer = f.answer
        /\ q.mounted = (f.mounted /\ kept)
    BY <2>2
  <2>4. q.mounted => n.request = q.request
    BY <1>4, <2>1, <2>3 DEF FinalizationOK
  <2>5. FinalizationOK(q, rec, n)
    BY <2>1, <2>3, <2>4 DEF FinalizationOK
  <2>6. QED
    BY <2>5 DEF q
<1>7. QED
  BY <1>3, <1>5, <1>6 DEF MountedOK, Followed, n, kept

LEMMA RenderKeepsMounted ==
    ASSUME activeTab' \in Tabs, ServedOK(record', queue', loads'),
           NEW p, NEW ss, NEW fs, MountedOK(record', p, ss, fs), Render(p, ss, fs)
    PROVE  MountedOK(record', panel', saves', finalizations')
<1> DEFINE shown == SelectedRequest(activeTab', queue', selected', loading', failed')
           list == queue'[activeTab']
<1>1. ListOK(list, record')
  BY DEF ServedOK
<1>2. shown = None \/ shown \in Ids(list)
  BY ShownIsListed
<1>3. /\ panel' = Rendered(p, shown, list)
      /\ saves' = Followed(ss, p.request = shown)
      /\ finalizations' = Followed(fs, p.request = shown)
  BY DEF Render
<1> HIDE DEF shown, list
<1>4. QED
  BY <1>1, <1>2, <1>3, RenderedOK

\* A change of the panel that keeps its request.
LEMMA PanelChangeKeepsMounted ==
    ASSUME NEW rec, NEW p, NEW ss, NEW fs, MountedOK(rec, p, ss, fs),
           NEW q, PanelOK(q, rec), q.request = p.request,
           NEW ss2 \in SUBSET ss, NEW fs2 \in SUBSET fs
    PROVE  MountedOK(rec, q, ss2, fs2)
BY DEF MountedOK, SaveOK, FinalizationOK

LEMMA NoPanelIsNone == NoPanel \notin Panel
<1>1. NoPanel.request = None /\ None \notin Requests
  BY DeskAssumption DEF NoPanel
<1>2. QED
  BY <1>1 DEF Panel

LEMMA PanelParts ==
    ASSUME NEW p \in Panel
    PROVE  /\ p.request \in Requests /\ p.form \in Figures \union {Blank} /\ p.relied \in Reliance
           /\ p.saving \in BOOLEAN /\ p.finalizing \in BOOLEAN /\ p.dialog \in BOOLEAN
BY DEF Panel

LEMMA PanelFormChanges ==
    ASSUME NEW p \in Panel, NEW form \in Figures \union {Blank}
    PROVE  /\ [p EXCEPT !.form = form] \in Panel
           /\ [p EXCEPT !.form = form].request = p.request
           /\ [p EXCEPT !.form = form].dialog = p.dialog
           /\ [p EXCEPT !.form = form].relied = p.relied
BY DEF Panel

LEMMA PanelFieldChanges ==
    ASSUME NEW p \in Panel, NEW b \in BOOLEAN
    PROVE  /\ [p EXCEPT !.saving = b] \in Panel
           /\ [p EXCEPT !.saving = b].request = p.request
           /\ [p EXCEPT !.saving = b].dialog = p.dialog
           /\ [p EXCEPT !.saving = b].relied = p.relied
           /\ [p EXCEPT !.finalizing = b] \in Panel
           /\ [p EXCEPT !.finalizing = b].request = p.request
           /\ [p EXCEPT !.finalizing = b].dialog = p.dialog
           /\ [p EXCEPT !.finalizing = b].relied = p.relied
           /\ [p EXCEPT !.dialog = b] \in Panel
           /\ [p EXCEPT !.dialog = b].request = p.request
           /\ [p EXCEPT !.dialog = b].dialog = b
           /\ [p EXCEPT !.dialog = b].relied = p.relied
BY DEF Panel

(***************************************************************************)
(* The lists                                                               *)
(***************************************************************************)

LEMMA StartLoadsStep ==
    ASSUME Inv, NEW ts \in SUBSET Tabs, StartLoads(ts), activeTab' \in Tabs
    PROVE  Inv'
<1>1. record' = record /\ queue' = queue /\ selected' = selected
  BY DEF StartLoads
<1>2. ASSUME NEW t \in ts
      PROVE  LoadOK([n |-> FreeNumber(loads), tab |-> t, state |-> "sent", answer |-> EmptyList], record)
  BY NoCopyOfNothing DEF LoadOK, ListOK
<1>3. ServedOK(record', queue', loads')
  BY <1>1, <1>2 DEF Inv, ServedOK, StartLoads
<1>4. MountedOK(record', panel, saves, finalizations) /\ Render(panel, saves, finalizations)
  BY <1>1 DEF Inv, StartLoads
<1>5. MountedOK(record', panel', saves', finalizations')
  BY <1>3, <1>4, RenderKeepsMounted
<1>6. QED
  BY <1>1, <1>3, <1>5 DEF Inv

LEMMA AnswerLoadStep ==
    ASSUME Inv, NEW l \in loads, AnswerLoad(l)
    PROVE  Inv'
<1>1. /\ UNCHANGED <<record, activeTab, tabVars, panel, saves, finalizations>>
      /\ loads' = (loads \ {l}) \union {[l EXCEPT !.state = "answered", !.answer = Listed(l.tab)]}
  BY DEF AnswerLoad
<1>2. ListOK(Listed(l.tab), record)
  <2>1. Listed(l.tab) \in List
    BY DEF Inv, ServedOK, Listed, List
  <2>2. ASSUME NEW r \in Ids(Listed(l.tab)) PROVE Copy(Listed(l.tab)[r], record[r])
    <3>1. r \in Requests /\ Listed(l.tab)[r] = record[r] /\ record[r] \in Item
      BY DEF Ids, Listed, Inv, ServedOK
    <3>2. QED
      BY <3>1, CopyOfItself
  <2>3. QED
    BY <2>1, <2>2 DEF ListOK
<1> DEFINE m == [l EXCEPT !.state = "answered", !.answer = Listed(l.tab)]
<1>3. /\ LoadOK(l, record)
      /\ l = [n |-> l.n, tab |-> l.tab, state |-> l.state, answer |-> l.answer]
  BY DEF Inv, ServedOK, LoadOK
<1>4. m = [n |-> l.n, tab |-> l.tab, state |-> "answered", answer |-> Listed(l.tab)]
  <2> DEFINE a == Listed(l.tab)
  <2> HIDE DEF a
  <2> DEFINE i == [l EXCEPT !.state = "answered"]
  <2>1. i = [n |-> l.n, tab |-> l.tab, state |-> "answered", answer |-> l.answer]
    BY <1>3
  <2>2. m = [i EXCEPT !.answer = a]
    BY DEF a
  <2> HIDE DEF i
  <2>3. [i EXCEPT !.answer = a] = [n |-> l.n, tab |-> l.tab, state |-> "answered", answer |-> a]
    BY <2>1
  <2>4. QED
    BY <2>2, <2>3 DEF a
<1> HIDE DEF m
<1>5. LoadOK(m, record)
  BY <1>2, <1>3, <1>4 DEF LoadOK
<1>6. ServedOK(record', queue', loads')
  BY <1>1, <1>5 DEF Inv, ServedOK, tabVars, m
<1>7. QED
  BY <1>1, <1>6 DEF Inv, tabVars

LEMMA LoadEndsStep ==
    ASSUME Inv, NEW l \in loads, LoadEnds(l), ServedOK(record', queue', loads'),
           SelectionOK(queue', selected')
    PROVE  Inv'
<1>1. record' = record /\ activeTab' = activeTab /\ Render(panel, saves, finalizations)
  BY DEF LoadEnds
<1>2. MountedOK(record', panel', saves', finalizations')
  BY <1>1, RenderKeepsMounted DEF Inv
<1>3. QED
  BY <1>1, <1>2 DEF Inv

LEMMA EndLoadStep ==
    ASSUME Inv, NEW l \in loads, EndLoad(l)
    PROVE  Inv'
<1>1. /\ queue' = [queue EXCEPT ![l.tab] = l.answer] /\ LoadEnds(l)
      /\ \E r \in Selections(selected[l.tab], l.answer) :
           selected' = [selected EXCEPT ![l.tab] = r]
  BY DEF EndLoad
<1>2. LoadOK(l, record) /\ l.tab \in Tabs /\ ListOK(l.answer, record) /\ l.answer \in List
  BY DEF Inv, ServedOK, LoadOK, ListOK
<1>3. ServedOK(record', queue', loads')
  BY <1>1, <1>2 DEF Inv, ServedOK, LoadEnds
<1>4. SelectionOK(queue', selected')
  BY <1>1, <1>2 DEF Inv, ServedOK, SelectionOK, Selections
<1>5. QED
  BY <1>1, <1>3, <1>4, LoadEndsStep

LEMMA FailLoadStep ==
    ASSUME Inv, NEW l \in loads, FailLoad(l)
    PROVE  Inv'
<1>1. LoadEnds(l) /\ ServedOK(record', queue', loads') /\ SelectionOK(queue', selected')
  BY DEF FailLoad, LoadEnds, Inv, ServedOK
<1>2. QED
  BY <1>1, LoadEndsStep

LEMMA SelectRowStep ==
    ASSUME Inv, NEW r \in Requests, SelectRow(r)
    PROVE  Inv'
<1>1. /\ record' = record /\ activeTab' = activeTab /\ queue' = queue /\ loads' = loads
      /\ r \in Ids(queue[activeTab]) /\ selected' = [selected EXCEPT ![activeTab] = r]
      /\ Render(panel, saves, finalizations)
  BY DEF SelectRow
<1>2. SelectionOK(queue', selected')
  BY <1>1 DEF Inv, SelectionOK
<1>3. MountedOK(record', panel', saves', finalizations')
  BY <1>1, RenderKeepsMounted DEF Inv
<1>4. QED
  BY <1>1, <1>2, <1>3 DEF Inv

(***************************************************************************)
(* The panel                                                               *)
(***************************************************************************)

\* The parts of Inv that a step of the panel leaves alone.
LEMMA PanelStepKeeps ==
    ASSUME Inv, PanelChanges, MountedOK(record, panel', saves', finalizations')
    PROVE  Inv'
BY DEF Inv, PanelChanges, tabVars

LEMMA PanelIsThere ==
    ASSUME Inv, panel # NoPanel
    PROVE  panel \in Panel /\ (panel.dialog => ReliedOK(panel.relied, record[panel.request]))
BY DEF Inv, MountedOK, PanelOK

\* What payroll may save or finalize is a listed item, as old as it says.
LEMMA ReadyItem ==
    ASSUME Inv, Ready
    PROVE  /\ panel \in Panel /\ ShownItem \in Item
           /\ Copy(ShownItem, record[panel.request])
<1>1. panel \in Panel /\ panel.request \in Requests
  BY PanelIsThere, PanelParts DEF Ready
<1>2. ListOK(queue[activeTab], record) /\ ShownItem = queue[activeTab][panel.request]
  BY DEF Inv, ServedOK, ShownItem
<1>3. ShownItem.stage = "salary-finalization" /\ Absent.stage = "none"
  BY DEF Ready, Savable, Absent
<1>4. panel.request \in Ids(queue[activeTab])
  BY <1>1, <1>2, <1>3 DEF Ids
<1>5. QED
  BY <1>1, <1>2, <1>4, ListedItem DEF ListOK

LEMMA EditStep ==
    ASSUME Inv, NEW form \in Figures \union {Blank}, Edit(form)
    PROVE  Inv'
<1>1. /\ panel \in Panel /\ PanelChanges /\ panel' = [panel EXCEPT !.form = form]
      /\ saves' = saves /\ finalizations' = finalizations
      /\ (panel.dialog => ReliedOK(panel.relied, record[panel.request]))
  BY PanelIsThere DEF Edit, Ready
<1>2. /\ panel' \in Panel /\ panel'.request = panel.request
      /\ panel'.dialog = panel.dialog /\ panel'.relied = panel.relied
  BY <1>1, PanelFormChanges
<1>3. PanelOK(panel', record)
  BY <1>1, <1>2 DEF PanelOK
<1>4. MountedOK(record, panel', saves', finalizations')
  BY <1>1, <1>2, <1>3, PanelChangeKeepsMounted DEF Inv
<1>5. QED
  BY <1>1, <1>4, PanelStepKeeps

LEMMA SendSaveKeepsMounted ==
    ASSUME Inv, panel \in Panel, panel.form # Blank, NEW opens, SendSave(opens),
           finalizations' = finalizations
    PROVE  MountedOK(record, panel', saves', finalizations')
<1> DEFINE new == [n |-> FreeNumber(saves), request |-> panel.request, input |-> panel.form,
                   opens |-> opens, mounted |-> TRUE, state |-> "sent", answer |-> Absent]
<1>1. saves' = saves \union {new} /\ panel' = [panel EXCEPT !.saving = TRUE]
  BY DEF SendSave
<1>2. /\ panel' \in Panel /\ panel'.request = panel.request
      /\ panel'.dialog = panel.dialog /\ panel'.relied = panel.relied
  BY <1>1, PanelFieldChanges
<1>3. panel.request \in Requests /\ panel.form \in Figures
  BY PanelParts
<1>4. SaveOK(new, record, panel')
  BY <1>2, <1>3 DEF SaveOK
<1>5. PanelOK(panel', record)
  <2>1. panel.dialog => ReliedOK(panel.relied, record[panel.request])
    BY PanelIsThere, NoPanelIsNone
  <2>2. QED
    BY <1>2, <2>1 DEF PanelOK
<1>6. MountedOK(record, panel', saves, finalizations')
  BY <1>2, <1>5, PanelChangeKeepsMounted DEF Inv
<1>7. QED
  BY <1>1, <1>4, <1>6 DEF MountedOK

LEMMA SaveAdjustmentsStep ==
    ASSUME Inv, SaveAdjustments
    PROVE  Inv'
<1>1. panel \in Panel /\ panel.form # Blank /\ SendSave(FALSE) /\ finalizations' = finalizations
      /\ PanelChanges
  BY ReadyItem DEF SaveAdjustments
<1>2. MountedOK(record, panel', saves', finalizations')
  BY <1>1, SendSaveKeepsMounted
<1>3. QED
  BY <1>1, <1>2, PanelStepKeeps

\* The dialog opens on figures that are, or were, the stored ones.
LEMMA DialogOpenedKeepsMounted ==
    ASSUME NEW rec, NEW p \in Panel, NEW ss, NEW fs, MountedOK(rec, p, ss, fs),
           NEW figures, NEW updatedAt,
           ReliedOK([figures |-> figures, updatedAt |-> updatedAt], rec[p.request]),
           NEW ss2 \in SUBSET ss
    PROVE  MountedOK(rec, DialogOpened(p, figures, updatedAt), ss2, fs)
<1> DEFINE i == [p EXCEPT !.dialog = TRUE]
           x == [figures |-> figures, updatedAt |-> updatedAt]
           q == DialogOpened(p, figures, updatedAt)
<1>1. i \in Panel /\ i.request = p.request /\ i.dialog
  BY PanelFieldChanges
<1>2. q = [i EXCEPT !.relied = x]
  BY DEF DialogOpened
<1>3. x \in Reliance
  BY DEF ReliedOK
<1> HIDE DEF i, x, q
<1>4. q \in Panel /\ q.request = p.request /\ q.relied = x
  BY <1>1, <1>2, <1>3 DEF Panel
<1>5. PanelOK(q, rec)
  BY <1>4 DEF PanelOK, x
<1>6. MountedOK(rec, q, ss2, fs)
  BY <1>4, <1>5, PanelChangeKeepsMounted
<1>7. QED
  BY <1>6 DEF q

LEMMA RequestFinalizationStep ==
    ASSUME Inv, RequestFinalization
    PROVE  Inv'
<1>1. Ready /\ panel.form # Blank /\ PanelChanges /\ finalizations' = finalizations
  BY DEF RequestFinalization
<1>2. panel \in Panel /\ ShownItem \in Item /\ Copy(ShownItem, record[panel.request])
  BY <1>1, ReadyItem
<1>3. CASE Dirty /\ SendSave(TRUE)
  BY <1>1, <1>2, <1>3, SendSaveKeepsMounted, PanelStepKeeps
<1>4. CASE /\ ~Dirty /\ saves' = saves
           /\ panel' = DialogOpened(panel, panel.form, ShownItem.updatedAt)
  <2> DEFINE x == [figures |-> panel.form, updatedAt |-> ShownItem.updatedAt]
  <2>1. panel.form = ShownItem.figures /\ ShownItem.updatedAt \in Nat /\ ShownItem.figures \in Figures
    BY <1>2, <1>4 DEF Dirty, Item
  <2>2. ReliedOK(x, record[panel.request])
    BY <1>2, <2>1 DEF ReliedOK, Reliance, Copy
  <2>3. MountedOK(record, panel', saves', finalizations')
    BY <1>1, <1>2, <1>4, <2>2, DialogOpenedKeepsMounted DEF Inv
  <2>4. QED
    BY <1>1, <2>3, PanelStepKeeps
<1>5. QED
  BY <1>3, <1>4 DEF RequestFinalization

LEMMA CancelDialogStep ==
    ASSUME Inv, CancelDialog
    PROVE  Inv'
<1>1. /\ panel \in Panel /\ PanelChanges /\ panel' = [panel EXCEPT !.dialog = FALSE]
      /\ saves' = saves /\ finalizations' = finalizations
  BY PanelIsThere DEF CancelDialog
<1>2. panel' \in Panel /\ panel'.request = panel.request /\ ~panel'.dialog
  BY <1>1, PanelFieldChanges
<1>3. MountedOK(record, panel', saves', finalizations')
  BY <1>1, <1>2, PanelChangeKeepsMounted DEF Inv, PanelOK
<1>4. QED
  BY <1>1, <1>3, PanelStepKeeps

LEMMA ConfirmFinalizationStep ==
    ASSUME Inv, ConfirmFinalization
    PROVE  Inv'
<1> DEFINE new == [n |-> FreeNumber(finalizations), request |-> panel.request,
                   relied |-> panel.relied, mounted |-> TRUE, state |-> "sent", answer |-> Absent]
<1>1. /\ panel \in Panel /\ PanelChanges /\ panel' = [panel EXCEPT !.finalizing = TRUE]
      /\ saves' = saves /\ finalizations' = finalizations \union {new}
      /\ panel.dialog /\ ReliedOK(panel.relied, record[panel.request])
  BY PanelIsThere DEF ConfirmFinalization
<1>2. /\ panel' \in Panel /\ panel'.request = panel.request
      /\ panel'.dialog = panel.dialog /\ panel'.relied = panel.relied
  BY <1>1, PanelFieldChanges
<1>3. PanelOK(panel', record)
  BY <1>1, <1>2 DEF PanelOK
<1>4. FinalizationOK(new, record, panel')
  BY <1>1, <1>2, PanelParts DEF FinalizationOK
<1>5. MountedOK(record, panel', saves', finalizations)
  BY <1>1, <1>2, <1>3, PanelChangeKeepsMounted DEF Inv
<1>6. MountedOK(record, panel', saves', finalizations')
  BY <1>1, <1>4, <1>5 DEF MountedOK
<1>7. QED
  BY <1>1, <1>6, PanelStepKeeps

(***************************************************************************)
(* The server and its answers                                              *)
(***************************************************************************)

LEMMA ElsewhereStep ==
    ASSUME Inv, NEW r \in Requests, Elsewhere(r)
    PROVE  Inv'
<1>1. UNCHANGED <<activeTab, tabVars, panel, callVars>> /\ record[r] \in Item
  BY DEF Elsewhere, Inv, ServedOK
<1>2. PICK new \in Item : /\ record' = [record EXCEPT ![r] = new]
                          /\ new.updatedAt = record[r].updatedAt + 1
  <2> DEFINE good(new) == new \in Item /\ new.updatedAt = record[r].updatedAt + 1
  <2>1. /\ good(PassedOn(record[r])) /\ good(Finalized(record[r]))
        /\ \A g \in Figures : good(Saved(record[r], g))
    BY <1>1, WritesRaiseUpdatedAt
  <2>2. \/ record' = [record EXCEPT ![r] = PassedOn(record[r])]
        \/ \E g \in Figures : record' = [record EXCEPT ![r] = Saved(record[r], g)]
        \/ record' = [record EXCEPT ![r] = Finalized(record[r])]
    BY DEF Elsewhere
  <2>3. QED
    BY <2>1, <2>2
<1>3. ServedOK(record', queue, loads)
  BY <1>2, WriteKeepsLists DEF Inv
<1>4. MountedOK(record', panel, saves, finalizations)
  BY <1>2, WriteKeepsMounted DEF Inv, ServedOK
<1>5. QED
  BY <1>1, <1>3, <1>4 DEF Inv, tabVars, callVars

LEMMA AnswerSaveStep ==
    ASSUME Inv, NEW s \in saves, AnswerSave(s)
    PROVE  Inv'
<1> DEFINE new == Saved(record[s.request], s.input)
           m == Answered(s, new)
<1>1. /\ SaveOK(s, record, panel) /\ s.request \in Requests /\ s.input \in Figures
      /\ record \in [Requests -> Item] /\ record[s.request] \in Item
  BY DEF Inv, ServedOK, MountedOK, SaveOK
<1>2. /\ new \in Item /\ new.updatedAt = record[s.request].updatedAt + 1 /\ new.figures = s.input
  BY <1>1, WritesRaiseUpdatedAt
<1>3. /\ record' = [record EXCEPT ![s.request] = new] /\ record'[s.request] = new
      /\ saves' = (saves \ {s}) \union {m}
      /\ CallChanges /\ finalizations' = finalizations
  BY <1>1 DEF AnswerSave
<1> HIDE DEF new
<1>4. ServedOK(record', queue, loads) /\ MountedOK(record', panel, saves, finalizations)
  BY <1>1, <1>2, <1>3, WriteKeepsLists, WriteKeepsMounted DEF Inv
<1>5. /\ s = [n |-> s.n, request |-> s.request, input |-> s.input, opens |-> s.opens,
              mounted |-> s.mounted, state |-> s.state, answer |-> s.answer]
      /\ s.mounted => panel.request = s.request
  BY <1>1 DEF SaveOK
<1>6. m = [n |-> s.n, request |-> s.request, input |-> s.input, opens |-> s.opens,
           mounted |-> s.mounted, state |-> "answered", answer |-> new]
  <2> DEFINE i == [s EXCEPT !.state = "answered"]
  <2>1. i = [n |-> s.n, request |-> s.request, input |-> s.input, opens |-> s.opens,
             mounted |-> s.mounted, state |-> "answered", answer |-> s.answer]
    BY ONLY <1>5
  <2>2. m = [i EXCEPT !.answer = new]
    BY DEF Answered
  <2> HIDE DEF i
  <2>3. QED
    BY ONLY <2>1, <2>2
<1> HIDE DEF m
<1>7. SaveOK(m, record', panel)
  BY <1>1, <1>2, <1>3, <1>5, <1>6, CopyOfItself DEF SaveOK
<1>8. MountedOK(record', panel, saves', finalizations)
  BY <1>3, <1>4, <1>7 DEF MountedOK
<1>9. QED
  BY <1>3, <1>4, <1>8 DEF Inv, CallChanges, tabVars

LEMMA AnswerFinalizationStep ==
    ASSUME Inv, NEW f \in finalizations, AnswerFinalization(f)
    PROVE  Inv'
<1> DEFINE new == Finalized(record[f.request])
           m == Answered(f, new)
<1>1. /\ FinalizationOK(f, record, panel) /\ f.request \in Requests
      /\ record \in [Requests -> Item] /\ record[f.request] \in Item
  BY DEF Inv, ServedOK, MountedOK, FinalizationOK
<1>2. /\ new \in Item /\ new.updatedAt = record[f.request].updatedAt + 1
      /\ new.figures = record[f.request].figures
  BY <1>1, WritesRaiseUpdatedAt
<1>3. /\ record' = [record EXCEPT ![f.request] = new] /\ record'[f.request] = new
      /\ finalizations' = (finalizations \ {f}) \union {m}
      /\ CallChanges /\ saves' = saves
  BY <1>1 DEF AnswerFinalization
<1> HIDE DEF new
<1>4. ServedOK(record', queue, loads) /\ MountedOK(record', panel, saves, finalizations)
  BY <1>1, <1>2, <1>3, WriteKeepsLists, WriteKeepsMounted DEF Inv
<1>5. /\ f = [n |-> f.n, request |-> f.request, relied |-> f.relied, mounted |-> f.mounted,
              state |-> f.state, answer |-> f.answer]
      /\ f.mounted => panel.request = f.request
      /\ ReliedOK(f.relied, record[f.request])
  BY <1>1 DEF FinalizationOK
<1>6. m = [n |-> f.n, request |-> f.request, relied |-> f.relied, mounted |-> f.mounted,
           state |-> "answered", answer |-> new]
  <2> DEFINE i == [f EXCEPT !.state = "answered"]
  <2>1. i = [n |-> f.n, request |-> f.request, relied |-> f.relied, mounted |-> f.mounted,
             state |-> "answered", answer |-> f.answer]
    BY ONLY <1>5
  <2>2. m = [i EXCEPT !.answer = new]
    BY DEF Answered
  <2> HIDE DEF i
  <2>3. QED
    BY ONLY <2>1, <2>2
<1> HIDE DEF m
<1>7. /\ ReliedOK(f.relied, new)
      /\ new.updatedAt = f.relied.updatedAt + 1 => new.figures = f.relied.figures
  <2>1. f.relied.updatedAt \in Nat /\ record[f.request].updatedAt \in Nat
    BY <1>1, <1>5 DEF ReliedOK, Reliance, Item
  <2>2. QED
    BY <1>2, <1>5, <2>1 DEF ReliedOK
<1>8. FinalizationOK(m, record', panel)
  BY <1>1, <1>2, <1>3, <1>5, <1>6, <1>7, CopyOfItself DEF FinalizationOK
<1>9. MountedOK(record', panel, saves, finalizations')
  BY <1>3, <1>4, <1>8 DEF MountedOK
<1>10. QED
  BY <1>3, <1>4, <1>9 DEF Inv, CallChanges, tabVars

\* An answered item in place of a listed one.
LEMMA ReplacedOK ==
    ASSUME NEW rec, NEW list, ListOK(list, rec), NEW r \in Requests,
           NEW item \in Item, Copy(item, rec[r])
    PROVE  /\ ListOK(Replaced(list, r, item), rec)
           /\ Ids(Replaced(list, r, item)) = Ids(list)
           /\ ListOK([list EXCEPT ![r] = item], rec) /\ r \in Ids([list EXCEPT ![r] = item])
           /\ ListOK([list EXCEPT ![r] = Absent], rec)
<1>1. list \in [Requests -> Item \union {Absent}] /\ item # Absent
  BY NoCopyOfNothing DEF ListOK, List
<1>2. /\ ListOK([list EXCEPT ![r] = item], rec) /\ r \in Ids([list EXCEPT ![r] = item])
      /\ ListOK([list EXCEPT ![r] = Absent], rec)
  BY <1>1 DEF ListOK, List, Ids
<1>3. r \in Ids(list) => Ids([list EXCEPT ![r] = item]) = Ids(list)
  BY <1>1 DEF Ids
<1>4. QED
  BY <1>2, <1>3 DEF Replaced

LEMMA AfterSaveOK ==
    ASSUME Inv, NEW s \in saves, s.state = "answered"
    PROVE  MountedOK(record, AfterSave(panel, s), saves \ {s}, finalizations)
<1>1. /\ s.request \in Requests
      /\ s.mounted => panel.request = s.request
      /\ s.answer \in Item /\ Copy(s.answer, record[s.request]) /\ s.answer.figures = s.input
      /\ s.input \in Figures
  BY DEF Inv, MountedOK, SaveOK
<1> DEFINE idle == [panel EXCEPT !.saving = FALSE]
           rest == saves \ {s}
<1>2. rest \in SUBSET saves /\ MountedOK(record, panel, saves, finalizations)
  BY DEF Inv
<1> HIDE DEF rest
<1>3. CASE ~s.mounted
  <2>1. MountedOK(record, panel, rest, finalizations)
    BY <1>2 DEF MountedOK
  <2>2. QED
    BY <1>3, <2>1 DEF AfterSave, rest
<1>4. CASE s.mounted
  <2>1. panel \in Panel /\ (panel.dialog => ReliedOK(panel.relied, record[panel.request]))
    <3>1. panel # NoPanel
      BY <1>1, <1>4, DeskAssumption DEF NoPanel
    <3>2. QED
      BY <3>1, PanelIsThere
  <2>2. idle \in Panel /\ idle.request = panel.request /\ idle.dialog = panel.dialog
        /\ idle.relied = panel.relied
    BY <2>1, PanelFieldChanges
  <2> HIDE DEF idle
  <2>3. PanelOK(idle, record)
    BY <2>1, <2>2 DEF PanelOK
  <2>4. MountedOK(record, idle, rest, finalizations)
    BY <1>2, <2>2, <2>3, PanelChangeKeepsMounted
  <2> DEFINE x == [figures |-> s.input, updatedAt |-> s.answer.updatedAt]
  <2>5. ReliedOK(x, record[idle.request])
    BY <1>1, <1>4, <2>2 DEF ReliedOK, Reliance, Copy, Item
  <2>6. MountedOK(record, DialogOpened(idle, s.input, s.answer.updatedAt), rest, finalizations)
    BY <2>2, <2>4, <2>5, DialogOpenedKeepsMounted
  <2>7. QED
    BY <1>4, <2>4, <2>6 DEF AfterSave, idle, rest
<1>5. QED
  BY <1>3, <1>4

LEMMA EndSaveStep ==
    ASSUME Inv, NEW s \in saves, EndSave(s)
    PROVE  Inv'
<1>1. /\ s.request \in Requests /\ s.answer \in Item /\ Copy(s.answer, record[s.request])
      /\ s.state = "answered"
  BY DEF EndSave, Inv, MountedOK, SaveOK
<1>2. /\ SaveEnds
      /\ queue' = [t \in Tabs |-> Replaced(queue[t], s.request, s.answer)]
      /\ Render(AfterSave(panel, s), saves \ {s}, finalizations)
  BY DEF EndSave
<1>3. /\ record' = record /\ loads' = loads /\ selected' = selected /\ activeTab' = activeTab
  BY <1>2 DEF SaveEnds
<1>4. \A t \in Tabs : /\ ListOK(queue'[t], record) /\ Ids(queue'[t]) = Ids(queue[t])
                      /\ queue'[t] \in List
  <2>1. \A t \in Tabs : ListOK(queue[t], record) /\ queue'[t] = Replaced(queue[t], s.request, s.answer)
    BY <1>2 DEF Inv, ServedOK
  <2>2. ASSUME NEW t \in Tabs
        PROVE  ListOK(queue'[t], record) /\ Ids(queue'[t]) = Ids(queue[t])
    <3> DEFINE list == queue[t]
    <3>1. ListOK(list, record) /\ queue'[t] = Replaced(list, s.request, s.answer)
      BY <2>1
    <3> HIDE DEF list
    <3>2. /\ ListOK(Replaced(list, s.request, s.answer), record)
          /\ Ids(Replaced(list, s.request, s.answer)) = Ids(list)
      BY <1>1, <3>1, ReplacedOK
    <3>3. QED
      BY <3>1, <3>2 DEF list
  <2>3. QED
    BY <2>2 DEF ListOK
<1>5. ServedOK(record', queue', loads')
  BY <1>2, <1>3, <1>4 DEF Inv, ServedOK
<1>6. SelectionOK(queue', selected')
  BY <1>3, <1>4 DEF Inv, SelectionOK
<1>7. MountedOK(record', AfterSave(panel, s), saves \ {s}, finalizations)
  BY <1>1, <1>3, AfterSaveOK
<1>8. activeTab' \in Tabs
  BY <1>3 DEF Inv
<1>9. MountedOK(record', panel', saves', finalizations')
  BY <1>2, <1>5, <1>7, <1>8, RenderKeepsMounted
<1>10. QED
  BY <1>5, <1>6, <1>8, <1>9 DEF Inv

LEMMA FailSaveStep ==
    ASSUME Inv, NEW s \in saves, FailSave(s)
    PROVE  Inv'
<1> DEFINE p == AfterFailedSave(panel, s)
           idle == [panel EXCEPT !.saving = FALSE]
           rest == saves \ {s}
<1>1. /\ record' = record /\ loads' = loads /\ selected' = selected /\ activeTab' = activeTab
      /\ queue' = queue /\ Render(p, rest, finalizations)
  BY DEF FailSave, SaveEnds
<1>2. MountedOK(record, panel, saves, finalizations) /\ rest \in SUBSET saves
  BY DEF Inv
<1>3. SaveOK(s, record, panel)
  BY <1>2 DEF MountedOK
<1>4. p.request = panel.request /\ PanelOK(p, record)
  <2>1. CASE ~s.mounted
    BY <1>2, <2>1 DEF AfterFailedSave, MountedOK
  <2>2. CASE s.mounted
    <3>1. panel # NoPanel
      BY <1>3, <2>2, DeskAssumption DEF SaveOK, NoPanel
    <3>2. panel \in Panel /\ (panel.dialog => ReliedOK(panel.relied, record[panel.request]))
      BY <3>1, PanelIsThere
    <3>3. /\ idle \in Panel /\ idle.request = panel.request /\ idle.dialog = panel.dialog
          /\ idle.relied = panel.relied
      BY <3>2, PanelFieldChanges
    <3> HIDE DEF idle
    <3>4. PanelOK(idle, record)
      BY <3>2, <3>3 DEF PanelOK
    <3>5. QED
      BY <2>2, <3>3, <3>4 DEF AfterFailedSave, idle
  <2>3. QED
    BY <2>1, <2>2
<1> HIDE DEF p, rest
<1>5. MountedOK(record', p, rest, finalizations)
  BY <1>1, <1>2, <1>4, PanelChangeKeepsMounted
<1>6. ServedOK(record', queue', loads') /\ activeTab' \in Tabs /\ SelectionOK(queue', selected')
  BY <1>1 DEF Inv
<1>7. MountedOK(record', panel', saves', finalizations')
  BY <1>1, <1>5, <1>6, RenderKeepsMounted
<1>8. QED
  BY <1>6, <1>7 DEF Inv

LEMMA FinalizationEndsStep ==
    ASSUME Inv, NEW f \in finalizations, FinalizationEnds(f),
           ServedOK(record', queue', loads'), SelectionOK(queue', selected')
    PROVE  Inv'
<1> DEFINE p == AfterFinalization(panel, f)
           i == [panel EXCEPT !.finalizing = FALSE]
           done == [i EXCEPT !.dialog = FALSE]
           rest == finalizations \ {f}
<1>1. record' = record /\ activeTab' = activeTab /\ Render(p, saves, rest)
  BY DEF FinalizationEnds
<1>2. MountedOK(record, panel, saves, finalizations) /\ rest \in SUBSET finalizations
  BY DEF Inv
<1>3. FinalizationOK(f, record, panel)
  BY <1>2 DEF MountedOK
<1>4. p.request = panel.request /\ PanelOK(p, record)
  <2>1. CASE ~f.mounted
    BY <1>2, <2>1 DEF AfterFinalization, MountedOK
  <2>2. CASE f.mounted
    <3>1. panel # NoPanel
      BY <1>3, <2>2, DeskAssumption DEF FinalizationOK, NoPanel
    <3>2. panel \in Panel
      BY <3>1, PanelIsThere
    <3>3. i \in Panel /\ i.request = panel.request
      BY <3>2, PanelFieldChanges
    <3>4. p = done
      BY <2>2 DEF AfterFinalization
    <3> HIDE DEF i
    <3>5. done \in Panel /\ done.request = i.request /\ ~done.dialog
      BY <3>3, PanelFieldChanges
    <3> HIDE DEF done, p
    <3>6. QED
      BY <3>3, <3>4, <3>5 DEF PanelOK
  <2>3. QED
    BY <2>1, <2>2
<1> HIDE DEF p, rest
<1>5. MountedOK(record', p, saves, rest)
  BY <1>1, <1>2, <1>4, PanelChangeKeepsMounted
<1>6. activeTab' \in Tabs
  BY <1>1 DEF Inv
<1>7. MountedOK(record', panel', saves', finalizations')
  BY <1>1, <1>5, <1>6, RenderKeepsMounted
<1>8. QED
  BY <1>6, <1>7 DEF Inv

LEMMA EndFinalizationStep ==
    ASSUME Inv, NEW f \in finalizations, EndFinalization(f)
    PROVE  Inv'
<1> DEFINE track == Replaced(queue["track"], f.request, f.answer)
           check == [queue["check-request"] EXCEPT ![f.request] = Absent]
           salary == [queue["salary"] EXCEPT ![f.request] = f.answer]
<1>1. /\ f.request \in Requests /\ f.answer \in Item /\ Copy(f.answer, record[f.request])
  BY DEF EndFinalization, Inv, MountedOK, FinalizationOK
<1>2. /\ queue \in [Tabs -> List] /\ \A t \in Tabs : ListOK(queue[t], record)
      /\ record' = record /\ loads' = loads
  BY DEF Inv, ServedOK, EndFinalization, FinalizationEnds
<1>3. queue' = [queue EXCEPT !["track"] = track, !["check-request"] = check, !["salary"] = salary]
  BY DEF EndFinalization
<1>4. /\ ListOK(track, record) /\ Ids(track) = Ids(queue["track"])
      /\ ListOK(check, record)
      /\ ListOK(salary, record) /\ f.request \in Ids(salary)
  BY <1>1, <1>2, ReplacedOK DEF Tabs
<1> HIDE DEF track, check, salary
<1>5. /\ queue' \in [Tabs -> List]
      /\ queue'["track"] = track /\ queue'["check-request"] = check /\ queue'["salary"] = salary
  BY <1>2, <1>3, <1>4 DEF Tabs, ListOK
<1>6. ServedOK(record', queue', loads')
  BY <1>2, <1>4, <1>5 DEF Inv, ServedOK, Tabs
<1>7. SelectionOK(queue', selected')
  <2>1. PICK next \in Selections(selected["check-request"], check) :
          selected' = [selected EXCEPT !["salary"] = f.request, !["check-request"] = next]
    BY <1>5 DEF EndFinalization
  <2>2. /\ DOMAIN selected' = Tabs /\ selected'["salary"] = f.request
        /\ selected'["check-request"] = next /\ selected'["track"] = selected["track"]
    BY <2>1 DEF Inv, SelectionOK, Tabs
  <2>3. IF Ids(check) = {} THEN next = None ELSE next \in Ids(check)
    BY <2>1 DEF Selections
  <2>4. IF Ids(track) = {} THEN selected["track"] = None ELSE selected["track"] \in Ids(track)
    BY <1>4 DEF Inv, SelectionOK, Tabs
  <2>5. QED
    BY <1>4, <1>5, <2>2, <2>3, <2>4 DEF SelectionOK, Tabs
<1>8. FinalizationEnds(f)
  BY DEF EndFinalization
<1>9. QED
  BY <1>6, <1>7, <1>8, FinalizationEndsStep

LEMMA FailFinalizationStep ==
    ASSUME Inv, NEW f \in finalizations, FailFinalization(f)
    PROVE  Inv'
<1>1. /\ FinalizationEnds(f) /\ ServedOK(record', queue', loads') /\ SelectionOK(queue', selected')
  BY DEF FailFinalization, FinalizationEnds, Inv
<1>2. QED
  BY <1>1, FinalizationEndsStep

(***************************************************************************)
(* The theorems                                                            *)
(***************************************************************************)

LEMMA InitInv == Init => Inv
<1> SUFFICES ASSUME Init PROVE Inv
  OBVIOUS
<1>1. record \in [Requests -> Item]
  <2> DEFINE new(st, v, claimed) == [stage |-> st, verified |-> v, figures |-> claimed, updatedAt |-> 0]
             initial == {new(st, FALSE, claimed) : st \in {"earlier", "salary-finalization"},
                                                   claimed \in Figures}
  <2>1. record \in [Requests -> initial]
    BY DEF Init
  <2>2. \A v \in BOOLEAN : \A st \in {"earlier", "salary-finalization"} : \A claimed \in Figures :
          new(st, v, claimed) \in Item
    BY DEF Item
  <2> HIDE DEF new
  <2>3. initial \subseteq Item
    <3>1. FALSE \in BOOLEAN
      OBVIOUS
    <3>2. \A st \in {"earlier", "salary-finalization"} : \A claimed \in Figures : new(st, FALSE, claimed) \in Item
      BY <2>2, <3>1, Zenon
    <3> DEFINE fresh(st, claimed) == new(st, FALSE, claimed)
    <3>3. initial = {fresh(st, claimed) : st \in {"earlier", "salary-finalization"}, claimed \in Figures}
      OBVIOUS
    <3>4. \A st \in {"earlier", "salary-finalization"} : \A claimed \in Figures : fresh(st, claimed) \in Item
      BY <3>2
    <3> HIDE DEF fresh, initial
    <3>5. QED
      BY <3>3, <3>4
  <2> HIDE DEF initial
  <2>4. QED
    BY <2>1, <2>3
<1>2. ListOK(EmptyList, record)
  BY NoCopyOfNothing DEF ListOK
<1>3. ServedOK(record, queue, loads)
  BY <1>1, <1>2 DEF Init, ServedOK, LoadOK, ListOK, Tabs
<1>4. SelectionOK(queue, selected)
  BY NoCopyOfNothing DEF Init, SelectionOK
<1>5. MountedOK(record, panel, saves, finalizations)
  BY DEF Init, MountedOK, PanelOK
<1>6. QED
  BY <1>3, <1>4, <1>5 DEF Init, Inv, Tabs

LEMMA NextInv == Inv /\ [Next]_vars => Inv'
<1> SUFFICES ASSUME Inv, [Next]_vars PROVE Inv'
  OBVIOUS
<1>1. ASSUME NEW r \in Requests, Elsewhere(r) PROVE Inv'
  BY <1>1, ElsewhereStep
<1>2. CASE PageStep
  <2>1. ASSUME NEW tab \in Tabs, OpenTab(tab) PROVE Inv'
    <3>1. activeTab' = tab /\ StartLoads({tab} \ {"track"})
      BY <2>1 DEF OpenTab
    <3>2. QED
      BY <2>1, <3>1, StartLoadsStep
  <2>2. CASE Reload
    BY <2>2, StartLoadsStep DEF Reload, Inv
  <2>3. CASE SwitchLanguage
    BY <2>3, StartLoadsStep DEF SwitchLanguage, Inv, Tabs
  <2>4. ASSUME NEW r \in Requests, SelectRow(r) PROVE Inv'
    BY <2>4, SelectRowStep
  <2>5. QED
    BY <1>2, <2>1, <2>2, <2>3, <2>4 DEF PageStep
<1>3. CASE PanelStep
  BY <1>3, EditStep, SaveAdjustmentsStep, RequestFinalizationStep, CancelDialogStep,
     ConfirmFinalizationStep DEF PanelStep
<1>4. ASSUME NEW l \in loads, LoadStep(l) PROVE Inv'
  BY <1>4, AnswerLoadStep, EndLoadStep, FailLoadStep DEF LoadStep
<1>5. ASSUME NEW s \in saves, SaveStep(s) PROVE Inv'
  BY <1>5, AnswerSaveStep, EndSaveStep, FailSaveStep DEF SaveStep
<1>6. ASSUME NEW f \in finalizations, FinalizationStep(f) PROVE Inv'
  BY <1>6, AnswerFinalizationStep, EndFinalizationStep, FailFinalizationStep DEF FinalizationStep
<1>7. CASE UNCHANGED vars
  BY <1>7 DEF vars, Inv
<1>8. QED
  BY <1>1, <1>2, <1>3, <1>4, <1>5, <1>6, <1>7 DEF Next

LEMMA InvHolds == Spec => []Inv
BY InitInv, NextInv, PTL DEF Spec

\* Whatever the others do and however the answers overtake one another, what
\* is locked on the state the officer relied on are the figures entered.
THEOREM LockingIsAsEntered == Spec => []LockedAsEntered
<1>1. Inv => LockedAsEntered
  BY DEF Inv, MountedOK, FinalizationOK, LockedAsEntered
<1>2. QED
  BY <1>1, InvHolds, PTL

\* The selection of each tab stays on its list.
THEOREM SelectionsStayOnTheirLists == Spec => []SelectionBelongsToList
<1>1. Inv => SelectionBelongsToList
  BY DEF Inv, SelectionOK, SelectionBelongsToList
<1>2. QED
  BY <1>1, InvHolds, PTL

(***************************************************************************)
(* Calls have numbers                                                      *)
(***************************************************************************)

\* As many calls as are under way leave a number to one more.
LEMMA NumberIsFree ==
    ASSUME NEW calls, IsFiniteSet(calls), NEW m \in Nat, Cardinality(calls) < m
    PROVE  \E n \in 1..m : \A c \in calls : c.n # n
<1> DEFINE numbers == {c.n : c \in calls}
           f == [c \in calls |-> c.n]
<1>1. f \in Surjection(calls, numbers)
  BY DEF Surjection
<1>2. IsFiniteSet(numbers) /\ Cardinality(numbers) <= Cardinality(calls)
  BY <1>1, FS_Surjection
<1>3. Cardinality(numbers) \in Nat /\ Cardinality(calls) \in Nat
  BY <1>2, FS_CardinalityType
<1>4. IsFiniteSet(1..m) /\ Cardinality(1..m) = m
  BY FS_Interval
<1>5. ~ (1..m \subseteq numbers)
  <2>1. 1..m \subseteq numbers => Cardinality(1..m) <= Cardinality(numbers)
    BY <1>2, FS_Subset
  <2>2. QED
    BY <1>2, <1>3, <1>4, <2>1
<1>6. QED
  BY <1>5

\* No more calls are under way than were made.
Few(calls, k) == IsFiniteSet(calls) /\ Cardinality(calls) <= k

LEMMA FewCounted ==
    ASSUME NEW calls, IsFiniteSet(calls)
    PROVE  Cardinality(calls) \in Nat
BY FS_CardinalityType

LEMMA FewRemain ==
    ASSUME NEW k \in Nat, NEW calls, Few(calls, k), NEW rest \in SUBSET calls
    PROVE  Few(rest, k)
<1>1. IsFiniteSet(rest) /\ Cardinality(rest) <= Cardinality(calls)
  BY FS_Subset DEF Few
<1>2. Cardinality(rest) \in Nat /\ Cardinality(calls) \in Nat /\ Cardinality(calls) <= k
  BY <1>1, FewCounted DEF Few
<1>3. QED
  BY <1>1, <1>2 DEF Few

LEMMA FewAndMore ==
    ASSUME NEW k \in Nat, NEW calls, Few(calls, k), NEW j \in Nat, NEW more, Few(more, j)
    PROVE  Few(calls \union more, k + j)
<1>1. /\ IsFiniteSet(calls \union more)
      /\ Cardinality(calls \union more)
           = Cardinality(calls) + Cardinality(more) - Cardinality(calls \intersect more)
  BY FS_Union DEF Few
<1>2. IsFiniteSet(calls \intersect more)
  BY FS_Intersection DEF Few
<1>3. /\ Cardinality(calls \intersect more) \in Nat
      /\ Cardinality(calls) \in Nat /\ Cardinality(calls) <= k
      /\ Cardinality(more) \in Nat /\ Cardinality(more) <= j
  BY <1>2, FewCounted DEF Few
<1>4. QED
  BY <1>1, <1>3 DEF Few

LEMMA OneIsFew ==
    ASSUME NEW c
    PROVE  Few({c}, 1)
<1>1. IsFiniteSet({c}) /\ Cardinality({c}) = 1
  BY FS_Singleton
<1>2. QED
  BY <1>1 DEF Few

\* An answered call takes the place of the call.
LEMMA FewAnswered ==
    ASSUME NEW k \in Nat, NEW calls, Few(calls, k), NEW c \in calls, NEW d
    PROVE  Few((calls \ {c}) \union {d}, k)
<1>1. /\ IsFiniteSet(calls \ {c}) /\ Cardinality(calls \ {c}) = Cardinality(calls) - 1
      /\ IsFiniteSet(calls) /\ Cardinality(calls) <= k
  BY FS_RemoveElement DEF Few
<1>2. /\ IsFiniteSet((calls \ {c}) \union {d})
      /\ \/ Cardinality((calls \ {c}) \union {d}) = Cardinality(calls \ {c})
         \/ Cardinality((calls \ {c}) \union {d}) = Cardinality(calls \ {c}) + 1
  BY <1>1, FS_AddElement
<1>3. Cardinality(calls) \in Nat
  BY <1>1, FewCounted
<1>4. QED
  BY <1>1, <1>2, <1>3 DEF Few

LEMMA FewFollowed ==
    ASSUME NEW k \in Nat, NEW calls, Few(calls, k), NEW kept
    PROVE  Few(Followed(calls, kept), k)
<1> DEFINE T == Followed(calls, kept)
           f == [c \in calls |-> [c EXCEPT !.mounted = @ /\ kept]]
<1>1. f \in Surjection(calls, T)
  BY DEF Surjection, Followed
<1>2. IsFiniteSet(T) /\ Cardinality(T) <= Cardinality(calls)
  BY <1>1, FS_Surjection DEF Few
<1>3. Cardinality(T) \in Nat /\ Cardinality(calls) \in Nat /\ Cardinality(calls) <= k
  BY <1>2, FewCounted DEF Few
<1>4. QED
  BY <1>2, <1>3 DEF Few

LEMMA FreeNumberType ==
    ASSUME NEW calls, NEW k \in Nat, Few(calls, k), k < MaxCalls
    PROVE  FreeNumber(calls) \in Nat
<1>1. Cardinality(calls) < MaxCalls /\ IsFiniteSet(calls)
  BY FewCounted, DeskAssumption DEF Few
<1>2. \E n \in 1..MaxCalls : \A c \in calls : c.n # n
  BY <1>1, NumberIsFree, DeskAssumption
<1>3. FreeNumber(calls) \in 1..MaxCalls
  BY <1>2 DEF FreeNumber
<1>4. QED
  BY <1>3

(***************************************************************************)
(* Types                                                                   *)
(***************************************************************************)

CallsOK(ls, ss, fs, k) ==
    /\ ls \subseteq Load /\ ss \subseteq Save /\ fs \subseteq Finalization
    /\ k \in Nat
    /\ Few(ls, k) /\ Few(ss, k) /\ Few(fs, k)

\* The parts of the type that Inv says nothing of.
PageOK(sel, busy, broken, done) ==
    /\ sel \in [Tabs -> Requests \union {None}]
    /\ busy \in [Tabs -> BOOLEAN] /\ broken \in [Tabs -> BOOLEAN]
    /\ done \in Nat

TypeInv ==
    /\ PageOK(selected, loading, failed, completedThisSession)
    /\ CallsOK(loads, saves, finalizations, sent)

LEMMA FollowedType ==
    ASSUME NEW kept \in BOOLEAN
    PROVE  /\ \A ss \in SUBSET Save : Followed(ss, kept) \subseteq Save
           /\ \A fs \in SUBSET Finalization : Followed(fs, kept) \subseteq Finalization
<1>1. ASSUME NEW s \in Save PROVE [s EXCEPT !.mounted = @ /\ kept] \in Save
  <2>1. (s.mounted /\ kept) \in BOOLEAN
    OBVIOUS
  <2> DEFINE b == s.mounted /\ kept
  <2> HIDE DEF b
  <2>2. b \in BOOLEAN
    BY <2>1 DEF b
  <2>3. [s EXCEPT !.mounted = b] \in Save
    BY <2>2 DEF Save
  <2>4. QED
    BY <2>3 DEF b
<1>2. ASSUME NEW f \in Finalization PROVE [f EXCEPT !.mounted = @ /\ kept] \in Finalization
  <2>1. (f.mounted /\ kept) \in BOOLEAN
    OBVIOUS
  <2> DEFINE b == f.mounted /\ kept
  <2> HIDE DEF b
  <2>2. b \in BOOLEAN
    BY <2>1 DEF b
  <2>3. [f EXCEPT !.mounted = b] \in Finalization
    BY <2>2 DEF Finalization
  <2>4. QED
    BY <2>3 DEF b
<1>3. QED
  BY <1>1, <1>2 DEF Followed

\* A rendering keeps the types of the calls that go on.
LEMMA RenderKeepsCalls ==
    ASSUME NEW p, NEW ls, NEW ss, NEW fs, NEW k, CallsOK(ls, ss, fs, k), Render(p, ss, fs)
    PROVE  CallsOK(ls, saves', finalizations', k)
<1> DEFINE kept == p.request = SelectedRequest(activeTab', queue', selected', loading', failed')
<1>1. saves' = Followed(ss, kept) /\ finalizations' = Followed(fs, kept) /\ kept \in BOOLEAN
  BY DEF Render
<1> HIDE DEF kept
<1>2. saves' \subseteq Save /\ finalizations' \subseteq Finalization
  BY <1>1, FollowedType DEF CallsOK
<1>3. Few(saves', k) /\ Few(finalizations', k)
  BY <1>1, FewFollowed DEF CallsOK
<1>4. QED
  BY <1>2, <1>3 DEF CallsOK

LEMMA CallsRemain ==
    ASSUME NEW ls, NEW ss, NEW fs, NEW k, CallsOK(ls, ss, fs, k),
           NEW ls2 \in SUBSET ls, NEW ss2 \in SUBSET ss, NEW fs2 \in SUBSET fs
    PROVE  CallsOK(ls2, ss2, fs2, k)
BY FewRemain DEF CallsOK

\* One more call was made.
LEMMA CallsAreMade ==
    ASSUME NEW ls, NEW ss, NEW fs, NEW k, CallsOK(ls, ss, fs, k), NEW j \in Nat
    PROVE  /\ \A more \in SUBSET Load : Few(more, j) => CallsOK(ls \union more, ss, fs, k + j)
           /\ \A more \in SUBSET Save : Few(more, j) => CallsOK(ls, ss \union more, fs, k + j)
           /\ \A more \in SUBSET Finalization : Few(more, j) => CallsOK(ls, ss, fs \union more, k + j)
<1>1. k \in Nat /\ k + j \in Nat
  BY DEF CallsOK
<1>2. Few({}, j)
  BY FS_EmptySet DEF Few
<1>3. \A calls, more : Few(calls, k) /\ Few(more, j) => Few(calls \union more, k + j)
  BY <1>1, FewAndMore
<1>4. \A calls : Few(calls, k) => Few(calls, k + j)
  <2>1. \A calls : calls \union {} = calls
    OBVIOUS
  <2>2. QED
    BY <1>2, <1>3, <2>1
<1>5. QED
  BY <1>1, <1>3, <1>4 DEF CallsOK

LEMMA StartLoadsType ==
    ASSUME Inv, TypeInv, NEW ts \in SUBSET Tabs, StartLoads(ts)
    PROVE  TypeInv'
<1> DEFINE new(t) == [n |-> FreeNumber(loads), tab |-> t, state |-> "sent", answer |-> EmptyList]
           more == {new(t) : t \in ts}
           k == Cardinality(ts)
<1>1. /\ MayCall(k) /\ sent' = sent + k /\ loads' = loads \union more
      /\ loading' = [t \in Tabs |-> t \in ts \/ loading[t]]
      /\ failed' = [t \in Tabs |-> t \notin ts /\ failed[t]]
      /\ selected' = selected /\ completedThisSession' = completedThisSession
      /\ Render(panel, saves, finalizations)
  BY DEF StartLoads
<1>2. IsFiniteSet(Tabs)
  <2>1. IsFiniteSet({"track", "check-request"})
    <3>1. IsFiniteSet({"track"}) /\ {"track", "check-request"} = {"track"} \union {"check-request"}
      BY FS_Singleton
    <3>2. QED
      BY <3>1, FS_AddElement
  <2>2. Tabs = {"track", "check-request"} \union {"salary"}
    BY DEF Tabs
  <2>3. QED
    BY <2>1, <2>2, FS_AddElement
<1>3. IsFiniteSet(ts) /\ k \in Nat
  BY <1>2, FS_Subset, FewCounted
<1>4. Few(more, k)
  <2> DEFINE f == [t \in ts |-> new(t)]
  <2>1. f \in Surjection(ts, more)
    BY DEF Surjection
  <2> HIDE DEF more, f
  <2>2. IsFiniteSet(more) /\ Cardinality(more) <= Cardinality(ts)
    BY <1>3, <2>1, FS_Surjection
  <2>3. QED
    BY <2>2 DEF Few
<1>5. more \subseteq Load
  <2>1. CASE ts = {}
    BY <2>1
  <2>2. CASE ts # {}
    <3>1. k # 0
      BY <1>3, <2>2, FS_EmptySet
    <3>2. sent \in Nat /\ sent + k <= MaxCalls /\ Few(loads, sent)
      BY <1>1 DEF MayCall, TypeInv, CallsOK
    <3>3. FreeNumber(loads) \in Nat
      BY <1>3, <3>1, <3>2, FreeNumberType, DeskAssumption
    <3>4. EmptyList \in List
      BY NoCopyOfNothing
    <3>5. QED
      BY <3>3, <3>4 DEF Load, CallState
  <2>3. QED
    BY <2>1, <2>2
<1> HIDE DEF more, k
<1>6. CallsOK(loads', saves, finalizations, sent')
  BY <1>1, <1>3, <1>4, <1>5, CallsAreMade DEF TypeInv
<1>7. CallsOK(loads', saves', finalizations', sent')
  BY <1>1, <1>6, RenderKeepsCalls
<1>8. PageOK(selected', loading', failed', completedThisSession')
  BY <1>1 DEF TypeInv, PageOK
<1>9. QED
  BY <1>7, <1>8 DEF TypeInv

LEMMA AnswerLoadType ==
    ASSUME Inv, TypeInv, NEW l \in loads, AnswerLoad(l)
    PROVE  TypeInv'
<1> DEFINE a == Listed(l.tab)
           m == [l EXCEPT !.state = "answered", !.answer = a]
<1>1. /\ UNCHANGED <<selected, loading, failed, completedThisSession, saves, finalizations, sent>>
      /\ loads' = (loads \ {l}) \union {m}
  BY DEF AnswerLoad, tabVars
<1>2. a \in List
  BY DEF Inv, ServedOK, Listed, List
<1>3. m \in Load
  <2>1. l \in Load
    BY DEF TypeInv, CallsOK
  <2> HIDE DEF a
  <2>2. QED
    BY <1>2, <2>1 DEF Load, CallState
<1> HIDE DEF m
<1>4. Few(loads', sent)
  BY <1>1, FewAnswered DEF TypeInv, CallsOK
<1>5. QED
  BY <1>1, <1>3, <1>4 DEF TypeInv, CallsOK, PageOK

LEMMA LoadEndsType ==
    ASSUME TypeInv, NEW l \in loads, LoadEnds(l),
           selected' \in [Tabs -> Requests \union {None}], failed' \in [Tabs -> BOOLEAN]
    PROVE  TypeInv'
<1>1. /\ loads' = loads \ {l} /\ sent' = sent /\ completedThisSession' = completedThisSession
      /\ loading' = [loading EXCEPT ![l.tab] = FALSE]
      /\ Render(panel, saves, finalizations)
  BY DEF LoadEnds
<1>2. CallsOK(loads', saves, finalizations, sent)
  BY <1>1, CallsRemain DEF TypeInv
<1>3. CallsOK(loads', saves', finalizations', sent)
  BY <1>1, <1>2, RenderKeepsCalls
<1>4. loading' \in [Tabs -> BOOLEAN]
  BY <1>1 DEF TypeInv, PageOK
<1>5. QED
  BY <1>1, <1>3, <1>4 DEF TypeInv, PageOK

LEMMA SelectionsType ==
    ASSUME NEW list, NEW current, NEW r \in Selections(current, list)
    PROVE  r \in Requests \union {None}
BY DEF Selections, Ids

LEMMA EndLoadType ==
    ASSUME TypeInv, NEW l \in loads, EndLoad(l)
    PROVE  TypeInv'
<1>1. PICK r \in Selections(selected[l.tab], l.answer) :
        selected' = [selected EXCEPT ![l.tab] = r]
  BY DEF EndLoad
<1>2. selected' \in [Tabs -> Requests \union {None}]
  BY <1>1, SelectionsType DEF TypeInv, PageOK
<1>3. LoadEnds(l) /\ failed' = failed
  BY DEF EndLoad
<1>4. QED
  BY <1>2, <1>3, LoadEndsType DEF TypeInv, PageOK

LEMMA FailLoadType ==
    ASSUME TypeInv, NEW l \in loads, FailLoad(l)
    PROVE  TypeInv'
<1>1. /\ LoadEnds(l) /\ selected' = selected
      /\ failed' = [failed EXCEPT ![l.tab] = TRUE]
  BY DEF FailLoad
<1>2. failed' \in [Tabs -> BOOLEAN] /\ selected' \in [Tabs -> Requests \union {None}]
  BY <1>1 DEF TypeInv, PageOK
<1>3. QED
  BY <1>1, <1>2, LoadEndsType

LEMMA SelectRowType ==
    ASSUME TypeInv, NEW r \in Requests, SelectRow(r)
    PROVE  TypeInv'
<1>1. /\ selected' = [selected EXCEPT ![activeTab] = r]
      /\ UNCHANGED <<loading, failed, completedThisSession, loads, sent>>
      /\ Render(panel, saves, finalizations)
  BY DEF SelectRow
<1>2. CallsOK(loads', saves', finalizations', sent')
  BY <1>1, RenderKeepsCalls DEF TypeInv
<1>3. PageOK(selected', loading', failed', completedThisSession')
  BY <1>1 DEF TypeInv, PageOK
<1>4. QED
  BY <1>2, <1>3 DEF TypeInv

\* The steps of the panel leave all but the saves and finalizations alone.
LEMMA PanelStepType ==
    ASSUME TypeInv, PanelChanges, CallsOK(loads, saves', finalizations', sent')
    PROVE  TypeInv'
BY DEF TypeInv, PanelChanges, tabVars

LEMMA SendSaveType ==
    ASSUME TypeInv, panel \in Panel, panel.form # Blank, NEW opens \in BOOLEAN, SendSave(opens)
    PROVE  CallsOK(loads, saves', finalizations, sent')
<1> DEFINE new == [n |-> FreeNumber(saves), request |-> panel.request, input |-> panel.form,
                   opens |-> opens, mounted |-> TRUE, state |-> "sent", answer |-> Absent]
<1>1. MayCall(1) /\ sent' = sent + 1 /\ saves' = saves \union {new}
  BY DEF SendSave
<1>2. sent \in Nat /\ sent + 1 <= MaxCalls /\ Few(saves, sent)
  BY <1>1 DEF MayCall, TypeInv, CallsOK
<1>3. FreeNumber(saves) \in Nat
  BY <1>2, FreeNumberType, DeskAssumption
<1>4. panel.request \in Requests /\ panel.form \in Figures
  BY PanelParts
<1>5. new \in Save
  BY <1>3, <1>4 DEF Save, CallState
<1> HIDE DEF new
<1>6. QED
  BY <1>1, <1>5, OneIsFew, CallsAreMade DEF TypeInv

LEMMA PanelType ==
    ASSUME Inv, TypeInv, PanelStep
    PROVE  TypeInv'
<1>1. PanelChanges
  BY DEF PanelStep, Edit, SaveAdjustments, RequestFinalization, CancelDialog, ConfirmFinalization
<1>2. CASE UNCHANGED <<saves, finalizations, sent>>
  BY <1>1, <1>2, PanelStepType DEF TypeInv
<1>3. CASE SaveAdjustments
  BY <1>1, <1>3, ReadyItem, SendSaveType, PanelStepType DEF SaveAdjustments
<1>4. CASE RequestFinalization
  BY <1>1, <1>2, <1>4, ReadyItem, SendSaveType, PanelStepType DEF RequestFinalization
<1>5. CASE ConfirmFinalization
  <2> DEFINE new == [n |-> FreeNumber(finalizations), request |-> panel.request,
                     relied |-> panel.relied, mounted |-> TRUE, state |-> "sent", answer |-> Absent]
  <2>1. /\ panel # NoPanel /\ MayCall(1) /\ sent' = sent + 1 /\ saves' = saves
        /\ finalizations' = finalizations \union {new}
    BY <1>5 DEF ConfirmFinalization
  <2>2. sent \in Nat /\ sent + 1 <= MaxCalls /\ Few(finalizations, sent)
    BY <2>1 DEF MayCall, TypeInv, CallsOK
  <2>3. FreeNumber(finalizations) \in Nat
    BY <2>2, FreeNumberType, DeskAssumption
  <2>4. panel.request \in Requests /\ panel.relied \in Reliance
    BY <2>1, PanelIsThere, PanelParts
  <2>5. new \in Finalization
    BY <2>3, <2>4 DEF Finalization, CallState
  <2> HIDE DEF new
  <2>6. CallsOK(loads, saves, finalizations', sent')
    BY <2>1, <2>5, OneIsFew, CallsAreMade DEF TypeInv
  <2>7. QED
    BY <1>1, <2>1, <2>6, PanelStepType
<1>6. QED
  BY <1>2, <1>3, <1>4, <1>5 DEF PanelStep, Edit, CancelDialog

LEMMA SaveStepType ==
    ASSUME Inv, TypeInv, NEW s \in saves, SaveStep(s)
    PROVE  TypeInv'
<1>1. CASE AnswerSave(s)
  <2> DEFINE new == Saved(record[s.request], s.input)
             m == Answered(s, new)
  <2>1. s \in Save /\ s.request \in Requests /\ s.input \in Figures
    BY DEF TypeInv, CallsOK, Save
  <2>2. record \in [Requests -> Item] /\ record[s.request] \in Item
    BY <2>1 DEF Inv, ServedOK
  <2>3. new \in Item
    BY <2>1, <2>2, WritesRaiseUpdatedAt
  <2>4. /\ saves' = (saves \ {s}) \union {m} /\ CallChanges /\ finalizations' = finalizations
    <3>1. /\ record' = [record EXCEPT ![s.request] = new]
          /\ saves' = (saves \ {s}) \union {Answered(s, record'[s.request])}
          /\ CallChanges /\ finalizations' = finalizations
      BY <1>1 DEF AnswerSave
    <3> HIDE DEF new
    <3>2. record'[s.request] = new
      BY <2>1, <2>2, <3>1
    <3>3. QED
      BY <3>1, <3>2
  <2> HIDE DEF new
  <2>5. m \in Save
    BY <2>1, <2>3 DEF Answered, Save, CallState
  <2> HIDE DEF m
  <2>6. Few(saves', sent)
    BY <2>4, FewAnswered DEF TypeInv, CallsOK
  <2>7. QED
    BY <2>4, <2>5, <2>6 DEF TypeInv, CallsOK, PageOK, CallChanges, tabVars
<1>2. CASE EndSave(s) \/ FailSave(s)
  <2>1. /\ SaveEnds
        /\ \E p : Render(p, saves \ {s}, finalizations)
    BY <1>2 DEF EndSave, FailSave
  <2>2. CallsOK(loads, saves \ {s}, finalizations, sent)
    BY CallsRemain DEF TypeInv
  <2>3. CallsOK(loads, saves', finalizations', sent)
    BY <2>1, <2>2, RenderKeepsCalls
  <2>4. QED
    BY <2>1, <2>3 DEF TypeInv, PageOK, SaveEnds
<1>3. QED
  BY <1>1, <1>2 DEF SaveStep

LEMMA FinalizationStepType ==
    ASSUME Inv, TypeInv, NEW f \in finalizations, FinalizationStep(f)
    PROVE  TypeInv'
<1>1. CASE AnswerFinalization(f)
  <2> DEFINE new == Finalized(record[f.request])
             m == Answered(f, new)
  <2>1. f \in Finalization /\ f.request \in Requests
    BY DEF TypeInv, CallsOK, Finalization
  <2>2. record \in [Requests -> Item] /\ record[f.request] \in Item
    BY <2>1 DEF Inv, ServedOK
  <2>3. new \in Item
    BY <2>2, WritesRaiseUpdatedAt
  <2>4. /\ finalizations' = (finalizations \ {f}) \union {m} /\ CallChanges /\ saves' = saves
    <3>1. /\ record' = [record EXCEPT ![f.request] = new]
          /\ finalizations' = (finalizations \ {f}) \union {Answered(f, record'[f.request])}
          /\ CallChanges /\ saves' = saves
      BY <1>1 DEF AnswerFinalization
    <3> HIDE DEF new
    <3>2. record'[f.request] = new
      BY <2>1, <2>2, <3>1
    <3>3. QED
      BY <3>1, <3>2
  <2> HIDE DEF new
  <2>5. m \in Finalization
    BY <2>1, <2>3 DEF Answered, Finalization, CallState
  <2> HIDE DEF m
  <2>6. Few(finalizations', sent)
    BY <2>4, FewAnswered DEF TypeInv, CallsOK
  <2>7. QED
    BY <2>4, <2>5, <2>6 DEF TypeInv, CallsOK, PageOK, CallChanges, tabVars
<1>2. CASE EndFinalization(f) \/ FailFinalization(f)
  <2>1. FinalizationEnds(f)
    BY <1>2 DEF EndFinalization, FailFinalization
  <2>2. /\ loading' = loading /\ failed' = failed /\ loads' = loads /\ sent' = sent
        /\ \E p : Render(p, saves, finalizations \ {f})
    BY <2>1 DEF FinalizationEnds
  <2>3. CallsOK(loads, saves, finalizations \ {f}, sent)
    BY CallsRemain DEF TypeInv
  <2>4. CallsOK(loads, saves', finalizations', sent)
    BY <2>2, <2>3, RenderKeepsCalls
  <2>5. /\ completedThisSession' \in {completedThisSession, completedThisSession + 1}
        /\ selected' \in [Tabs -> Requests \union {None}]
    <3>1. CASE FailFinalization(f)
      BY <3>1 DEF FailFinalization, TypeInv, PageOK
    <3>2. CASE EndFinalization(f)
      <4>1. PICK next \in Selections(selected["check-request"], queue'["check-request"]) :
              selected' = [selected EXCEPT !["salary"] = f.request, !["check-request"] = next]
        BY <3>2 DEF EndFinalization
      <4>2. f.request \in Requests /\ next \in Requests \union {None}
        BY SelectionsType DEF TypeInv, CallsOK, Finalization
      <4>3. completedThisSession' = completedThisSession + 1
        BY <3>2 DEF EndFinalization
      <4>4. QED
        BY <4>1, <4>2, <4>3 DEF TypeInv, PageOK
    <3>3. QED
      BY <1>2, <3>1, <3>2
  <2>6. QED
    BY <2>2, <2>4, <2>5 DEF TypeInv, PageOK
<1>3. QED
  BY <1>1, <1>2 DEF FinalizationStep

LEMMA InitTypeInv == Init => TypeInv
<1> SUFFICES ASSUME Init PROVE TypeInv
  OBVIOUS
<1> DEFINE first == [n |-> 1, tab |-> "track", state |-> "sent", answer |-> EmptyList]
<1>1. loads = {first} /\ saves = {} /\ finalizations = {} /\ sent = 1
  BY DEF Init
<1>2. first \in Load
  BY NoCopyOfNothing DEF Load, CallState, Tabs
<1> HIDE DEF first
<1>3. Few({first}, 1) /\ Few({}, 1)
  BY OneIsFew, FS_EmptySet DEF Few
<1>4. CallsOK(loads, saves, finalizations, sent)
  BY <1>1, <1>2, <1>3 DEF CallsOK
<1>5. PageOK(selected, loading, failed, completedThisSession)
  BY DEF Init, PageOK
<1>6. QED
  BY <1>4, <1>5 DEF TypeInv

LEMMA NextTypeInv == Inv /\ TypeInv /\ [Next]_vars => TypeInv'
<1> SUFFICES ASSUME Inv, TypeInv, [Next]_vars PROVE TypeInv'
  OBVIOUS
<1>1. ASSUME NEW r \in Requests, Elsewhere(r) PROVE TypeInv'
  BY <1>1 DEF Elsewhere, TypeInv, tabVars, callVars
<1>2. CASE PageStep
  <2>1. ASSUME NEW ts \in SUBSET Tabs, StartLoads(ts) PROVE TypeInv'
    BY <2>1, StartLoadsType
  <2>2. ASSUME NEW tab \in Tabs, OpenTab(tab) PROVE TypeInv'
    <3>1. StartLoads({tab} \ {"track"}) /\ {tab} \ {"track"} \in SUBSET Tabs
      BY <2>2 DEF OpenTab
    <3>2. QED
      BY <2>1, <3>1
  <2>3. CASE Reload
    BY <2>1, <2>3 DEF Reload, Inv
  <2>4. CASE SwitchLanguage
    BY <2>1, <2>4 DEF SwitchLanguage, Inv, Tabs
  <2>5. ASSUME NEW r \in Requests, SelectRow(r) PROVE TypeInv'
    BY <2>5, SelectRowType
  <2>6. QED
    BY <1>2, <2>2, <2>3, <2>4, <2>5 DEF PageStep
<1>3. CASE PanelStep
  BY <1>3, PanelType
<1>4. ASSUME NEW l \in loads, LoadStep(l) PROVE TypeInv'
  BY <1>4, AnswerLoadType, EndLoadType, FailLoadType DEF LoadStep
<1>5. ASSUME NEW s \in saves, SaveStep(s) PROVE TypeInv'
  BY <1>5, SaveStepType
<1>6. ASSUME NEW f \in finalizations, FinalizationStep(f) PROVE TypeInv'
  BY <1>6, FinalizationStepType
<1>7. CASE UNCHANGED vars
  BY <1>7 DEF vars, TypeInv
<1>8. QED
  BY <1>1, <1>2, <1>3, <1>4, <1>5, <1>6, <1>7 DEF Next

\* Every variable keeps its type: in particular the bounds leave each call a
\* number that tells it from the others of its kind that are under way.
THEOREM TypeCorrect == Spec => []TypeOK
<1>1. Inv /\ TypeInv => TypeOK
  BY DEF Inv, ServedOK, MountedOK, PanelOK, TypeInv, PageOK, CallsOK, TypeOK
<1>2. QED
  BY <1>1, InvHolds, InitTypeInv, NextTypeInv, PTL DEF Spec
============================================================================
