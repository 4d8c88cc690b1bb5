---------------------- MODULE RequestSubmission_proofs ----------------------
(***************************************************************************)
(* For any number of employees, submissions and days, and under both       *)
(* adapters: what a page is told was created is stored as it was filled    *)
(* in, under a number of its own; and the submission window only moves     *)
(* forward.                                                                *)
(***************************************************************************)
EXTENDS RequestSubmission, TLAPS

HighestExists(S) == S = {} \/ \E n \in S : \A k \in S : k <= n

RecordOf(a) == [number |-> a.number, employee |-> a.by, body |-> a.body,
                claim |-> ClaimedCost(a.body)]

\* What holds of a submission a at each point of its way.
GoodClick(a, stored) ==
    /\ a.at \in {"sent", "numbered", "built", "stored"} => a.body = PostedBody(a.shown, a.files)
    /\ a.at \in {"numbered", "built", "stored"} => a.number \in Number
    /\ a.at \in {"built", "stored"} => a.record = RecordOf(a)
    /\ a.at = "stored" => \E i \in DOMAIN stored : stored[i] = a.record
    /\ a.told = "created" => a.at = "stored"

\* The inductive invariant.
SubmissionInv ==
    /\ TypeOK
    /\ \A year \in Nat : HighestExists(Taken(year))
    /\ NumbersAreUnique
    /\ \A c \in DOMAIN clicks : GoodClick(clicks[c], requests)

-----------------------------------------------------------------------------
(* Fares, days and sequences. *)

LEMMA FarePositive ==
    ASSUME NEW tariff, \A f \in tariff : f.amount \in Nat \ {0},
           NEW default \in Nat \ {0}, NEW city
    PROVE  FareTo(city, tariff, default) \in Nat \ {0}
BY DEF FareTo

LEMMA FaresPositive ==
    \A city : TangoFare(city) \in Nat \ {0} /\ TrainFare(city) \in Nat \ {0}
<1>0. \A places, n : Fare(places, n).amount = n
  BY DEF Fare
<1>1. \A f \in DEVELOPMENT_TRANSPORTATION_RATES : f.amount \in Nat \ {0}
  BY <1>0 DEF DEVELOPMENT_TRANSPORTATION_RATES
<1>2. \A f \in TRAIN_FARES : f.amount \in Nat \ {0}
  BY <1>0 DEF TRAIN_FARES
<1>3. DEFAULT_TANGO_FARE \in Nat \ {0} /\ DEFAULT_TRAIN_FARE \in Nat \ {0}
  BY DEF DEFAULT_TANGO_FARE, DEFAULT_TRAIN_FARE
<1>4. ASSUME NEW city
      PROVE  TangoFare(city) \in Nat \ {0} /\ TrainFare(city) \in Nat \ {0}
  BY <1>1, <1>2, <1>3, FarePositive DEF TangoFare, TrainFare
<1>5. QED
  BY <1>4

\* A claim is a natural number: the amount of the form, or a fare.
LEMMA ClaimType ==
    ASSUME NEW b \in Body
    PROVE  /\ ClaimedCost(b) \in Nat
           /\ IF b.form.amount = 0 /\ b.form.transport # "other"
              THEN ClaimedCost(b) > 0 ELSE ClaimedCost(b) = b.form.amount
<1> DEFINE tango == TangoFare(b.form.to)
           train == TrainFare(b.form.to)
<1>1. tango \in Nat \ {0} /\ train \in Nat \ {0}
  BY FaresPositive
<1>2. b.form.amount \in Nat
  BY DEF Body, Form
<1>3. ClaimedCost(b) =
        IF b.form.amount > 0 \/ b.form.transport = "other" THEN b.form.amount
        ELSE IF b.form.trip = "round-trip"
             THEN 2 * (IF b.form.transport = "personal-car" THEN tango ELSE train)
             ELSE IF b.form.transport = "personal-car" THEN tango ELSE train
  BY DEF ClaimedCost
<1> HIDE DEF tango, train
<1>4. QED
  BY <1>1, <1>2, <1>3

LEMMA TomorrowIsLater ==
    ASSUME NEW d, IsDay(d), d.month > 1, HasTomorrow(d)
    PROVE  /\ IsDay(Tomorrow(d)) /\ Tomorrow(d).month > 1
           /\ Precedes(EarliestTravelDate(d), EarliestTravelDate(Tomorrow(d)))
<1>0. Len(Months) \in Nat
  BY MonthsAssumption
<1>1. /\ d.month \in 2..Len(Months) /\ d.day \in Nat \ {0}
      /\ d.day <= Months[d.month].length
  BY <1>0 DEF IsDay, Date
<1>2. \A m \in 1..Len(Months) : Months[m].length \in Nat \ {0}
  <2> DEFINE Month == [year : Nat, length : Nat \ {0}]
  <2>1. \A m \in Month : m.length \in Nat \ {0}
    OBVIOUS
  <2>2. Months \in Seq(Month)
    BY MonthsAssumption
  <2> HIDE DEF Month
  <2>3. \A m \in 1..Len(Months) : Months[m] \in Month
    BY <2>2
  <2>4. QED
    BY <2>1, <2>3
<1>3. Months[d.month - 1].length \in Nat \ {0} /\ Months[d.month].length \in Nat \ {0}
  BY <1>1, <1>2, <1>0
<1>4. CASE d.day < Months[d.month].length
  <2>1. Tomorrow(d) = [month |-> d.month, day |-> d.day + 1]
    BY <1>4 DEF Tomorrow
  <2>2. IsDay(Tomorrow(d)) /\ Tomorrow(d).month > 1
    BY <1>1, <1>3, <1>4, <2>1, <1>0 DEF IsDay, Date
  <2>3. Precedes(EarliestTravelDate(d), EarliestTravelDate(Tomorrow(d)))
    BY <1>1, <1>3, <2>1, <1>0 DEF Precedes, EarliestTravelDate
  <2>4. QED
    BY <2>2, <2>3
<1>5. CASE ~(d.day < Months[d.month].length)
  <2>1. /\ Tomorrow(d) = [month |-> d.month + 1, day |-> 1]
        /\ d.month + 1 \in 1..Len(Months)
    BY <1>1, <1>5, <1>0 DEF Tomorrow, HasTomorrow
  <2>2. IsDay(Tomorrow(d)) /\ Tomorrow(d).month > 1
    <3>1. Months[d.month + 1].length \in Nat \ {0}
      BY <1>2, <2>1
    <3>2. QED
      BY <1>1, <2>1, <3>1 DEF IsDay, Date
  <2>3. Precedes(EarliestTravelDate(d), EarliestTravelDate(Tomorrow(d)))
    BY <1>1, <1>3, <2>1, <1>0 DEF Precedes, EarliestTravelDate
  <2>4. QED
    BY <2>2, <2>3
<1>6. QED
  BY <1>4, <1>5

LEMMA Prepend ==
    ASSUME NEW S, NEW s \in Seq(S), NEW x \in S
    PROVE  LET t == <<x>> \o s
           IN  /\ t \in Seq(S) /\ Len(t) = Len(s) + 1
               /\ t[1] = x /\ \A i \in DOMAIN s : t[i + 1] = s[i]
               /\ \A i \in DOMAIN t : i = 1 \/ (i - 1 \in DOMAIN s /\ t[i] = s[i - 1])
OBVIOUS

LEMMA Replace ==
    ASSUME NEW S, NEW s \in Seq(S), NEW c \in DOMAIN s, NEW x \in S
    PROVE  LET t == [s EXCEPT ![c] = x]
           IN  /\ t \in Seq(S) /\ DOMAIN t = DOMAIN s
               /\ t[c] = x /\ \A b \in DOMAIN s : b # c => t[b] = s[b]
OBVIOUS

-----------------------------------------------------------------------------
(* What the operators on pages and submissions return. *)

LEMMA FormType ==
    ASSUME NEW d \in Form, NEW m \in Managers \union {Nobody}
    PROVE  [d EXCEPT !.manager = m] \in Form
BY DEF Form

LEMMA PageTypes ==
    ASSUME NEW p \in Page, NEW answer \in SUBSET Managers, NEW m \in Managers \union {Nobody},
           NEW f \in Form, NEW b \in BOOLEAN
    PROVE  /\ [p EXCEPT !.form = f] \in Page
           /\ [p EXCEPT !.files = b] \in Page
           /\ [p EXCEPT !.loading = b] \in Page
           /\ WithOptions(p, answer, m) \in Page
           /\ Reloading(p) \in Page
           /\ p.fetching > 0 => Fetched(p) \in Page
<1>1. /\ [p EXCEPT !.form = f] \in Page /\ [p EXCEPT !.files = b] \in Page
      /\ [p EXCEPT !.loading = b] \in Page
  BY DEF Page
<1>2. WithOptions(p, answer, m) \in Page
  <2>1. [p.form EXCEPT !.manager = m] \in Form
    BY FormType DEF Page
  <2>2. QED
    BY <2>1 DEF WithOptions, Page
<1>3. Reloading(p) \in Page
  <2> DEFINE q == [p EXCEPT !.asking = TRUE]
             r == [q EXCEPT !.fetching = p.fetching + 1]
             s == [r EXCEPT !.loading = TRUE]
  <2>1. q \in Page /\ q.fetching = p.fetching /\ q.switches = p.switches
    BY DEF Page
  <2>2. r \in Page /\ r.switches = p.switches
    <3> HIDE DEF q
    <3>1. p.fetching + 1 \in Nat
      BY DEF Page
    <3>2. QED
      BY <2>1, <3>1 DEF Page
  <2>3. s \in Page /\ s.switches = p.switches
    <3> HIDE DEF r
    <3>1. QED
      BY <2>2 DEF Page
  <2>4. [s EXCEPT !.switches = p.switches + 1] \in Page
    <3> HIDE DEF s
    <3>1. p.switches + 1 \in Nat
      BY DEF Page
    <3>2. QED
      BY <2>3, <3>1 DEF Page
  <2>5. Reloading(p) = [s EXCEPT !.switches = p.switches + 1]
    BY DEF Reloading, Page
  <2>6. QED
    BY <2>4, <2>5
<1>4. ASSUME p.fetching > 0 PROVE Fetched(p) \in Page
  <2> DEFINE q == [p EXCEPT !.fetching = p.fetching - 1]
  <2>1. p.fetching - 1 \in Nat
    BY <1>4 DEF Page
  <2>2. q \in Page
    BY <2>1 DEF Page
  <2>3. Fetched(p) = [q EXCEPT !.loading = FALSE]
    BY DEF Fetched, Page
  <2> HIDE DEF q
  <2>4. QED
    BY <2>2, <2>3 DEF Page
<1>5. QED
  BY <1>1, <1>2, <1>3, <1>4

LEMMA ReleasedType ==
    ASSUME NEW p \in Page, NEW what
    PROVE  Released(p, what) \in Page
<1> DEFINE q == [p EXCEPT !.loading = FALSE]
<1>1. q \in Page /\ (q.left \/ what = "created") \in BOOLEAN
  BY DEF Page
<1>2. Released(p, what) = [q EXCEPT !.left = q.left \/ what = "created"]
  BY DEF Released, Page
<1> HIDE DEF q
<1>3. QED
  BY <1>1, <1>2 DEF Page


LEMMA BodyType ==
    ASSUME NEW form \in Form, NEW files \in BOOLEAN
    PROVE  PostedBody(form, files) \in Body
<1>1. form.hours \in Int
  BY DEF Form
<1>2. QED
  BY <1>1 DEF PostedBody, Body

\* A submission keeps what was shown, whatever becomes of it.
Same(a, b) == a.by = b.by /\ a.shown = b.shown /\ a.files = b.files

LEMMA MovedType ==
    ASSUME NEW a \in Click, NEW at \in {"sent", "numbered", "built", "stored", "refused"}
    PROVE  LET b == MovedTo(a, at)
           IN  /\ b \in Click /\ Same(a, b) /\ b.at = at /\ b.told = a.told
               /\ b.body = a.body /\ b.number = a.number /\ b.record = a.record
BY DEF MovedTo, Click, Same

LEMMA ToldType ==
    ASSUME NEW a \in Click, NEW what \in {"created", "failed"}
    PROVE  LET b == Told(a, what)
           IN  /\ b \in Click /\ Same(a, b) /\ b.told = what /\ b.at = a.at
               /\ b.body = a.body /\ b.number = a.number /\ b.record = a.record
BY DEF Told, Click, Same

LEMMA SentType ==
    ASSUME NEW a \in Click, NEW body \in Body
    PROVE  LET b == Sent(a, body)
           IN  /\ b \in Click /\ Same(a, b) /\ b.at = "sent" /\ b.told = a.told
               /\ b.body = body
BY DEF Sent, Click, Same

LEMMA NumberedType ==
    ASSUME NEW a \in Click, NEW number \in Number
    PROVE  LET b == Numbered(a, number)
           IN  /\ b \in Click /\ Same(a, b) /\ b.at = "numbered" /\ b.told = a.told
               /\ b.body = a.body /\ b.number = number
BY DEF Numbered, Click, Same

LEMMA BuiltType ==
    ASSUME NEW a \in Click, NEW record \in TravelRequest
    PROVE  LET b == Built(a, record)
           IN  /\ b \in Click /\ Same(a, b) /\ b.at = "built" /\ b.told = a.told
               /\ b.body = a.body /\ b.number = a.number /\ b.record = record
BY DEF Built, Click, Same

-----------------------------------------------------------------------------
(* The invariant is kept by every step. *)

LEMMA YearType ==
    ASSUME SubmissionInv
    PROVE  Year(today) \in Nat
<1> DEFINE Month == [year : Nat, length : Nat \ {0}]
<1>1. \A m \in Month : m.year \in Nat
  OBVIOUS
<1>2. Months \in Seq(Month)
  BY MonthsAssumption
<1>3. today.month \in 1..Len(Months)
  BY DEF SubmissionInv, TypeOK, IsDay, Date
<1> HIDE DEF Month
<1>4. Months[today.month] \in Month
  BY <1>2, <1>3
<1>5. QED
  BY <1>1, <1>4 DEF Year

\* The highest number of a year is a number, and so is the next one.
LEMMA NextSequenceType ==
    ASSUME SubmissionInv
    PROVE  NextSequence \in Nat \ {0}
<1>1. lastNumber \in Nat /\ Year(today) \in Nat
  BY YearType DEF SubmissionInv, TypeOK
<1>2. Taken(Year(today)) \subseteq Nat
  <2>1. \A j \in DOMAIN requests : requests[j] \in TravelRequest
    BY DEF SubmissionInv, TypeOK
  <2>2. \A j \in DOMAIN requests : requests[j].number.sequence \in Nat
    BY <2>1 DEF TravelRequest, Number
  <2>3. QED
    BY <2>2 DEF Taken
<1>3. HighestExists(Taken(Year(today)))
  BY <1>1 DEF SubmissionInv
<1>4. HighestSequence(Year(today)) \in Nat
  BY <1>2, <1>3 DEF HighestSequence, HighestExists
<1>5. QED
  BY <1>1, <1>4 DEF NextSequence

LEMMA StoreKept ==
    ASSUME SubmissionInv, requests' = requests
    PROVE  /\ requests' \in Seq(TravelRequest)
           /\ \A year \in Nat : HighestExists(Taken(year)')
           /\ NumbersAreUnique'
BY DEF SubmissionInv, TypeOK, Taken, NumbersAreUnique

\* A step of one submission.
LEMMA OneClick ==
    ASSUME SubmissionInv, NEW c \in DOMAIN clicks, NEW x \in Click,
           clicks' = [clicks EXCEPT ![c] = x], requests' = requests, GoodClick(x, requests)
    PROVE  /\ clicks' \in Seq(Click)
           /\ \A b \in DOMAIN clicks' : GoodClick(clicks'[b], requests')
<1>1. clicks \in Seq(Click) /\ \A b \in DOMAIN clicks : GoodClick(clicks[b], requests)
  BY DEF SubmissionInv, TypeOK
<1>2. /\ clicks' \in Seq(Click) /\ DOMAIN clicks' = DOMAIN clicks
      /\ clicks'[c] = x /\ \A b \in DOMAIN clicks : b # c => clicks'[b] = clicks[b]
  BY <1>1, Replace
<1>3. QED
  BY <1>1, <1>2

LEMMA RefuseKeeps ==
    ASSUME SubmissionInv, NEW c \in DOMAIN clicks, clicks[c].told # "created", Refuse(c)
    PROVE  SubmissionInv'
<1> DEFINE x == MovedTo(clicks[c], "refused")
<1>1. clicks[c] \in Click
  BY DEF SubmissionInv, TypeOK
<1>2. x \in Click /\ x.at = "refused" /\ x.told = clicks[c].told
  BY <1>1, MovedType
<1>3. GoodClick(x, requests)
  BY <1>2 DEF GoodClick
<1>4. clicks' = [clicks EXCEPT ![c] = x] /\ requests' = requests
  BY DEF Refuse, Moves
<1> HIDE DEF x
<1>5. /\ clicks' \in Seq(Click)
      /\ \A b \in DOMAIN clicks' : GoodClick(clicks'[b], requests')
  BY <1>2, <1>3, <1>4, OneClick
<1>6. QED
  BY <1>4, <1>5, StoreKept DEF SubmissionInv, TypeOK, Refuse

\* A step of one page.
LEMMA OnePage ==
    ASSUME SubmissionInv, NEW e \in Employees, NEW p \in Page,
           pages' = [pages EXCEPT ![e] = p]
    PROVE  pages' \in [Employees -> Page]
BY DEF SubmissionInv, TypeOK

LEMMA PageStep ==
    ASSUME SubmissionInv, NEW e \in Employees, NEW p \in Page,
           pages' = [pages EXCEPT ![e] = p], PageChanges
    PROVE  SubmissionInv'
<1>1. pages' \in [Employees -> Page]
  BY OnePage
<1>2. QED
  BY <1>1, StoreKept DEF SubmissionInv, TypeOK, PageChanges

LEMMA PageActionsKeep ==
    ASSUME SubmissionInv, NEW e \in Employees,
           Fill(e) \/ ChooseFiles(e) \/ ManagersListed(e) \/ RequestsListed(e) \/ SwitchLanguage(e)
    PROVE  SubmissionInv'
<1>1. /\ pages[e] \in Page
      /\ pages[e].form \in Form /\ pages[e].form.manager \in Managers \union {Nobody}
      /\ pages[e].options \subseteq Managers
  BY DEF SubmissionInv, TypeOK, Page, Form
<1>2. CASE Fill(e)
  <2>1. PICK d \in Drafts[adapter], m \in pages[e].options \union {pages[e].form.manager} :
          pages' = [pages EXCEPT ![e] = [@ EXCEPT !.form = [d EXCEPT !.manager = m]]]
    BY <1>2 DEF Fill
  <2>2. d \in Form /\ m \in Managers \union {Nobody}
    BY <1>1, SubmissionAssumption DEF SubmissionInv, TypeOK
  <2> DEFINE f == [d EXCEPT !.manager = m]
             p == [pages[e] EXCEPT !.form = f]
  <2>3. f \in Form
    BY <2>2, FormType
  <2>4. p \in Page
    <3> HIDE DEF f
    <3>1. QED
      BY <1>1, <2>3 DEF Page
  <2>5. pages' = [pages EXCEPT ![e] = p]
    BY <2>1
  <2> HIDE DEF p
  <2>6. QED
    BY <1>2, <2>4, <2>5, PageStep DEF Fill
<1>3. CASE ChooseFiles(e)
  <2>1. PICK chosen \in {"none", "images", "unusable"} :
          pages' = [pages EXCEPT ![e] = [@ EXCEPT !.files = (chosen = "images")]]
    BY <1>3 DEF ChooseFiles
  <2> DEFINE p == [pages[e] EXCEPT !.files = (chosen = "images")]
  <2>2. p \in Page
    BY <1>1 DEF Page
  <2>3. pages' = [pages EXCEPT ![e] = p]
    BY <2>1
  <2> HIDE DEF p
  <2>4. QED
    BY <1>3, <2>2, <2>3, PageStep DEF ChooseFiles
<1>4. CASE ManagersListed(e)
  <2>1. PICK answer \in ActiveManagers \union {{}} :
          \E m \in IF pages[e].form.manager = Nobody /\ answer # {}
                   THEN answer ELSE {pages[e].form.manager} :
            pages' = [pages EXCEPT ![e] = WithOptions(@, answer, m)]
    BY <1>4 DEF ManagersListed
  <2>2. PICK m \in IF pages[e].form.manager = Nobody /\ answer # {}
                   THEN answer ELSE {pages[e].form.manager} :
          pages' = [pages EXCEPT ![e] = WithOptions(@, answer, m)]
    BY <2>1
  <2>3. answer \in SUBSET Managers
    BY DEF ActiveManagers
  <2>4. m \in Managers \union {Nobody}
    BY <1>1, <2>3
  <2>5. WithOptions(pages[e], answer, m) \in Page
    BY <1>1, <2>3, <2>4, PageTypes
  <2>6. pages' = [pages EXCEPT ![e] = WithOptions(pages[e], answer, m)]
    BY <2>2
  <2>7. QED
    BY <1>4, <2>5, <2>6, PageStep DEF ManagersListed
<1>5. CASE RequestsListed(e)
  <2>1. Fetched(pages[e]) \in Page
    BY <1>1, <1>5, PageTypes DEF RequestsListed
  <2>2. QED
    BY <1>5, <2>1, PageStep DEF RequestsListed
<1>6. CASE SwitchLanguage(e)
  <2>1. Reloading(pages[e]) \in Page
    BY <1>1, PageTypes
  <2>2. QED
    BY <1>6, <2>1, PageStep DEF SwitchLanguage
<1>7. QED
  BY <1>2, <1>3, <1>4, <1>5, <1>6

LEMMA ClickSubmitKeeps ==
    ASSUME SubmissionInv, NEW e \in Employees, ClickSubmit(e)
    PROVE  SubmissionInv'
<1> DEFINE form == pages[e].form
           files == pages[e].files
           x == NewClick(e, form, files)
           p == Sending(pages[e], files)
<1>1. pages[e] \in Page /\ form \in Form /\ files \in BOOLEAN
  BY DEF SubmissionInv, TypeOK, Page
<1>2. p \in Page
  BY <1>1 DEF Sending, Page
<1>3. PostedBody(form, files) \in Body
  BY <1>1, BodyType
<1>4. /\ clicks' = Append(clicks, x)
      /\ pages' = [pages EXCEPT ![e] = p]
      /\ UNCHANGED <<adapter, today, lastNumber, requests>>
  BY DEF ClickSubmit
<1>5. x \in Click /\ GoodClick(x, requests)
  <2> HIDE DEF form, files, p
  <2>1. x \in Click
    BY <1>1, <1>3 DEF NewClick, Click
  <2>2. GoodClick(x, requests)
    BY <1>1 DEF NewClick, GoodClick
  <2>3. QED
    BY <2>1, <2>2
<1> HIDE DEF x, p, form, files
<1>6. pages' \in [Employees -> Page]
  BY <1>2, <1>4, OnePage
<1>7. /\ clicks' \in Seq(Click)
      /\ \A b \in DOMAIN clicks' : GoodClick(clicks'[b], requests')
  <2>1. clicks \in Seq(Click) /\ \A b \in DOMAIN clicks : GoodClick(clicks[b], requests)
    BY DEF SubmissionInv, TypeOK
  <2>2. \A b \in DOMAIN clicks' : (b \in DOMAIN clicks /\ clicks'[b] = clicks[b]) \/ clicks'[b] = x
    BY <1>4, <1>5, <2>1
  <2>3. QED
    BY <1>4, <1>5, <2>1, <2>2
<1>8. QED
  BY <1>4, <1>6, <1>7, StoreKept DEF SubmissionInv, TypeOK

LEMMA FilesKeep ==
    ASSUME SubmissionInv, NEW c \in DOMAIN clicks, FilesRead(c) \/ FilesUnreadable(c)
    PROVE  SubmissionInv'
<1>1. clicks[c] \in Click /\ GoodClick(clicks[c], requests) /\ clicks[c].told = "nothing"
  BY DEF SubmissionInv, TypeOK, FilesRead, FilesUnreadable
<1>2. clicks[c].shown \in Form /\ clicks[c].files \in BOOLEAN /\ clicks[c].by \in Employees
  BY <1>1 DEF Click
<1>3. CASE FilesRead(c)
  <2> DEFINE x == Sent(clicks[c], Captured(c))
             p == [pages[clicks[c].by] EXCEPT !.loading = TRUE]
  <2>1. Captured(c) = PostedBody(clicks[c].shown, clicks[c].files) /\ Captured(c) \in Body
    BY <1>2, BodyType DEF Captured
  <2>2. /\ x \in Click /\ Same(clicks[c], x) /\ x.at = "sent" /\ x.told = clicks[c].told
        /\ x.body = Captured(c)
    BY <1>1, <2>1, SentType
  <2>3. GoodClick(x, requests)
    BY <1>1, <2>1, <2>2 DEF GoodClick, Same
  <2>4. pages[clicks[c].by] \in Page
    BY <1>2 DEF SubmissionInv, TypeOK
  <2>5. p \in Page
    BY <2>4 DEF Page
  <2>6. /\ clicks' = [clicks EXCEPT ![c] = x]
        /\ pages' = [pages EXCEPT ![clicks[c].by] = p]
        /\ UNCHANGED <<adapter, today, lastNumber, requests>>
    BY <1>3 DEF FilesRead
  <2> HIDE DEF x, p
  <2>7. pages' \in [Employees -> Page]
    BY <1>2, <2>5, <2>6, OnePage
  <2>8. /\ clicks' \in Seq(Click)
        /\ \A b \in DOMAIN clicks' : GoodClick(clicks'[b], requests')
    BY <2>2, <2>3, <2>6, OneClick
  <2>9. QED
    BY <2>6, <2>7, <2>8, StoreKept DEF SubmissionInv, TypeOK
<1>4. CASE FilesUnreadable(c)
  <2> DEFINE x == Told(clicks[c], "failed")
  <2>1. /\ x \in Click /\ Same(clicks[c], x) /\ x.told = "failed" /\ x.at = clicks[c].at
        /\ x.body = clicks[c].body /\ x.number = clicks[c].number
        /\ x.record = clicks[c].record
    BY <1>1, ToldType
  <2>2. x.at = "reading"
    BY <1>4, <2>1 DEF FilesUnreadable
  <2>3. GoodClick(x, requests)
    BY <2>1, <2>2 DEF GoodClick
  <2>4. /\ clicks' = [clicks EXCEPT ![c] = x]
        /\ UNCHANGED <<adapter, today, lastNumber, requests, pages>>
    BY <1>4 DEF FilesUnreadable
  <2> HIDE DEF x
  <2>5. /\ clicks' \in Seq(Click)
        /\ \A b \in DOMAIN clicks' : GoodClick(clicks'[b], requests')
    BY <2>1, <2>3, <2>4, OneClick
  <2>6. QED
    BY <2>4, <2>5, StoreKept DEF SubmissionInv, TypeOK
<1>5. QED
  BY <1>3, <1>4

LEMMA LearnKeeps ==
    ASSUME SubmissionInv, NEW c \in DOMAIN clicks, clicks[c].told = "nothing",
           NEW what \in {"created", "failed"}, Learn(c, what),
           what = "created" => clicks[c].at = "stored"
    PROVE  SubmissionInv'
<1> DEFINE x == Told(clicks[c], what)
           p == Released(pages[clicks[c].by], what)
<1>1. clicks[c] \in Click /\ GoodClick(clicks[c], requests)
  BY DEF SubmissionInv, TypeOK
<1>2. clicks[c].by \in Employees
  BY <1>1 DEF Click
<1>3. pages[clicks[c].by] \in Page
  BY <1>2 DEF SubmissionInv, TypeOK
<1>4. p \in Page
  BY <1>3, ReleasedType
<1>5. /\ x \in Click /\ Same(clicks[c], x) /\ x.told = what /\ x.at = clicks[c].at
      /\ x.body = clicks[c].body /\ x.number = clicks[c].number
      /\ x.record = clicks[c].record
  BY <1>1, ToldType
<1>6. /\ clicks' = [clicks EXCEPT ![c] = x]
      /\ pages' = [pages EXCEPT ![clicks[c].by] = p]
      /\ UNCHANGED <<adapter, today, lastNumber, requests>>
  BY DEF Learn
<1> HIDE DEF x, p
<1>7. GoodClick(x, requests)
  <2>1. RecordOf(x) = RecordOf(clicks[c])
    BY <1>5 DEF RecordOf, Same
  <2>2. QED
    BY <1>1, <1>5, <2>1 DEF GoodClick, Same
<1>8. pages' \in [Employees -> Page]
  BY <1>2, <1>4, <1>6, OnePage
<1>9. /\ clicks' \in Seq(Click)
      /\ \A b \in DOMAIN clicks' : GoodClick(clicks'[b], requests')
  BY <1>5, <1>6, <1>7, OneClick
<1>10. QED
  BY <1>6, <1>8, <1>9, StoreKept DEF SubmissionInv, TypeOK

LEMMA ReceiveKeeps ==
    ASSUME SubmissionInv, NEW c \in DOMAIN clicks, Receive(c)
    PROVE  SubmissionInv'
<1>1. clicks[c] \in Click /\ GoodClick(clicks[c], requests) /\ clicks[c].at = "sent"
  BY DEF SubmissionInv, TypeOK, Receive
<1>2. CASE Refuse(c)
  BY <1>1, <1>2, RefuseKeeps DEF GoodClick
<1>3. CASE ~Refuse(c)
  <2> DEFINE number == [year |-> Year(today), sequence |-> NextSequence]
             x == Numbered(clicks[c], number)
  <2>1. NextSequence \in Nat \ {0} /\ Year(today) \in Nat /\ lastNumber \in Nat
    BY NextSequenceType, YearType DEF SubmissionInv, TypeOK
  <2>2. number \in Number
    BY <2>1 DEF Number
  <2>3. /\ clicks' = [clicks EXCEPT ![c] = x]
        /\ lastNumber' \in Nat
        /\ UNCHANGED <<adapter, today, requests, pages>>
    BY <1>3, <2>1 DEF Receive
  <2>4. /\ x \in Click /\ Same(clicks[c], x) /\ x.at = "numbered" /\ x.told = clicks[c].told
        /\ x.body = clicks[c].body /\ x.number = number
    <3> HIDE DEF number
    <3>1. QED
      BY <1>1, <2>2, NumberedType
  <2> HIDE DEF number, x
  <2>5. GoodClick(x, requests)
    BY <1>1, <2>2, <2>4 DEF GoodClick, Same
  <2>6. /\ clicks' \in Seq(Click)
        /\ \A b \in DOMAIN clicks' : GoodClick(clicks'[b], requests')
    BY <2>3, <2>4, <2>5, OneClick
  <2>7. QED
    BY <2>3, <2>6, StoreKept DEF SubmissionInv, TypeOK
<1>4. QED
  BY <1>2, <1>3

LEMMA BuildKeeps ==
    ASSUME SubmissionInv, NEW c \in DOMAIN clicks, Build(c)
    PROVE  SubmissionInv'
<1>1. clicks[c] \in Click /\ GoodClick(clicks[c], requests) /\ clicks[c].at = "numbered"
  BY DEF SubmissionInv, TypeOK, Build
<1>2. CASE Refuse(c)
  BY <1>1, <1>2, RefuseKeeps DEF GoodClick
<1>3. CASE ~Refuse(c)
  <2> DEFINE x == Built(clicks[c], NewRequest(c))
  <2>1. /\ clicks' = [clicks EXCEPT ![c] = x]
        /\ UNCHANGED <<adapter, today, lastNumber, requests, pages>>
    BY <1>3 DEF Build
  <2>2. /\ clicks[c].by \in Employees /\ clicks[c].shown \in Form /\ clicks[c].files \in BOOLEAN
        /\ clicks[c].number \in Number
        /\ clicks[c].body = PostedBody(clicks[c].shown, clicks[c].files)
    BY <1>1 DEF Click, GoodClick
  <2>3. clicks[c].body \in Body /\ ClaimedCost(clicks[c].body) \in Nat
    BY <2>2, BodyType, ClaimType
  <2>4. NewRequest(c) \in TravelRequest /\ NewRequest(c) = RecordOf(clicks[c])
    BY <2>2, <2>3 DEF NewRequest, TravelRequest, RecordOf
  <2>5. /\ x \in Click /\ Same(clicks[c], x) /\ x.at = "built" /\ x.told = clicks[c].told
        /\ x.body = clicks[c].body /\ x.number = clicks[c].number /\ x.record = NewRequest(c)
    BY <1>1, <2>4, BuiltType
  <2> HIDE DEF x
  <2>6. RecordOf(x) = RecordOf(clicks[c])
    BY <2>5 DEF RecordOf, Same
  <2>7. GoodClick(x, requests)
    BY <1>1, <2>4, <2>5, <2>6 DEF GoodClick, Same
  <2>8. /\ clicks' \in Seq(Click)
        /\ \A b \in DOMAIN clicks' : GoodClick(clicks'[b], requests')
    BY <2>1, <2>5, <2>7, OneClick
  <2>9. QED
    BY <2>1, <2>8, StoreKept DEF SubmissionInv, TypeOK
<1>4. QED
  BY <1>2, <1>3

\* A new number makes the highest one of its year, or leaves it.
LEMMA HighestGrows ==
    ASSUME NEW S \in SUBSET Nat, HighestExists(S), NEW n \in Nat
    PROVE  HighestExists(S \union {n})
<1>1. CASE S = {}
  BY <1>1 DEF HighestExists
<1>2. CASE S # {}
  <2>1. PICK h \in S : \A k \in S : k <= h
    BY <1>2 DEF HighestExists
  <2>2. \/ \A k \in S \union {n} : k <= h
        \/ \A k \in S \union {n} : k <= n
    BY <2>1
  <2>3. QED
    BY <2>1, <2>2 DEF HighestExists
<1>3. QED
  BY <1>1, <1>2

LEMMA CreateKeeps ==
    ASSUME SubmissionInv, NEW c \in DOMAIN clicks, CreateRequest(c)
    PROVE  SubmissionInv'
<1>1. clicks[c] \in Click /\ GoodClick(clicks[c], requests) /\ clicks[c].at = "built"
  BY DEF SubmissionInv, TypeOK, CreateRequest
<1>2. CASE Refuse(c)
  BY <1>1, <1>2, RefuseKeeps DEF GoodClick
<1>3. CASE ~Refuse(c)
  <2> DEFINE x == MovedTo(clicks[c], "stored")
             r == clicks[c].record
  <2>1. /\ clicks' = [clicks EXCEPT ![c] = x] /\ requests' = <<r>> \o requests
        /\ ~Stored(r.number)
        /\ UNCHANGED <<adapter, today, lastNumber, pages>>
    BY <1>3 DEF CreateRequest, Moves, Insertable
  <2>2. /\ clicks[c].by \in Employees /\ clicks[c].shown \in Form /\ clicks[c].files \in BOOLEAN
        /\ clicks[c].number \in Number
        /\ clicks[c].body = PostedBody(clicks[c].shown, clicks[c].files)
    BY <1>1 DEF Click, GoodClick
  <2>3. clicks[c].body \in Body /\ ClaimedCost(clicks[c].body) \in Nat
    BY <2>2, BodyType, ClaimType
  <2>4. r \in TravelRequest /\ r.number \in Number
    BY <1>1, <2>2, <2>3 DEF GoodClick, RecordOf, TravelRequest
  <2>5. /\ x \in Click /\ Same(clicks[c], x) /\ x.at = "stored" /\ x.told = clicks[c].told
        /\ x.body = clicks[c].body /\ x.number = clicks[c].number /\ x.record = r
    BY <1>1, MovedType
  <2> HIDE DEF x, r
  <2>6. requests \in Seq(TravelRequest) /\ clicks \in Seq(Click)
        /\ \A b \in DOMAIN clicks : GoodClick(clicks[b], requests)
    BY DEF SubmissionInv, TypeOK
  <2>7. /\ requests' \in Seq(TravelRequest) /\ Len(requests') = Len(requests) + 1
        /\ requests'[1] = r /\ \A i \in DOMAIN requests : requests'[i + 1] = requests[i]
        /\ \A i \in DOMAIN requests' :
              i = 1 \/ (i - 1 \in DOMAIN requests /\ requests'[i] = requests[i - 1])
    BY <2>1, <2>4, <2>6, Prepend
  <2>8. /\ 1 \in DOMAIN requests' /\ Len(requests) \in Nat
        /\ DOMAIN requests = 1..Len(requests) /\ DOMAIN requests' = 1..Len(requests')
        /\ \A i \in DOMAIN requests : i + 1 \in DOMAIN requests'
    BY <2>6, <2>7
  <2>9. NumbersAreUnique'
    <3> SUFFICES ASSUME NEW i \in DOMAIN requests', NEW j \in DOMAIN requests',
                        requests'[i].number = requests'[j].number
                 PROVE  i = j
      BY DEF NumbersAreUnique
    <3>1. \A k \in DOMAIN requests : requests[k].number # r.number
      BY <2>1 DEF Stored
    <3>2. \A k, l \in DOMAIN requests : requests[k].number = requests[l].number => k = l
      BY DEF SubmissionInv, NumbersAreUnique
    <3>3. CASE i = 1 \/ j = 1
      BY <2>7, <3>1, <3>3
    <3>4. CASE i # 1 /\ j # 1
      BY <2>7, <2>8, <3>2, <3>4
    <3>5. QED
      BY <3>3, <3>4
  <2>10. ASSUME NEW year \in Nat PROVE HighestExists(Taken(year)')
    <3>1. /\ Taken(year) \subseteq Nat
          /\ HighestExists(Taken(year))
      <4>1. \A j \in DOMAIN requests : requests[j] \in TravelRequest
        BY <2>6
      <4>2. \A j \in DOMAIN requests : requests[j].number.sequence \in Nat
        BY <4>1 DEF TravelRequest, Number
      <4>3. QED
        BY <4>2 DEF Taken, SubmissionInv
    <3>2. r.number.sequence \in Nat
      BY <2>4 DEF Number
    <3>3. CASE r.number.year = year
      <4>1. Taken(year)' = Taken(year) \union {r.number.sequence}
        BY <2>7, <2>8, <3>3 DEF Taken
      <4>2. QED
        BY <3>1, <3>2, <4>1, HighestGrows
    <3>4. CASE r.number.year # year
      <4>1. Taken(year)' = Taken(year)
        BY <2>7, <2>8, <3>4 DEF Taken
      <4>2. QED
        BY <3>1, <4>1
    <3>5. QED
      BY <3>3, <3>4
  <2>11. /\ clicks' \in Seq(Click)
         /\ \A b \in DOMAIN clicks' : GoodClick(clicks'[b], requests')
    <3>1. /\ clicks' \in Seq(Click) /\ DOMAIN clicks' = DOMAIN clicks
          /\ clicks'[c] = x /\ \A b \in DOMAIN clicks : b # c => clicks'[b] = clicks[b]
      BY <2>1, <2>5, <2>6, Replace
    <3>2. RecordOf(x) = RecordOf(clicks[c])
      BY <2>5 DEF RecordOf, Same
    <3>3. GoodClick(x, requests')
      BY <1>1, <2>5, <2>7, <2>8, <3>2 DEF GoodClick, Same, r
    <3>4. ASSUME NEW b \in DOMAIN clicks PROVE GoodClick(clicks[b], requests')
      BY <2>6, <2>7, <2>8 DEF GoodClick
    <3>5. QED
      BY <3>1, <3>3, <3>4
  <2>12. QED
    BY <2>1, <2>7, <2>9, <2>10, <2>11 DEF SubmissionInv, TypeOK
<1>4. QED
  BY <1>2, <1>3

LEMMA NextDayKeeps ==
    ASSUME SubmissionInv, NextDay
    PROVE  SubmissionInv'
<1>1. IsDay(today') /\ today'.month > 1
  BY TomorrowIsLater DEF SubmissionInv, TypeOK, NextDay
<1>2. QED
  BY <1>1, StoreKept DEF SubmissionInv, TypeOK, NextDay

LEMMA InitInv == Init => SubmissionInv
<1> SUFFICES ASSUME Init PROVE SubmissionInv
  OBVIOUS
<1>1. \A d \in Drafts[adapter] : d \in Form
  BY SubmissionAssumption DEF Init
<1>2. pages \in [Employees -> Page]
  <2> DEFINE Opened(d) == [form |-> d, files |-> FALSE, options |-> {}, asking |-> TRUE,
                           fetching |-> 1, loading |-> TRUE, left |-> FALSE, switches |-> 0]
  <2>1. \A d \in Form : Opened(d) \in Page
    BY DEF Page
  <2>2. pages \in [Employees -> {Opened(d) : d \in Drafts[adapter]}]
    BY DEF Init
  <2> HIDE DEF Opened
  <2>3. {Opened(d) : d \in Drafts[adapter]} \subseteq Page
    BY <1>1, <2>1
  <2>4. QED
    BY <2>2, <2>3
<1>3. TypeOK
  BY <1>2, SubmissionAssumption DEF Init, TypeOK
<1>4. \A year \in Nat : HighestExists(Taken(year))
  BY DEF Init, Taken, HighestExists
<1>5. NumbersAreUnique /\ \A c \in DOMAIN clicks : GoodClick(clicks[c], requests)
  BY DEF Init, NumbersAreUnique
<1>6. QED
  BY <1>3, <1>4, <1>5 DEF SubmissionInv

LEMMA StepInv == SubmissionInv /\ [Next]_vars => SubmissionInv'
<1> SUFFICES ASSUME SubmissionInv, [Next]_vars PROVE SubmissionInv'
  OBVIOUS
<1>1. CASE UNCHANGED vars
  BY <1>1, StoreKept DEF vars, SubmissionInv, TypeOK
<1>2. ASSUME NEW e \in Employees,
             \/ Fill(e) \/ ChooseFiles(e) \/ ClickSubmit(e) \/ SwitchLanguage(e)
             \/ ManagersListed(e) \/ RequestsListed(e)
      PROVE  SubmissionInv'
  BY <1>2, PageActionsKeep, ClickSubmitKeeps
<1>3. ASSUME NEW c \in DOMAIN clicks,
             \/ FilesRead(c) \/ FilesUnreadable(c) \/ Answered(c) \/ ConnectionBreaks(c)
             \/ Receive(c) \/ Build(c) \/ CreateRequest(c) \/ DatabaseFails(c)
      PROVE  SubmissionInv'
  <2>1. CASE FilesRead(c) \/ FilesUnreadable(c)
    BY <2>1, FilesKeep
  <2>2. CASE Answered(c)
    BY <2>2, LearnKeeps DEF Answered
  <2>3. CASE ConnectionBreaks(c)
    BY <2>3, LearnKeeps DEF ConnectionBreaks
  <2>4. CASE Receive(c) \/ Build(c) \/ CreateRequest(c)
    BY <2>4, ReceiveKeeps, BuildKeeps, CreateKeeps
  <2>5. CASE DatabaseFails(c)
    BY <2>5, RefuseKeeps DEF DatabaseFails, SubmissionInv, GoodClick
  <2>6. QED
    BY <1>3, <2>1, <2>2, <2>3, <2>4, <2>5
<1>4. CASE NextDay
  BY <1>4, NextDayKeeps
<1>5. QED
  BY <1>1, <1>2, <1>3, <1>4 DEF Next

LEMMA AlwaysInv == Spec => []SubmissionInv
BY InitInv, StepInv, PTL DEF Spec

-----------------------------------------------------------------------------
(* The theorems. *)

\* No two requests are stored under one number, although the memory adapter may
\* give the same one to two handlers (nextRequestId, createRequest).
THEOREM NumbersStayUnique == Spec => []NumbersAreUnique
<1>1. SubmissionInv => NumbersAreUnique
  BY DEF SubmissionInv
<1>2. QED
  BY <1>1, AlwaysInv, PTL

LEMMA InvAcknowledged == SubmissionInv => AcknowledgedAsShown
<1> SUFFICES ASSUME SubmissionInv, NEW c \in DOMAIN clicks, clicks[c].told = "created"
             PROVE  \E i \in DOMAIN requests :
                      /\ requests[i].number = clicks[c].number
                      /\ requests[i].employee = clicks[c].by
                      /\ requests[i].body.form = clicks[c].shown
                      /\ requests[i].body.files = clicks[c].files
                      /\ IF clicks[c].shown.amount = 0 /\ clicks[c].shown.transport # "other"
                         THEN requests[i].claim > 0
                         ELSE requests[i].claim = clicks[c].shown.amount
  BY DEF AcknowledgedAsShown
<1>1. clicks[c] \in Click /\ GoodClick(clicks[c], requests)
  BY DEF SubmissionInv, TypeOK
<1>2. /\ clicks[c].at = "stored" /\ clicks[c].record = RecordOf(clicks[c])
      /\ clicks[c].body = PostedBody(clicks[c].shown, clicks[c].files)
  BY <1>1 DEF GoodClick
<1>3. PICK i \in DOMAIN requests : requests[i] = RecordOf(clicks[c])
  BY <1>1, <1>2 DEF GoodClick
<1>4. clicks[c].shown \in Form /\ clicks[c].files \in BOOLEAN
  BY <1>1 DEF Click
<1>5. clicks[c].body \in Body
  BY <1>2, <1>4, BodyType
<1>6. clicks[c].body.form = clicks[c].shown /\ clicks[c].body.files = clicks[c].files
  BY <1>2 DEF PostedBody
<1>7. IF clicks[c].shown.amount = 0 /\ clicks[c].shown.transport # "other"
      THEN ClaimedCost(clicks[c].body) > 0
      ELSE ClaimedCost(clicks[c].body) = clicks[c].shown.amount
  BY <1>5, <1>6, ClaimType
<1>8. QED
  BY <1>3, <1>6, <1>7 DEF RecordOf

\* What a page is told was created is stored as it was filled in when the button
\* was pressed, and priced (handleSubmit, createNewRequest, createRequest).
THEOREM AcknowledgementsAreTrue == Spec => []AcknowledgedAsShown
BY InvAcknowledged, AlwaysInv, PTL

\* In every calendar the earliest day a trip may have taken place moves only
\* forward, past months of any length (travelDatePolicy.ts).
THEOREM WindowOnlyAdvances == Spec => WindowMovesForward
<1>1. SubmissionInv /\ [Next]_vars
        => [Precedes(EarliestTravelDate(today), EarliestTravelDate(today'))]_today
  <2> SUFFICES ASSUME SubmissionInv, [Next]_vars, today' # today
               PROVE  Precedes(EarliestTravelDate(today), EarliestTravelDate(today'))
    OBVIOUS
  <2>1. NextDay
    BY DEF vars, Next, Fill, ChooseFiles, ClickSubmit, SwitchLanguage, ManagersListed,
           RequestsListed, PageChanges, FilesRead, FilesUnreadable, Answered, ConnectionBreaks,
           Learn, Receive, Build, CreateRequest, DatabaseFails, Refuse
  <2>2. QED
    BY <2>1, TomorrowIsLater DEF NextDay, SubmissionInv, TypeOK
<1>2. QED
  BY <1>1, AlwaysInv, PTL DEF Spec, WindowMovesForward

-----------------------------------------------------------------------------
(* Why a form is submitted twice.  The button is disabled from a click until *)
(* the page has learned what became of it, and a page that succeeded is      *)
(* left: but only while nothing enables the button again meanwhile, which    *)
(* files, read before it is disabled, and a change of language may do.       *)

\* Employee e, at page p, has changed the language or submitted files among the
\* first n submissions cs.
Hasty(e, n, cs, p) ==
    \/ p.switches > 0
    \/ \E b \in 1..n : cs[b].by = e /\ cs[b].files

\* The button tells of the submissions that nobody has answered.
Orderly(e, cs, p) ==
    /\ p.fetching \in {0, 1} /\ (p.fetching = 1 => p.loading)
    /\ \A c \in DOMAIN cs : cs[c].by = e =>
         /\ cs[c].told = "nothing" => p.loading /\ p.fetching = 0
         /\ cs[c].told = "created" => p.left

Explained(cs, ps) ==
    \A c, d \in DOMAIN cs : c < d /\ cs[c].by = cs[d].by =>
        cs[c].told = "failed" \/ Hasty(cs[d].by, d - 1, cs, ps[cs[d].by])

ReasonInv ==
    /\ Explained(clicks, pages)
    /\ \A e \in Employees : Hasty(e, Len(clicks), clicks, pages[e]) \/ Orderly(e, clicks, pages[e])

\* Submission b is submission a, a little later.
Later(a, b) ==
    a.by = b.by /\ a.files = b.files /\ (a.told = "failed" => b.told = "failed")

\* A step that adds no submission and takes back no change of language.
NoNewClick(cs, ps, ct, pt) ==
    /\ cs \in Seq(Click) /\ ct \in Seq(Click) /\ DOMAIN ct = DOMAIN cs
    /\ \A c \in DOMAIN cs : Later(cs[c], ct[c])
    /\ \A e \in Employees : ps[e].switches > 0 => pt[e].switches > 0

LEMMA HastyStays ==
    ASSUME NEW cs, NEW ps, NEW ct, NEW pt, NoNewClick(cs, ps, ct, pt), NEW e \in Employees,
           NEW n \in Nat, n <= Len(cs), Hasty(e, n, cs, ps[e])
    PROVE  Hasty(e, n, ct, pt[e])
<1>1. \A b \in 1..n : b \in DOMAIN cs
  BY DEF NoNewClick
<1>2. QED
  BY <1>1 DEF NoNewClick, Later, Hasty

LEMMA ExplainedStays ==
    ASSUME NEW cs, NEW ps, NEW ct, NEW pt, NoNewClick(cs, ps, ct, pt), Explained(cs, ps)
    PROVE  Explained(ct, pt)
<1> SUFFICES ASSUME NEW c \in DOMAIN cs, NEW d \in DOMAIN cs, c < d, ct[c].by = ct[d].by
             PROVE  ct[c].told = "failed" \/ Hasty(ct[d].by, d - 1, ct, pt[ct[d].by])
  BY DEF Explained, NoNewClick
<1>1. Later(cs[c], ct[c]) /\ Later(cs[d], ct[d])
  BY DEF NoNewClick
<1>2. CASE cs[c].told = "failed"
  BY <1>1, <1>2 DEF Later
<1>3. CASE Hasty(cs[d].by, d - 1, cs, ps[cs[d].by])
  <2>1. /\ cs[d] \in Click /\ d \in 1..Len(cs) /\ Len(cs) \in Nat
    BY DEF NoNewClick
  <2>2. cs[d].by \in Employees /\ d - 1 \in Nat /\ d - 1 <= Len(cs)
    BY <2>1 DEF Click
  <2>3. Hasty(cs[d].by, d - 1, ct, pt[cs[d].by])
    BY <1>3, <2>2, HastyStays
  <2>4. QED
    BY <1>1, <2>3 DEF Later
<1>4. QED
  BY <1>1, <1>2, <1>3 DEF Explained, Later

LEMMA ReasonStays ==
    ASSUME ReasonInv, NoNewClick(clicks, pages, clicks', pages'),
           \A e \in Employees :
              ~Hasty(e, Len(clicks), clicks, pages[e]) /\ Orderly(e, clicks, pages[e])
                => pages'[e].switches > 0 \/ Orderly(e, clicks', pages'[e])
    PROVE  ReasonInv'
<1>1. Explained(clicks', pages')
  BY ExplainedStays DEF ReasonInv
<1>2. Len(clicks') = Len(clicks) /\ Len(clicks) \in Nat
  BY DEF NoNewClick
<1>3. ASSUME NEW e \in Employees
      PROVE  Hasty(e, Len(clicks), clicks', pages'[e]) \/ Orderly(e, clicks', pages'[e])
  <2>1. CASE Hasty(e, Len(clicks), clicks, pages[e])
    BY <1>2, <2>1, HastyStays
  <2>2. CASE ~Hasty(e, Len(clicks), clicks, pages[e])
    BY <2>2 DEF ReasonInv, Hasty
  <2>3. QED
    BY <2>1, <2>2
<1>4. QED
  BY <1>1, <1>2, <1>3 DEF ReasonInv

Silent(a, b) == a.by = b.by /\ a.files = b.files /\ a.told = b.told

\* Whatever the server makes of a submission, its page knows as much as before.
LEMMA SilentSteps ==
    ASSUME NEW a \in Click
    PROVE  /\ \A at : Silent(a, MovedTo(a, at))
           /\ \A body : Silent(a, Sent(a, body))
           /\ \A number : Silent(a, Numbered(a, number))
           /\ \A record : Silent(a, Built(a, record))
BY DEF Silent, Click, MovedTo, Sent, Numbered, Built

\* A step of one page: the button, the lists it waits for and its language.
LEMMA PageReason ==
    ASSUME SubmissionInv, ReasonInv, NEW e \in Employees, NEW p,
           pages' = [pages EXCEPT ![e] = p], clicks' = clicks,
           pages[e].switches > 0 => p.switches > 0,
           \/ p.switches > 0
           \/ /\ p.left = pages[e].left /\ p.loading = pages[e].loading
              /\ p.fetching = pages[e].fetching
           \/ /\ p.left = pages[e].left /\ pages[e].fetching > 0
              /\ p.loading = FALSE /\ p.fetching = pages[e].fetching - 1
    PROVE  ReasonInv'
<1>1. clicks \in Seq(Click) /\ pages \in [Employees -> Page]
  BY DEF SubmissionInv, TypeOK
<1>2. pages'[e] = p /\ \A d \in Employees \ {e} : pages'[d] = pages[d]
  BY <1>1
<1>3. NoNewClick(clicks, pages, clicks', pages')
  BY <1>1, <1>2 DEF NoNewClick, Later
<1>4. ASSUME NEW d \in Employees, Orderly(d, clicks, pages[d])
      PROVE  pages'[d].switches > 0 \/ Orderly(d, clicks', pages'[d])
  <2>1. CASE d # e
    BY <1>2, <1>4, <2>1
  <2>2. CASE d = e
    BY <1>2, <1>4, <2>2 DEF Orderly
  <2>3. QED
    BY <2>1, <2>2
<1>5. QED
  BY <1>3, <1>4, ReasonStays

LEMMA PageActionsReason ==
    ASSUME SubmissionInv, ReasonInv, NEW e \in Employees,
           Fill(e) \/ ChooseFiles(e) \/ ManagersListed(e) \/ RequestsListed(e) \/ SwitchLanguage(e)
    PROVE  ReasonInv'
<1>1. pages[e] \in Page /\ pages[e].switches \in Nat
  BY DEF SubmissionInv, TypeOK, Page
<1>2. CASE Fill(e) \/ ChooseFiles(e)
  <2>1. clicks' = clicks
    BY <1>2 DEF Fill, ChooseFiles, PageChanges
  <2>2. PICK f : \/ pages' = [pages EXCEPT ![e] = [@ EXCEPT !.form = f]]
                 \/ pages' = [pages EXCEPT ![e] = [@ EXCEPT !.files = f]]
    BY <1>2 DEF Fill, ChooseFiles
  <2>3. CASE pages' = [pages EXCEPT ![e] = [@ EXCEPT !.form = f]]
    <3> DEFINE p == [pages[e] EXCEPT !.form = f]
    <3>1. /\ p.left = pages[e].left /\ p.loading = pages[e].loading
          /\ p.fetching = pages[e].fetching /\ p.switches = pages[e].switches
      BY <1>1 DEF Page
    <3>2. pages' = [pages EXCEPT ![e] = p]
      BY <2>3
    <3> HIDE DEF p
    <3>3. QED
      BY <2>1, <3>1, <3>2, PageReason
  <2>4. CASE pages' = [pages EXCEPT ![e] = [@ EXCEPT !.files = f]]
    <3> DEFINE p == [pages[e] EXCEPT !.files = f]
    <3>1. /\ p.left = pages[e].left /\ p.loading = pages[e].loading
          /\ p.fetching = pages[e].fetching /\ p.switches = pages[e].switches
      BY <1>1 DEF Page
    <3>2. pages' = [pages EXCEPT ![e] = p]
      BY <2>4
    <3> HIDE DEF p
    <3>3. QED
      BY <2>1, <3>1, <3>2, PageReason
  <2>5. QED
    BY <2>2, <2>3, <2>4
<1>3. CASE ManagersListed(e)
  <2>1. PICK answer, m : pages' = [pages EXCEPT ![e] = WithOptions(@, answer, m)]
    BY <1>3 DEF ManagersListed
  <2> DEFINE p == WithOptions(pages[e], answer, m)
  <2>2. /\ p.left = pages[e].left /\ p.loading = pages[e].loading
        /\ p.fetching = pages[e].fetching /\ p.switches = pages[e].switches
    BY <1>1 DEF Page, WithOptions
  <2>3. pages' = [pages EXCEPT ![e] = p] /\ clicks' = clicks
    BY <1>3, <2>1 DEF ManagersListed, PageChanges
  <2> HIDE DEF p
  <2>4. QED
    BY <2>2, <2>3, PageReason
<1>4. CASE RequestsListed(e)
  <2> DEFINE p == Fetched(pages[e])
  <2>1. /\ p.left = pages[e].left /\ p.loading = FALSE /\ pages[e].fetching > 0
        /\ p.fetching = pages[e].fetching - 1 /\ p.switches = pages[e].switches
    BY <1>1, <1>4 DEF Page, Fetched, RequestsListed
  <2>2. pages' = [pages EXCEPT ![e] = p] /\ clicks' = clicks
    BY <1>4 DEF RequestsListed, PageChanges
  <2> HIDE DEF p
  <2>3. QED
    BY <2>1, <2>2, PageReason
<1>5. CASE SwitchLanguage(e)
  <2> DEFINE p == Reloading(pages[e])
  <2>1. p.switches > 0
    BY <1>1 DEF Page, Reloading
  <2>2. pages' = [pages EXCEPT ![e] = p] /\ clicks' = clicks
    BY <1>5 DEF SwitchLanguage, PageChanges
  <2> HIDE DEF p
  <2>3. QED
    BY <2>1, <2>2, PageReason
<1>6. QED
  BY <1>2, <1>3, <1>4, <1>5

\* A click that passes the page's checks comes when every earlier submission of the
\* page has failed, unless files or a change of language let it through.
LEMMA ClickSubmitReason ==
    ASSUME SubmissionInv, ReasonInv, NEW e \in Employees, ClickSubmit(e)
    PROVE  ReasonInv'
<1> DEFINE form == pages[e].form
           files == pages[e].files
           x == NewClick(e, form, files)
           p == Sending(pages[e], files)
           n == Len(clicks)
<1>1. /\ clicks \in Seq(Click) /\ pages \in [Employees -> Page] /\ n \in Nat
      /\ pages[e] \in Page /\ files \in BOOLEAN
  BY DEF SubmissionInv, TypeOK, Page
<1>2. /\ clicks' = Append(clicks, x) /\ pages' = [pages EXCEPT ![e] = p]
      /\ ~pages[e].left /\ ~pages[e].loading
  BY DEF ClickSubmit, Submittable, Open
<1>3. x.by = e /\ x.files = files /\ x.told = "nothing"
  BY DEF NewClick
<1>4. /\ p.switches = pages[e].switches /\ p.left = pages[e].left
      /\ p.fetching = pages[e].fetching /\ p.loading = ~files
  BY <1>1, <1>2 DEF Sending, Page
<1> HIDE DEF x, p
<1>5. /\ DOMAIN clicks = 1..n /\ DOMAIN clicks' = 1..(n + 1) /\ Len(clicks') = n + 1
      /\ clicks'[n + 1] = x /\ \A c \in 1..n : clicks'[c] = clicks[c]
  BY <1>1, <1>2
<1>6. pages'[e] = p /\ \A d \in Employees \ {e} : pages'[d] = pages[d]
  BY <1>1, <1>2
<1>7. \A d \in Employees, k \in Nat : k <= n =>
         (Hasty(d, k, clicks', pages'[d]) <=> Hasty(d, k, clicks, pages[d]))
  <2> SUFFICES ASSUME NEW d \in Employees, NEW k \in Nat, k <= n
               PROVE  Hasty(d, k, clicks', pages'[d]) <=> Hasty(d, k, clicks, pages[d])
    OBVIOUS
  <2>1. pages'[d].switches = pages[d].switches
    BY <1>4, <1>6
  <2>2. \A b \in 1..k : clicks'[b] = clicks[b]
    BY <1>1, <1>5
  <2>3. QED
    BY <2>1, <2>2 DEF Hasty
<1>8. Explained(clicks', pages')
  <2> SUFFICES ASSUME NEW c \in 1..(n + 1), NEW d \in 1..(n + 1), c < d,
                      clicks'[c].by = clicks'[d].by
               PROVE  clicks'[c].told = "failed"
                        \/ Hasty(clicks'[d].by, d - 1, clicks', pages'[clicks'[d].by])
    BY <1>5 DEF Explained
  <2>1. c \in 1..n /\ clicks'[c] = clicks[c] /\ clicks[c] \in Click /\ d - 1 \in Nat /\ d - 1 <= n
    BY <1>1, <1>5
  <2>2. CASE d \in 1..n
    <3>1. clicks[c].told = "failed" \/ Hasty(clicks[d].by, d - 1, clicks, pages[clicks[d].by])
      BY <1>5, <2>1, <2>2 DEF ReasonInv, Explained
    <3>2. clicks'[d] = clicks[d] /\ clicks[d] \in Click
      BY <1>1, <1>5, <2>2
    <3>3. clicks[d].by \in Employees
      BY <3>2 DEF Click
    <3>4. QED
      BY <1>7, <2>1, <3>1, <3>2, <3>3
  <2>3. CASE d = n + 1
    <3>1. clicks'[d].by = e /\ clicks[c].by = e /\ d - 1 = n
      BY <1>1, <1>3, <1>5, <2>1, <2>3
    <3>2. CASE Hasty(e, n, clicks, pages[e])
      BY <1>1, <1>7, <3>1, <3>2
    <3>3. CASE Orderly(e, clicks, pages[e])
      <4>1. clicks[c].told \notin {"nothing", "created"}
        BY <1>2, <1>5, <2>1, <3>1, <3>3 DEF Orderly
      <4>2. clicks[c].told = "failed"
        BY <2>1, <4>1 DEF Click
      <4>3. QED
        BY <2>1, <4>2
    <3>4. QED
      BY <3>2, <3>3 DEF ReasonInv
  <2>4. QED
    BY <1>1, <2>2, <2>3
<1>9. ASSUME NEW d \in Employees
      PROVE  Hasty(d, n + 1, clicks', pages'[d]) \/ Orderly(d, clicks', pages'[d])
  <2>1. CASE Hasty(d, n, clicks, pages[d])
    <3>1. Hasty(d, n, clicks', pages'[d])
      BY <1>1, <1>7, <2>1
    <3>2. QED
      BY <1>1, <3>1 DEF Hasty
  <2>2. CASE Orderly(d, clicks, pages[d]) /\ d # e
    <3>1. pages'[d] = pages[d] /\ clicks'[n + 1].by # d
      BY <1>3, <1>5, <1>6, <2>2
    <3>2. QED
      BY <1>1, <1>5, <2>2, <3>1 DEF Orderly
  <2>3. CASE Orderly(e, clicks, pages[e]) /\ d = e /\ files
    <3>1. n + 1 \in 1..(n + 1) /\ clicks'[n + 1] = x
      BY <1>1, <1>5
    <3>2. clicks'[n + 1].by = e
      BY <1>3, <3>1
    <3>3. clicks'[n + 1].files
      BY <1>3, <2>3, <3>1
    <3>4. QED
      BY <2>3, <3>1, <3>2, <3>3 DEF Hasty
  <2>4. CASE Orderly(e, clicks, pages[e]) /\ d = e /\ ~files
    <3>1. /\ pages'[e] = p /\ p.loading /\ p.fetching = 0
      BY <1>2, <1>4, <1>6, <2>4 DEF Orderly
    <3>2. \A c \in 1..n : clicks[c].by = e => clicks[c].told # "created"
      BY <1>2, <1>5, <2>4 DEF Orderly
    <3>3. \A c \in 1..(n + 1) : clicks'[c].by = e => clicks'[c].told # "created"
      BY <1>1, <1>3, <1>5, <3>2
    <3>4. QED
      BY <1>5, <2>4, <3>1, <3>3 DEF Orderly
  <2>5. QED
    BY <2>1, <2>2, <2>3, <2>4 DEF ReasonInv
<1>10. QED
  BY <1>5, <1>8, <1>9 DEF ReasonInv

\* A step of one submission that its page does not notice, but for a button that
\* may be disabled once more.
LEMMA SilentReason ==
    ASSUME SubmissionInv, SubmissionInv', ReasonInv, NEW c \in DOMAIN clicks, NEW x,
           clicks' = [clicks EXCEPT ![c] = x], Silent(clicks[c], x),
           \A e \in Employees :
              /\ pages'[e].switches = pages[e].switches /\ pages'[e].left = pages[e].left
              /\ pages'[e].fetching = pages[e].fetching
              /\ pages[e].loading => pages'[e].loading
    PROVE  ReasonInv'
<1>1. clicks \in Seq(Click) /\ clicks' \in Seq(Click) /\ DOMAIN clicks' = DOMAIN clicks
  BY DEF SubmissionInv, TypeOK
<1>2. \A b \in DOMAIN clicks : Silent(clicks[b], clicks'[b])
  BY DEF Silent
<1>3. NoNewClick(clicks, pages, clicks', pages')
  BY <1>1, <1>2 DEF NoNewClick, Later, Silent
<1>4. ASSUME NEW e \in Employees, Orderly(e, clicks, pages[e])
      PROVE  Orderly(e, clicks', pages'[e])
  BY <1>1, <1>2, <1>4 DEF Orderly, Silent
<1>5. QED
  BY <1>3, <1>4, ReasonStays

\* The page learns what became of the submission it waits for: it waits for no other.
LEMMA ToldReason ==
    ASSUME SubmissionInv, SubmissionInv', ReasonInv, NEW c \in DOMAIN clicks,
           clicks[c].told = "nothing", NEW what \in {"created", "failed"},
           clicks' = [clicks EXCEPT ![c] = Told(@, what)],
           \/ pages' = [pages EXCEPT ![clicks[c].by] = Released(@, what)]
           \/ pages' = pages /\ what = "failed"
    PROVE  ReasonInv'
<1> DEFINE by == clicks[c].by
           x == Told(clicks[c], what)
<1>1. /\ clicks \in Seq(Click) /\ clicks' \in Seq(Click) /\ DOMAIN clicks' = DOMAIN clicks
      /\ pages \in [Employees -> Page] /\ clicks[c] \in Click /\ by \in Employees
      /\ DOMAIN clicks = 1..Len(clicks) /\ Len(clicks) \in Nat
  <2>1. clicks \in Seq(Click) /\ clicks' \in Seq(Click) /\ pages \in [Employees -> Page]
    BY DEF SubmissionInv, TypeOK
  <2>2. DOMAIN clicks' = DOMAIN clicks
    BY <2>1
  <2>3. clicks[c] \in Click /\ DOMAIN clicks = 1..Len(clicks) /\ Len(clicks) \in Nat
    BY <2>1
  <2>4. by \in Employees
    BY <2>3 DEF Click
  <2>5. QED
    BY <2>1, <2>2, <2>3, <2>4
<1>2. x.by = by /\ x.files = clicks[c].files /\ x.told = what
  BY <1>1, ToldType DEF Same
<1>3. clicks'[c] = x /\ \A b \in DOMAIN clicks \ {c} : clicks'[b] = clicks[b]
  BY <1>1
<1> HIDE DEF x
<1>4. \A b \in DOMAIN clicks : Later(clicks[b], clicks'[b])
  BY <1>2, <1>3 DEF Later
<1>5. \A e \in Employees : pages'[e] = pages[e] \/ (e = by /\ pages'[e] = Released(pages[e], what))
  BY <1>1
<1>6. pages' = pages \/ pages'[by] = Released(pages[by], what)
  BY <1>1
<1>7. LET r == Released(pages[by], what)
      IN  /\ r.switches = pages[by].switches /\ r.fetching = pages[by].fetching
          /\ r.loading = FALSE /\ r.left = (pages[by].left \/ what = "created")
  BY <1>1 DEF Released, Page
<1>8. NoNewClick(clicks, pages, clicks', pages')
  BY <1>1, <1>4, <1>5, <1>7 DEF NoNewClick
<1>9. ASSUME NEW e \in Employees, ~Hasty(e, Len(clicks), clicks, pages[e]),
             Orderly(e, clicks, pages[e])
      PROVE  Orderly(e, clicks', pages'[e])
  <2>1. CASE e # by
    <3>1. pages'[e] = pages[e]
      BY <1>5, <2>1
    <3>2. \A b \in DOMAIN clicks : clicks'[b].by = e => clicks'[b] = clicks[b]
      BY <1>2, <1>3, <2>1
    <3>3. QED
      BY <1>1, <1>9, <3>1, <3>2 DEF Orderly
  <2>2. CASE e = by
    <3>1. \A b \in DOMAIN clicks \ {c} : clicks[b].by = e => clicks[b].told # "nothing"
      <4> SUFFICES ASSUME NEW b \in DOMAIN clicks \ {c}, clicks[b].by = e
                   PROVE  clicks[b].told # "nothing"
        OBVIOUS
      <4>1. \A k \in DOMAIN clicks : ~Hasty(e, k - 1, clicks, pages[e])
        BY <1>1, <1>9 DEF Hasty
      <4>2. b < c => clicks[b].told = "failed"
        BY <2>2, <4>1 DEF ReasonInv, Explained
      <4>3. c < b => clicks[c].told = "failed"
        BY <2>2, <4>1 DEF ReasonInv, Explained
      <4>4. QED
        BY <1>1, <4>2, <4>3
    <3>2. /\ pages[e].loading /\ pages[e].fetching = 0
      BY <1>9, <2>2 DEF Orderly
    <3>3. \A b \in DOMAIN clicks : clicks'[b].by = e => clicks'[b].told # "nothing"
      BY <1>2, <1>3, <3>1
    <3>4. pages'[e].fetching = 0
      BY <1>5, <1>7, <2>2, <3>2
    <3>5. \A b \in DOMAIN clicks : clicks'[b].by = e /\ clicks'[b].told = "created" => pages'[e].left
      <4> SUFFICES ASSUME NEW b \in DOMAIN clicks, clicks'[b].by = e, clicks'[b].told = "created"
                   PROVE  pages'[e].left
        OBVIOUS
      <4>1. CASE b = c
        <5>1. what = "created"
          BY <1>2, <1>3, <4>1
        <5>2. pages'[e] = Released(pages[by], what)
          BY <1>1, <2>2, <5>1
        <5>3. QED
          BY <1>7, <2>2, <5>1, <5>2
      <4>2. CASE b # c
        <5>1. pages[e].left
          BY <1>3, <1>9, <4>2 DEF Orderly
        <5>2. QED
          BY <1>5, <1>7, <2>2, <5>1
      <4>3. QED
        BY <4>1, <4>2
    <3>6. QED
      BY <1>1, <3>3, <3>4, <3>5 DEF Orderly
  <2>3. QED
    BY <2>1, <2>2
<1>10. QED
  BY <1>8, <1>9, ReasonStays

LEMMA ClickActionsReason ==
    ASSUME SubmissionInv, SubmissionInv', ReasonInv, NEW c \in DOMAIN clicks,
           \/ FilesRead(c) \/ FilesUnreadable(c) \/ Answered(c) \/ ConnectionBreaks(c)
           \/ Receive(c) \/ Build(c) \/ CreateRequest(c) \/ DatabaseFails(c)
    PROVE  ReasonInv'
<1>1. clicks[c] \in Click /\ pages \in [Employees -> Page]
  BY DEF SubmissionInv, TypeOK
<1>2. ASSUME pages' = pages, NEW x, clicks' = [clicks EXCEPT ![c] = x], Silent(clicks[c], x)
      PROVE  ReasonInv'
  BY <1>2, SilentReason
<1>3. CASE FilesRead(c)
  <2> DEFINE x == Sent(clicks[c], Captured(c))
  <2>1. clicks' = [clicks EXCEPT ![c] = x] /\ Silent(clicks[c], x)
    BY <1>1, <1>3, SilentSteps DEF FilesRead
  <2>2. ASSUME NEW e \in Employees
        PROVE  /\ pages'[e].switches = pages[e].switches /\ pages'[e].left = pages[e].left
               /\ pages'[e].fetching = pages[e].fetching
               /\ pages[e].loading => pages'[e].loading
    <3>1. pages[e] \in Page
      BY <1>1
    <3>2. pages'[e] = pages[e] \/ pages'[e] = [pages[e] EXCEPT !.loading = TRUE]
      BY <1>1, <1>3 DEF FilesRead
    <3>3. QED
      BY <3>1, <3>2 DEF Page
  <2> HIDE DEF x
  <2>3. QED
    BY <2>1, <2>2, SilentReason
<1>4. CASE FilesUnreadable(c)
  BY <1>4, ToldReason DEF FilesUnreadable
<1>5. CASE Answered(c) \/ ConnectionBreaks(c)
  <2>1. PICK what \in {"created", "failed"} : Learn(c, what) /\ clicks[c].told = "nothing"
    BY <1>5 DEF Answered, ConnectionBreaks
  <2>2. QED
    BY <2>1, ToldReason DEF Learn
<1>6. CASE Refuse(c)
  <2>1. clicks' = [clicks EXCEPT ![c] = MovedTo(clicks[c], "refused")] /\ pages' = pages
    BY <1>6 DEF Refuse, Moves
  <2>2. QED
    BY <1>1, <1>2, <2>1, SilentSteps
<1>7. CASE Receive(c) /\ ~Refuse(c)
  <2>1. pages' = pages /\ \E number : clicks' = [clicks EXCEPT ![c] = Numbered(clicks[c], number)]
    BY <1>7 DEF Receive
  <2>2. QED
    BY <1>1, <1>2, <2>1, SilentSteps
<1>8. CASE Build(c) /\ ~Refuse(c)
  <2>1. pages' = pages /\ \E record : clicks' = [clicks EXCEPT ![c] = Built(clicks[c], record)]
    BY <1>8 DEF Build
  <2>2. QED
    BY <1>1, <1>2, <2>1, SilentSteps
<1>9. CASE CreateRequest(c) /\ ~Refuse(c)
  <2>1. pages' = pages /\ clicks' = [clicks EXCEPT ![c] = MovedTo(clicks[c], "stored")]
    BY <1>9 DEF CreateRequest, Moves
  <2>2. QED
    BY <1>1, <1>2, <2>1, SilentSteps
<1>10. QED
  BY <1>3, <1>4, <1>5, <1>6, <1>7, <1>8, <1>9 DEF DatabaseFails

LEMMA InitReason == Init => ReasonInv
<1> SUFFICES ASSUME Init PROVE ReasonInv
  OBVIOUS
<1>1. clicks = <<>> /\ DOMAIN clicks = {}
  BY DEF Init
<1>2. \A e \in Employees : pages[e].fetching = 1 /\ pages[e].loading = TRUE
  BY DEF Init
<1>3. \A e \in Employees : Orderly(e, clicks, pages[e])
  BY <1>1, <1>2 DEF Orderly
<1>4. Explained(clicks, pages)
  BY <1>1 DEF Explained
<1>5. QED
  BY <1>3, <1>4 DEF ReasonInv

LEMMA StepReason == SubmissionInv /\ ReasonInv /\ [Next]_vars => ReasonInv'
<1> SUFFICES ASSUME SubmissionInv, ReasonInv, [Next]_vars PROVE ReasonInv'
  OBVIOUS
<1>1. SubmissionInv'
  BY StepInv
<1>2. CASE UNCHANGED <<clicks, pages>>
  BY <1>2 DEF ReasonInv
<1>3. ASSUME NEW e \in Employees,
             \/ Fill(e) \/ ChooseFiles(e) \/ ClickSubmit(e) \/ SwitchLanguage(e)
             \/ ManagersListed(e) \/ RequestsListed(e)
      PROVE  ReasonInv'
  BY <1>3, PageActionsReason, ClickSubmitReason
<1>4. ASSUME NEW c \in DOMAIN clicks,
             \/ FilesRead(c) \/ FilesUnreadable(c) \/ Answered(c) \/ ConnectionBreaks(c)
             \/ Receive(c) \/ Build(c) \/ CreateRequest(c) \/ DatabaseFails(c)
      PROVE  ReasonInv'
  BY <1>1, <1>4, ClickActionsReason
<1>5. CASE NextDay
  BY <1>2, <1>5 DEF NextDay
<1>6. QED
  BY <1>2, <1>3, <1>4, <1>5 DEF Next, vars

\* Nobody submits a form twice unless the page gave a reason to: without files and
\* without a change of language, only after a failure was reported (handleSubmit,
\* useRequests).
THEOREM DuplicatesAreExplained == Spec => []DuplicatesHaveAReason
<1>1. ReasonInv => DuplicatesHaveAReason
  BY DEF ReasonInv, Explained, Hasty, DuplicatesHaveAReason
<1>2. QED
  BY <1>1, InitReason, StepReason, AlwaysInv, PTL DEF Spec

\* What the pages and the server keep has its type (NewRequestPage.tsx,
\* requestRepository.ts).
THEOREM TypeCorrect == Spec => []TypeOK
<1>1. SubmissionInv => TypeOK
  BY DEF SubmissionInv
<1>2. QED
  BY <1>1, AlwaysInv, PTL
=============================================================================
