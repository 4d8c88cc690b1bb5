------------------------- MODULE RequestSubmission -------------------------
(***************************************************************************)
(* A travel request from the form to the store: NewRequestPage.tsx,        *)
(* useRequest.ts and requestApi.ts in the browser; POST /requests,         *)
(* createNewRequest and the two adapters' nextRequestId and createRequest  *)
(* on the server.                                                          *)
(*                                                                         *)
(* Handlers interleave at every await.  A connection may break at any time *)
(* after a request was sent, before or after it is handled.                *)
(***************************************************************************)
EXTENDS TravelDatePolicy, TransportationRates

CONSTANTS
    Employees,    \* each at one page for a new request
    Managers,     \* users that may hold the role
    Nobody,       \* no manager chosen, none found
    Adapters,     \* the storage modes: "memory", "postgres"
    Drafts,       \* what an employee may have typed, but for manager and files, per adapter
    FirstDay,     \* the day on which the pages are opened
    MaxClicks,    \* bound: submissions of all pages together, per adapter
    MaxSwitches   \* bound: changes of language, per page

Trip == {"one-way", "round-trip"}
Transport == {"personal-car", "company-car", "other"}

Form == [manager : Managers \union {Nobody}, level : BOOLEAN, from : STRING, to : STRING,
         departure : Date, trip : Trip, hours : Int, transport : Transport, amount : Nat,
         purpose : BOOLEAN]

ASSUME SubmissionAssumption ==
    /\ Nobody \notin Managers
    /\ Drafts \in [Adapters -> SUBSET Form]
    /\ IsDay(FirstDay) /\ FirstDay.month > 1
    /\ Adapters \subseteq {"memory", "postgres"}
    /\ MaxClicks \in [Adapters -> Nat] /\ MaxSwitches \in Nat

VARIABLES
    adapter, today,   \* the server's store and clock
    lastNumber,       \* travel_request_number_seq
    requests,         \* the stored requests, the newest first
    pages,            \* what each page keeps
    clicks            \* every submission that passed its page's checks

vars == <<adapter, today, lastNumber, requests, pages, clicks>>

\* hours: from the departure to the return.
Body == [form : Form, files : BOOLEAN, hours : Int]

Number == [year : Nat, sequence : Nat \ {0}]

TravelRequest == [number : Number, employee : Employees, body : Body, claim : Nat]

\* fetching: the list of requests is asked for; asking: the list of managers.
\* loading: useRequests.loading, which disables the button.
Page == [form : Form, files : BOOLEAN, options : SUBSET Managers, asking : BOOLEAN,
         fetching : Nat, loading : BOOLEAN, left : BOOLEAN, switches : Nat]

Unset == <<>>

\* told: what the page has learned of a submission.  body, number, record: set
\* when it is sent, when it is numbered, and when the handler has built them.
Click == [by : Employees, shown : Form, files : BOOLEAN, body : Body \union {Unset},
          at : {"reading", "sent", "numbered", "built", "stored", "refused"},
          number : Number \union {Unset}, record : TravelRequest \union {Unset},
          told : {"nothing", "created", "failed"}]

TypeOK ==
    /\ adapter \in Adapters /\ IsDay(today) /\ today.month > 1
    /\ lastNumber \in Nat
    /\ requests \in Seq(TravelRequest)
    /\ pages \in [Employees -> Page]
    /\ clicks \in Seq(Click)

Init ==
    /\ adapter \in Adapters
    /\ today = FirstDay
    /\ lastNumber = 0
    /\ requests = <<>>
    /\ pages \in [Employees ->
         {[form |-> d, files |-> FALSE, options |-> {}, asking |-> TRUE, fetching |-> 1,
           loading |-> TRUE, left |-> FALSE, switches |-> 0] : d \in Drafts[adapter]}]
    /\ clicks = <<>>

-----------------------------------------------------------------------------
(* The page. *)

PageChanges == UNCHANGED <<adapter, today, lastNumber, requests, clicks>>

Open(e) == ~pages[e].left

\* handleChange, once or several times.
Fill(e) ==
    /\ Open(e)
    /\ \E d \in Drafts[adapter], m \in pages[e].options \union {pages[e].form.manager} :
         pages' = [pages EXCEPT ![e] = [@ EXCEPT !.form = [d EXCEPT !.manager = m]]]
    /\ PageChanges

\* handleFileChange: images that are too many, too large or of another type
\* clear the selection.
ChooseFiles(e) ==
    /\ Open(e)
    /\ \E chosen \in {"none", "images", "unusable"} :
         pages' = [pages EXCEPT ![e] = [@ EXCEPT !.files = (chosen = "images")]]
    /\ PageChanges

\* Who is an active manager when the server asks: a directory import may
\* change it at any time, the fixtures of the memory adapter stay.
ActiveManagers == IF adapter = "memory" THEN {Managers} ELSE SUBSET Managers

WithOptions(page, answer, m) ==
    [page EXCEPT !.options = answer, !.asking = FALSE, !.form = [@ EXCEPT !.manager = m]]

\* The first manager of the list is chosen for whoever has chosen none.
ManagersListed(e) ==
    /\ Open(e) /\ pages[e].asking
    /\ \E answer \in ActiveManagers \union {{}} :
       \E m \in IF pages[e].form.manager = Nobody /\ answer # {}
                THEN answer ELSE {pages[e].form.manager} :
         pages' = [pages EXCEPT ![e] = WithOptions(@, answer, m)]
    /\ PageChanges

Fetched(page) == [page EXCEPT !.fetching = @ - 1, !.loading = FALSE]

\* fetchRequests ends, with the list or with an error.
RequestsListed(e) ==
    /\ Open(e) /\ pages[e].fetching > 0
    /\ pages' = [pages EXCEPT ![e] = Fetched(@)]
    /\ PageChanges

Reloading(page) ==
    [page EXCEPT !.asking = TRUE, !.fetching = @ + 1, !.loading = TRUE, !.switches = @ + 1]

\* A new localizeError runs both effects again; the old managers' effect is
\* cancelled, the old fetch of the requests is not.
SwitchLanguage(e) ==
    /\ Open(e) /\ pages[e].switches < MaxSwitches
    /\ pages' = [pages EXCEPT ![e] = Reloading(@)]
    /\ PageChanges

Complete(form, files) ==
    /\ form.manager # Nobody
    /\ form.level /\ form.purpose
    /\ form.transport = "personal-car" => files

\* A one-way trip ends when it starts.
PostedBody(form, files) ==
    [form |-> form, files |-> files,
     hours |-> IF form.trip = "one-way" THEN 0 ELSE form.hours]

\* Mutant of Submittable: the button stays enabled.
SubmittableWhileLoading(e) == Open(e)

Submittable(e) == Open(e) /\ ~pages[e].loading

NewClick(e, form, files) ==
    [by |-> e, shown |-> form, files |-> files, told |-> "nothing",
     at |-> IF files THEN "reading" ELSE "sent",
     body |-> IF files THEN Unset ELSE PostedBody(form, files),
     number |-> Unset, record |-> Unset]

\* addRequest starts at once when there is no file to read.
Sending(page, files) == [page EXCEPT !.loading = @ \/ ~files]

\* The form is captured now; the files are read before the button is disabled.
ClickSubmit(e) ==
    LET form == pages[e].form
        files == pages[e].files
    IN  /\ Len(clicks) < MaxClicks[adapter]
        /\ Submittable(e) /\ Complete(form, files)
        /\ clicks' = Append(clicks, NewClick(e, form, files))
        /\ pages' = [pages EXCEPT ![e] = Sending(@, files)]
        /\ UNCHANGED <<adapter, today, lastNumber, requests>>

\* Mutant of Captured: the form is read after the files.
FormAfterReading(c) ==
    PostedBody(pages[clicks[c].by].form, pages[clicks[c].by].files)

\* What a submission carries is what its click captured.
Captured(c) == PostedBody(clicks[c].shown, clicks[c].files)

Sent(click, body) == [click EXCEPT !.at = "sent", !.body = body]

FilesRead(c) ==
    /\ clicks[c].at = "reading" /\ clicks[c].told = "nothing"
    /\ clicks' = [clicks EXCEPT ![c] = Sent(@, Captured(c))]
    /\ pages' = [pages EXCEPT ![clicks[c].by] = [@ EXCEPT !.loading = TRUE]]
    /\ UNCHANGED <<adapter, today, lastNumber, requests>>

Told(click, what) == [click EXCEPT !.told = what]

FilesUnreadable(c) ==
    /\ clicks[c].at = "reading" /\ clicks[c].told = "nothing"
    /\ clicks' = [clicks EXCEPT ![c] = Told(@, "failed")]
    /\ UNCHANGED <<adapter, today, lastNumber, requests, pages>>

\* finally: the button is enabled, and a page that succeeded navigates away.
Released(page, what) == [page EXCEPT !.loading = FALSE, !.left = @ \/ what = "created"]

Learn(c, what) ==
    /\ clicks' = [clicks EXCEPT ![c] = Told(@, what)]
    /\ pages' = [pages EXCEPT ![clicks[c].by] = Released(@, what)]
    /\ UNCHANGED <<adapter, today, lastNumber, requests>>

\* authorizedView looks the employee up after the commit, and may fail.
Answered(c) ==
    /\ clicks[c].told = "nothing"
    /\ \/ clicks[c].at = "stored" /\ Learn(c, "created")
       \/ clicks[c].at = "stored" /\ adapter = "postgres" /\ Learn(c, "failed")
       \/ clicks[c].at = "refused" /\ Learn(c, "failed")

\* The page cannot tell whether the request was handled, or will be.
ConnectionBreaks(c) ==
    /\ clicks[c].told = "nothing" /\ clicks[c].at # "reading"
    /\ Learn(c, "failed")

-----------------------------------------------------------------------------
(* The server. *)

ValidBody(b) ==
    /\ b.form.from # b.form.to
    /\ IF b.form.trip = "one-way" THEN b.hours = 0 ELSE b.hours > 0
    /\ b.form.transport = "personal-car" => b.files
    /\ b.form.level /\ b.form.purpose

Stored(number) == \E i \in DOMAIN requests : requests[i].number = number

MovedTo(click, at) == [click EXCEPT !.at = at]

Moves(c, at) == clicks' = [clicks EXCEPT ![c] = MovedTo(@, at)]

Refuse(c) == Moves(c, "refused") /\ UNCHANGED <<adapter, today, lastNumber, requests, pages>>

\* The highest number stored for the year.
Taken(year) == {requests[i].number.sequence :
                  i \in {j \in DOMAIN requests : requests[j].number.year = year}}

HighestSequence(year) ==
    IF Taken(year) = {} THEN 0 ELSE CHOOSE n \in Taken(year) : \A k \in Taken(year) : k <= n

\* Mutant of NextSequence: the highest number is used again.
LastSequence == IF adapter = "memory" THEN HighestSequence(Year(today)) ELSE lastNumber

NextSequence == IF adapter = "memory" THEN HighestSequence(Year(today)) + 1
                ELSE lastNumber + 1

Numbered(click, number) == [click EXCEPT !.at = "numbered", !.number = number]

Receive(c) ==
    /\ clicks[c].at = "sent"
    /\ IF ~ValidBody(clicks[c].body) THEN Refuse(c)
       ELSE /\ clicks' = [clicks EXCEPT ![c] =
                            Numbered(@, [year |-> Year(today), sequence |-> NextSequence])]
            /\ lastNumber' = IF adapter = "memory" THEN lastNumber ELSE NextSequence
            /\ UNCHANGED <<adapter, today, requests, pages>>

\* The fare of a trip by car for which no amount is claimed, both ways.
ClaimedCost(b) ==
    LET fare == IF b.form.transport = "personal-car" THEN TangoFare(b.form.to)
                                                     ELSE TrainFare(b.form.to)
    IN  IF b.form.amount > 0 \/ b.form.transport = "other" THEN b.form.amount
        ELSE IF b.form.trip = "round-trip" THEN 2 * fare ELSE fare

NewRequest(c) ==
    [number |-> clicks[c].number, employee |-> clicks[c].by, body |-> clicks[c].body,
     claim |-> ClaimedCost(clicks[c].body)]

Built(click, record) == [click EXCEPT !.at = "built", !.record = record]

\* createNewRequest
Build(c) ==
    /\ clicks[c].at = "numbered"
    /\ \E managers \in ActiveManagers :
         LET form == clicks[c].body.form
         IN  IF /\ IsWithinTravelSubmissionWindow(form.departure, today)
                /\ form.manager \in managers
             THEN /\ clicks' = [clicks EXCEPT ![c] = Built(@, NewRequest(c))]
                  /\ UNCHANGED <<adapter, today, lastNumber, requests, pages>>
             ELSE Refuse(c)

\* Mutant of Insertable: a number that is taken is stored again.
AlwaysInsertable(record) == record \in TravelRequest

\* The memory adapter's check, or the primary key.
Insertable(record) == ~Stored(record.number)

CreateRequest(c) ==
    /\ clicks[c].at = "built"
    /\ IF Insertable(clicks[c].record)
       THEN /\ requests' = <<clicks[c].record>> \o requests
            /\ Moves(c, "stored")
            /\ UNCHANGED <<adapter, today, lastNumber, pages>>
       ELSE Refuse(c)

\* A query fails; nothing remains of a transaction that has not committed.
DatabaseFails(c) ==
    /\ adapter = "postgres"
    /\ clicks[c].at \in {"sent", "numbered", "built"}
    /\ Refuse(c)

-----------------------------------------------------------------------------
(* The surroundings. *)

NextDay ==
    /\ HasTomorrow(today)
    /\ today' = Tomorrow(today)
    /\ UNCHANGED <<adapter, lastNumber, requests, pages, clicks>>

Next ==
    \/ \E e \in Employees :
         \/ Fill(e) \/ ChooseFiles(e) \/ ClickSubmit(e) \/ SwitchLanguage(e)
         \/ ManagersListed(e) \/ RequestsListed(e)
    \/ \E c \in DOMAIN clicks :
         \/ FilesRead(c) \/ FilesUnreadable(c) \/ Answered(c) \/ ConnectionBreaks(c)
         \/ Receive(c) \/ Build(c) \/ CreateRequest(c) \/ DatabaseFails(c)
    \/ NextDay

Spec == Init /\ [][Next]_vars

-----------------------------------------------------------------------------
(* Properties. *)

\* Two handlers may be given the same number, but no two requests are stored
\* under one (nextRequestId, createRequest).
NumbersAreUnique ==
    \A i, j \in DOMAIN requests : requests[i].number = requests[j].number => i = j

\* The request that a page is told was created is in the store under the number
\* it is told, as its employee had filled in the form when the button was
\* pressed, and priced: with the amount claimed, or for a trip by car without
\* one with a fare (handleSubmit, createNewRequest).
AcknowledgedAsShown ==
    \A c \in DOMAIN clicks : clicks[c].told = "created" =>
      \E i \in DOMAIN requests :
        /\ requests[i].number = clicks[c].number
        /\ requests[i].employee = clicks[c].by
        /\ requests[i].body.form = clicks[c].shown
        /\ requests[i].body.files = clicks[c].files
        /\ IF clicks[c].shown.amount = 0 /\ clicks[c].shown.transport # "other"
           THEN requests[i].claim > 0
           ELSE requests[i].claim = clicks[c].shown.amount

StoredFrom(c) ==
    /\ clicks[c].record # Unset
    /\ \E i \in DOMAIN requests : requests[i] = clicks[c].record

\* An employee who submits a form twice has a reason that the page gave: the
\* first submission was reported as failed, or one of the page's submissions
\* had files to read while the button was still enabled, or the language was
\* changed meanwhile, whose reload enables the button again
\* (NewRequestPage.tsx:193, useRequest.ts:31).
DuplicatesHaveAReason ==
    \A c, d \in DOMAIN clicks :
      /\ c < d /\ clicks[c].by = clicks[d].by
      /\ clicks[c].number # clicks[d].number
      /\ StoredFrom(c) /\ StoredFrom(d)
      => \/ clicks[c].told = "failed"
         \/ \E b \in 1..(d - 1) : clicks[b].by = clicks[d].by /\ clicks[b].files
         \/ pages[clicks[c].by].switches > 0

\* The earliest day a trip may have taken place never moves back as days go by:
\* a trip that is refused today is not accepted tomorrow (travelDatePolicy.ts).
WindowMovesForward ==
    [][Precedes(EarliestTravelDate(today), EarliestTravelDate(today'))]_today
=============================================================================
