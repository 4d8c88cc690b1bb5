----------------------- MODULE BrowserServices_proofs -----------------------
(* Theorems of what runs in the browser: BrowserSession, against the server,  *)
(* and DevelopmentRepository, in its place.  Neither is part of the other.    *)
EXTENDS BrowserSession, DevelopmentRepository, SequenceTheorems, TLAPS

(***************************************************************************)
(* BrowserSession.  For any number of tabs, calls, users and sessions: what*)
(* the server writes for a tab, it writes as the user the tab shows.  The  *)
(* argument follows the token: a tab's token belongs to a session of the   *)
(* user it shows, the call carries both, and the server compares the token *)
(* with the cookie's session before it looks for a user.                   *)
(***************************************************************************)

\* Token k, where there is one, is that of a session of user u.
Matches(k, u, iss) == k # Nil => k \in DOMAIN iss /\ u = iss[k]

GoodTab(tab, iss) == tab \in TabState /\ Matches(tab.csrf, tab.user, iss)

\* What holds of a call a at each point of its way.
GoodCall(a, iss, m) ==
    /\ a \in Call
    /\ a.setCookie \in DOMAIN iss \union {0, Nil}
    /\ a.kind = "login" => m # "iis"
    /\ a.kind = "write" => Matches(a.token, a.shown, iss)
    /\ a.at = "finding" =>
          a.session \in DOMAIN iss /\ (a.kind = "write" => a.session = a.token)
    /\ a.at = "entering" => m = "iis" /\ (a.kind = "write" => a.token # Nil)
    /\ a.at = "answered" /\ a.status = "ok" =>
          /\ a.kind = "write" =>
                /\ a.session \in DOMAIN iss /\ iss[a.session] = a.shown
                /\ a.session = a.token \/ (m = "iis" /\ a.session > a.token)
          /\ a.kind \in {"me", "login"} => Matches(a.csrf, a.user, iss)

\* The inductive invariant.
SessionInv ==
    /\ issued \in Seq(Users) /\ live \subseteq DOMAIN issued
    /\ cookie \in DOMAIN issued \union {Nil}
    /\ mode \in {"iis", "password"} /\ active \subseteq Users
    /\ mode = "iis" => \A s \in DOMAIN issued : issued[s] = Identity
    /\ tabs \in [Tabs -> TabState] /\ \A t \in Tabs : GoodTab(tabs[t], issued)
    /\ calls \in [Calls -> Call \union {Free}]
    /\ \A c \in Calls : calls[c] = Free \/ GoodCall(calls[c], issued, mode)

LEMMA FreeIsFree == Free.at = "free" /\ \A a \in Call : a.at # "free"
BY DEF Free, Call

LEMMA GoodTyped ==
    /\ \A tab, iss : GoodTab(tab, iss) => tab \in TabState
    /\ \A a, iss, m : GoodCall(a, iss, m) => a \in Call
BY DEF GoodTab, GoodCall

\* A call or a tab that is good stays good when more sessions are issued.
LEMMA GoodStays ==
    ASSUME NEW iss \in Seq(Users), NEW u \in Users, NEW m
    PROVE  /\ \A a : GoodCall(a, iss, m) => GoodCall(a, Append(iss, u), m)
           /\ \A tab : GoodTab(tab, iss) => GoodTab(tab, Append(iss, u))
<1>1. /\ DOMAIN iss \subseteq DOMAIN Append(iss, u)
      /\ \A k \in DOMAIN iss : Append(iss, u)[k] = iss[k]
  OBVIOUS
<1>2. \A k, v : Matches(k, v, iss) => Matches(k, v, Append(iss, u))
  BY <1>1 DEF Matches
<1>3. QED
  BY <1>1, <1>2 DEF GoodCall, GoodTab

LEMMA NewSession ==
    ASSUME NEW iss \in Seq(Users), NEW u \in Users
    PROVE  /\ Append(iss, u) \in Seq(Users)
           /\ DOMAIN Append(iss, u) = DOMAIN iss \union {Len(iss) + 1}
           /\ Append(iss, u)[Len(iss) + 1] = u
           /\ \A k \in DOMAIN iss : Append(iss, u)[k] = iss[k]
           /\ Len(iss) + 1 \in Token
BY DEF Token

\* A tab makes a call: the token it sends is that of the user it shows.
LEMMA NewCallIsGood ==
    ASSUME SessionInv, NEW t \in Tabs, NEW kind \in Kind, kind = "login" => mode # "iis"
    PROVE  GoodCall(NewCall(t, kind), issued, mode)
<1>1. tabs[t] \in TabState /\ Matches(tabs[t].csrf, tabs[t].user, issued)
  BY DEF SessionInv, GoodTab
<1>2. /\ tabs[t].user \in Users \union {Nil}
      /\ tabs[t].csrf \in Token \union {Nil}
      /\ cookie \in Token \union {Nil}
  BY <1>1 DEF TabState, SessionInv, Token
<1>3. NewCall(t, kind) \in Call
  BY <1>2 DEF NewCall, Call, Kind
<1>4. QED
  BY <1>1, <1>3 DEF NewCall, GoodCall

\* What an answer, or a lost connection, leaves in the tab.
LEMMA ContinuedIsGood ==
    ASSUME NEW iss, NEW tab, GoodTab(tab, iss), NEW a \in Call,
           a.status = "ok" /\ a.kind \in {"me", "login"} => Matches(a.csrf, a.user, iss)
    PROVE  GoodTab(Continued(tab, a), iss)
<1>1. a.user \in Users \union {Nil} /\ a.csrf \in Token \union {Nil}
  BY DEF Call
<1>2. GoodTab(Blank, iss)
  BY DEF Blank, GoodTab, TabState, Matches
<1>3. CASE a.kind = "me"
  BY <1>1, <1>2, <1>3 DEF Continued, Restored, GoodTab, TabState
<1>4. CASE a.kind = "login"
  BY <1>1, <1>4 DEF Continued, LoggedIn, GoodTab, TabState
<1>5. CASE a.kind \notin {"me", "login"}
  BY <1>5 DEF Continued, AfterFailure, GoodTab, TabState, Matches
<1>6. QED
  BY <1>3, <1>4, <1>5

\* A call that has been refused makes no claim but that of its token.
LEMMA RefusedIsGood ==
    ASSUME NEW a \in Call, NEW iss, NEW m,
           a.setCookie \in DOMAIN iss \union {0, Nil}, a.kind = "login" => m # "iis",
           a.kind = "write" => Matches(a.token, a.shown, iss),
           a.at = "answered", a.status # "ok"
    PROVE  GoodCall(a, iss, m)
BY DEF GoodCall

LEMMA AnswerType ==
    ASSUME NEW c \in Calls, calls[c] \in Call, NEW status \in {"ok", "401", "403"},
           NEW u \in Users \union {Nil}, NEW k \in Token \union {Nil}, NEW set \in Nat \union {Nil}
    PROVE  LET a == Answer(c, status, u, k, set)
           IN  /\ a \in Call
               /\ a.at = "answered" /\ a.status = status /\ a.user = u /\ a.csrf = k
               /\ a.kind = calls[c].kind /\ a.token = calls[c].token
               /\ a.shown = calls[c].shown /\ a.session = calls[c].session
               /\ a.tab = calls[c].tab /\ a.setCookie = set
<1> DEFINE a == Answer(c, status, u, k, set)
<1>1. a.at = "answered" /\ a.status = status /\ a.user = u /\ a.csrf = k
      /\ a.kind = calls[c].kind /\ a.token = calls[c].token
      /\ a.shown = calls[c].shown /\ a.session = calls[c].session
      /\ a.tab = calls[c].tab /\ a.setCookie = set
  BY DEF Answer, Call
<1>2. a \in Call
  <2> DEFINE b == calls[c]
             a1 == [b EXCEPT !.at = "answered"]
             a2 == [a1 EXCEPT !.cookie = Nil]
             a3 == [a2 EXCEPT !.status = status]
             a4 == [a3 EXCEPT !.user = u]
             a5 == [a4 EXCEPT !.csrf = k]
             a6 == [a5 EXCEPT !.setCookie = set]
  <2>0. a6 = a
    BY DEF Answer
  <2>1. b \in Call
    OBVIOUS
  <2> HIDE DEF b
  <2>2. a1 \in Call
    BY <2>1 DEF Call
  <2> HIDE DEF a1
  <2>3. a2 \in Call
    BY <2>2 DEF Call
  <2> HIDE DEF a2
  <2>4. a3 \in Call
    BY <2>3 DEF Call
  <2> HIDE DEF a3
  <2>5. a4 \in Call
    BY <2>4 DEF Call
  <2> HIDE DEF a4
  <2>6. a5 \in Call
    BY <2>5 DEF Call
  <2> HIDE DEF a5
  <2>7. a6 \in Call
    BY <2>6 DEF Call
  <2>8. QED
    BY <2>0, <2>7
<1>3. QED
  BY <1>1, <1>2

\* What a step must show: each call and tab is good for the sessions there
\* were, or for those there are.
LEMMA StepKeeps ==
    ASSUME SessionInv, mode' = mode,
           \/ issued' = issued
           \/ \E u \in Users : issued' = Append(issued, u) /\ (mode = "iis" => u = Identity),
           live' \subseteq DOMAIN issued', cookie' \in DOMAIN issued \union {Nil},
           active' \subseteq Users,
           tabs' \in [Tabs -> TabState], \A t \in Tabs : GoodTab(tabs'[t], issued),
           calls' \in [Calls -> Call \union {Free}],
           \A c \in Calls : \/ calls'[c] = Free
                            \/ GoodCall(calls'[c], issued, mode)
                            \/ GoodCall(calls'[c], issued', mode)
    PROVE  SessionInv'
<1>1. CASE issued' = issued
  BY <1>1 DEF SessionInv
<1>2. ASSUME NEW u \in Users, issued' = Append(issued, u), mode = "iis" => u = Identity
      PROVE  SessionInv'
  <2>1. issued \in Seq(Users)
    BY DEF SessionInv
  <2>2. /\ issued' \in Seq(Users)
        /\ mode' = "iis" => \A s \in DOMAIN issued' : issued'[s] = Identity
    BY <1>2, <2>1, NewSession DEF SessionInv
  <2>3. \A t \in Tabs : GoodTab(tabs'[t], issued')
    BY <1>2, <2>1, GoodStays
  <2>4. \A c \in Calls : calls'[c] = Free \/ GoodCall(calls'[c], issued', mode')
    BY <1>2, <2>1, GoodStays
  <2>5. QED
    BY <2>2, <2>3, <2>4 DEF SessionInv
<1>3. QED
  BY <1>1, <1>2

\* The step of one call on the server, with or without a new session.
LEMMA ServerKeeps ==
    ASSUME SessionInv, UNCHANGED <<mode, active, cookie, tabs>>,
           \/ issued' = issued
           \/ \E u \in Users : issued' = Append(issued, u) /\ (mode = "iis" => u = Identity),
           live' \subseteq DOMAIN issued',
           NEW c \in Calls, NEW a, calls' = [calls EXCEPT ![c] = a],
           GoodCall(a, issued, mode) \/ GoodCall(a, issued', mode)
    PROVE  SessionInv'
<1>1. calls'[c] = a /\ \A d \in Calls \ {c} : calls'[d] = calls[d]
  BY DEF SessionInv
<1>2. \A d \in Calls : \/ calls'[d] = Free
                       \/ GoodCall(calls'[d], issued, mode)
                       \/ GoodCall(calls'[d], issued', mode)
  BY <1>1 DEF SessionInv
<1>3. calls' \in [Calls -> Call \union {Free}]
  BY GoodTyped DEF SessionInv
<1>4. QED
  BY <1>2, <1>3, StepKeeps DEF SessionInv

\* A call that its tab has given up.
LEMMA GivenUp ==
    ASSUME NEW a, NEW iss, NEW m, GoodCall(a, iss, m)
    PROVE  GoodCall([a EXCEPT !.tab = Nil], iss, m)
<1> DEFINE b == [a EXCEPT !.tab = Nil]
<1>1. a \in Call
  BY DEF GoodCall
<1>2. b \in Call
  BY <1>1 DEF Call
<1>3. /\ b.kind = a.kind /\ b.at = a.at /\ b.status = a.status /\ b.token = a.token
      /\ b.shown = a.shown /\ b.session = a.session /\ b.user = a.user /\ b.csrf = a.csrf
      /\ b.setCookie = a.setCookie
  BY <1>1 DEF Call
<1> HIDE DEF b
<1>4. GoodCall(b, iss, m)
  BY <1>2, <1>3 DEF GoodCall
<1>5. QED
  BY <1>4 DEF b

\* A tab makes a call, and no session changes.
LEMMA TabKeeps ==
    ASSUME SessionInv, UNCHANGED server, cookie' = cookie, NEW t \in Tabs,
           \/ tabs' = tabs
           \/ \E tab : GoodTab(tab, issued) /\ tabs' = [tabs EXCEPT ![t] = tab],
           calls' \in [Calls -> Call \union {Free}],
           \A c \in Calls : calls'[c] = Free \/ GoodCall(calls'[c], issued, mode)
    PROVE  SessionInv'
<1>1. tabs' \in [Tabs -> TabState] /\ \A u \in Tabs : GoodTab(tabs'[u], issued)
  BY GoodTyped DEF SessionInv
<1>2. issued' = issued /\ mode' = mode /\ live' = live /\ active' = active
  BY DEF server
<1>3. QED
  BY <1>1, <1>2, StepKeeps DEF SessionInv

LEMMA TabStepKeeps ==
    ASSUME SessionInv, NEW t \in Tabs, NEW c \in Calls,
           Load(t, c) \/ Restore(t, c) \/ SubmitLogin(t, c) \/ Logout(t, c)
              \/ \E kind \in Kind : Use(t, c, kind)
    PROVE  SessionInv'
<1>1. GoodTab(tabs[t], issued) /\ tabs[t] \in TabState
  BY DEF SessionInv, GoodTab
<1>2. \A kind \in Kind : (kind = "login" => mode # "iis") => GoodCall(NewCall(t, kind), issued, mode)
  BY NewCallIsGood
<1>3. \A kind \in Kind : (kind = "login" => mode # "iis") /\ calls' = [calls EXCEPT ![c] = NewCall(t, kind)] =>
          /\ calls' \in [Calls -> Call \union {Free}]
          /\ \A d \in Calls : calls'[d] = Free \/ GoodCall(calls'[d], issued, mode)
  BY <1>2, GoodTyped DEF SessionInv
<1>4. GoodTab([Blank EXCEPT !.loading = TRUE], issued)
  BY DEF Blank, GoodTab, TabState, Matches
<1>5. CASE Load(t, c)
  <2>2. ASSUME NEW d \in Calls
        PROVE  calls'[d] = Free \/ GoodCall(calls'[d], issued, mode)
    <3>1. \A a : GoodCall(a, issued, mode) => GoodCall([a EXCEPT !.tab = Nil], issued, mode)
      BY GivenUp
    <3>2. GoodCall(NewCall(t, "me"), issued, mode)
      BY <1>2 DEF Kind
    <3>3. calls[d] = Free \/ GoodCall(calls[d], issued, mode)
      BY DEF SessionInv
    <3>4. \/ calls'[d] = NewCall(t, "me")
          \/ calls[d].at # "free" /\ calls'[d] = [calls[d] EXCEPT !.tab = Nil]
          \/ calls'[d] = calls[d]
      BY <1>5 DEF Load
    <3>5. QED
      BY <3>1, <3>2, <3>3, <3>4, FreeIsFree
  <2>3. calls' \in [Calls -> Call \union {Free}]
    <3>1. \A d \in Calls : calls'[d] \in Call \union {Free}
      BY <2>2, GoodTyped
    <3>2. QED
      BY <1>5, <3>1 DEF Load
  <2>4. QED
    BY <1>4, <1>5, <2>2, <2>3, TabKeeps DEF Load
<1>6. CASE Restore(t, c)
  <2>1. GoodTab([tabs[t] EXCEPT !.loading = TRUE], issued)
    BY <1>1 DEF GoodTab, TabState
  <2>2. tabs' = [tabs EXCEPT ![t] = [tabs[t] EXCEPT !.loading = TRUE]]
    BY <1>6 DEF Restore, SessionInv
  <2>3. QED
    BY <1>3, <1>6, <2>1, <2>2, TabKeeps DEF Restore, Kind
<1>7. CASE SubmitLogin(t, c)
  BY <1>3, <1>7, TabKeeps DEF SubmitLogin, Kind
<1>8. CASE Logout(t, c)
  <2> DEFINE tab == [[tabs[t] EXCEPT !.user = Nil] EXCEPT !.csrf = Nil]
  <2>1. GoodTab(tab, issued)
    BY <1>1 DEF GoodTab, TabState, Matches
  <2>2. tabs' = [tabs EXCEPT ![t] = tab]
    BY <1>8 DEF Logout, SessionInv
  <2>3. QED
    BY <1>3, <1>8, <2>1, <2>2, TabKeeps DEF Logout, Kind
<1>9. ASSUME NEW kind \in Kind, Use(t, c, kind)
      PROVE  SessionInv'
  BY <1>3, <1>9, TabKeeps DEF Use
<1>10. QED
  BY <1>5, <1>6, <1>7, <1>8, <1>9

----------------------------------------------------------------------------
LEMMA CallType ==
    ASSUME SessionInv, NEW c \in Calls, calls[c].at # "free"
    PROVE  GoodCall(calls[c], issued, mode) /\ calls[c] \in Call
BY FreeIsFree DEF SessionInv, GoodCall

LEMMA RefusalKeeps ==
    ASSUME SessionInv, UNCHANGED <<mode, active, cookie, tabs, issued>>, live' \subseteq live,
           NEW c \in Calls, calls[c].at # "free", NEW status \in {"401", "403"},
           Refuse(c, status)
    PROVE  SessionInv'
<1> DEFINE a == Answer(c, status, Nil, Nil, 0)
<1>1. GoodCall(calls[c], issued, mode) /\ calls[c] \in Call
  BY CallType
<1>2. /\ a \in Call
      /\ a.at = "answered" /\ a.status = status
      /\ a.kind = calls[c].kind /\ a.token = calls[c].token /\ a.shown = calls[c].shown
      /\ a.setCookie = 0
  BY <1>1, AnswerType
<1>3. calls' = [calls EXCEPT ![c] = a]
  BY DEF Refuse
<1> HIDE DEF a
<1>4. GoodCall(a, issued, mode)
  BY <1>1, <1>2, RefusedIsGood DEF GoodCall
<1>5. live' \subseteq DOMAIN issued'
  BY DEF SessionInv
<1>6. QED
  BY <1>3, <1>4, <1>5, ServerKeeps

\* A call moves on without an answer: its place and session change.
Moved(a, at, s) == [[a EXCEPT !.at = at] EXCEPT !.session = s]

LEMMA MovedType ==
    ASSUME NEW a \in Call, NEW at \in {"finding", "entering"}, NEW s \in Token \union {Nil}
    PROVE  LET b == Moved(a, at, s)
           IN  /\ b \in Call
               /\ b.at = at /\ b.session = s
               /\ b.kind = a.kind /\ b.token = a.token /\ b.shown = a.shown
               /\ b.tab = a.tab /\ b.setCookie = a.setCookie
<1> DEFINE a1 == [a EXCEPT !.at = at]
           b == [a1 EXCEPT !.session = s]
<1>1. a1 \in Call /\ a1.at = at /\ a1.kind = a.kind /\ a1.token = a.token /\ a1.shown = a.shown
      /\ a1.tab = a.tab /\ a1.setCookie = a.setCookie
  BY DEF Call
<1> HIDE DEF a1
<1>2. b \in Call /\ b.at = at /\ b.session = s
      /\ b.kind = a1.kind /\ b.token = a1.token /\ b.shown = a1.shown
      /\ b.tab = a1.tab /\ b.setCookie = a1.setCookie
  BY <1>1 DEF Call
<1>3. QED
  BY <1>1, <1>2 DEF a1, Moved

LEMMA HandledKeeps ==
    ASSUME SessionInv, NEW c \in Calls, HandleInSession(c)
    PROVE  SessionInv'
<1> DEFINE a == calls[c]
           s == a.session
           b == Handled(c, s, issued[s], live, 0)
<1>1. a.at = "finding" /\ UNCHANGED <<issued, mode, active, cookie, tabs>> /\ live' \subseteq live
      /\ calls' = [calls EXCEPT ![c] = b]
  BY DEF HandleInSession, End
<1>2. GoodCall(a, issued, mode) /\ a \in Call
  BY <1>1, CallType
<1>3. /\ s \in DOMAIN issued /\ issued \in Seq(Users) /\ live \subseteq DOMAIN issued
      /\ a.kind = "write" => s = a.token
  BY <1>1, <1>2 DEF GoodCall, SessionInv
<1>4. s \in Token /\ issued[s] \in Users
  BY <1>3 DEF Token
<1>5. s # Nil
  BY <1>4, BrowserAssumption DEF Token
<1>6. a.kind = "write" => issued[s] = a.shown
  BY <1>2, <1>3, <1>5 DEF GoodCall, Matches
<1>7. GoodCall(b, issued, mode)
  <2>1. CASE a.kind = "me"
    <3> DEFINE k == IF s \in live THEN s ELSE Nil
    <3>1. b = Answer(c, "ok", issued[s], k, 0)
      BY <2>1 DEF Handled
    <3>2. k \in Token \union {Nil}
      BY <1>4
    <3> HIDE DEF k
    <3>3. /\ b \in Call /\ b.at = "answered" /\ b.user = issued[s] /\ b.csrf = k
          /\ b.kind = "me" /\ b.setCookie = 0
      BY <1>2, <1>4, <2>1, <3>1, <3>2, AnswerType
    <3> HIDE DEF b
    <3>4. QED
      BY <1>3, <3>3 DEF GoodCall, Matches, k
  <2>2. CASE a.kind # "me"
    <3>1. PICK set \in {0, Nil} : b = Answer(c, "ok", Nil, Nil, set)
      BY <2>2 DEF Handled
    <3>2. /\ b \in Call /\ b.setCookie = set /\ b.at = "answered" /\ b.csrf = Nil /\ b.kind = a.kind
          /\ b.token = a.token /\ b.shown = a.shown /\ b.session = s
      BY <1>2, <3>1, AnswerType
    <3> HIDE DEF b
    <3>3. QED
      BY <1>2, <1>3, <1>6, <3>2 DEF GoodCall, Matches
  <2>3. QED
    BY <2>1, <2>2
<1> HIDE DEF b
<1>8. QED
  BY <1>1, <1>3, <1>7, ServerKeeps

LEMMA EnteredKeeps ==
    ASSUME SessionInv, NEW c \in Calls, HandleFromProxy(c)
    PROVE  SessionInv'
<1> DEFINE a == calls[c]
           s == Len(issued) + 1
           h == Handled(c, s, Identity, live', s)
           b == [h EXCEPT !.session = s]
<1>1. /\ a.at = "entering" /\ UNCHANGED <<mode, active, cookie, tabs>>
      /\ issued' = Append(issued, Identity) /\ live' \subseteq live \union {s}
      /\ calls' = [calls EXCEPT ![c] = b]
  BY DEF HandleFromProxy, Issue, NextToken
<1>2. GoodCall(a, issued, mode) /\ a \in Call
  BY <1>1, CallType
<1>3. Identity \in Users /\ issued \in Seq(Users) /\ live \subseteq DOMAIN issued
  BY BrowserAssumption DEF SessionInv
<1>4. /\ s \in DOMAIN issued' /\ issued'[s] = Identity /\ s \in Token /\ s \in Nat
      /\ live' \subseteq DOMAIN issued'
      /\ \A k \in DOMAIN issued : k \in DOMAIN issued' /\ issued'[k] = issued[k]
  BY <1>1, <1>3, NewSession DEF Token
<1>5. a.kind = "write" =>
         /\ Identity = a.shown /\ Matches(a.token, a.shown, issued')
         /\ mode = "iis" /\ s > a.token
  BY <1>1, <1>2, <1>4 DEF GoodCall, Matches, SessionInv
<1>6. GoodCall(b, issued', mode)
  <2> DEFINE u == IF a.kind = "me" THEN Identity ELSE Nil
             k == IF a.kind = "me" /\ s \in live' THEN s ELSE Nil
             set == IF a.kind = "logout" THEN Nil ELSE s
  <2>1. h = Answer(c, "ok", u, k, set)
    BY DEF Handled
  <2>2. u \in Users \union {Nil} /\ k \in Token \union {Nil} /\ set \in Nat \union {Nil}
         /\ set \in DOMAIN issued' \union {0, Nil}
    BY <1>3, <1>4
  <2> HIDE DEF u, k, set, h
  <2>3. /\ h \in Call /\ h.at = "answered" /\ h.status = "ok" /\ h.user = u /\ h.csrf = k
        /\ h.kind = a.kind /\ h.token = a.token /\ h.shown = a.shown /\ h.setCookie = set
    BY <1>2, <2>1, <2>2, AnswerType
  <2>4. /\ b \in Call /\ b.at = "answered" /\ b.user = u /\ b.csrf = k
        /\ b.kind = a.kind /\ b.token = a.token /\ b.shown = a.shown /\ b.session = s
        /\ b.setCookie = set
    BY <1>4, <2>3 DEF Call
  <2> HIDE DEF b
  <2>5. a.kind = "me" => Matches(k, u, issued')
    BY <1>4 DEF Matches, u, k
  <2>6. a.kind = "login" => Matches(k, u, issued')
    BY DEF Matches, k
  <2>7. QED
    BY <1>2, <1>4, <1>5, <2>2, <2>4, <2>5, <2>6 DEF GoodCall
<1> HIDE DEF b
<1>7. QED
  BY <1>1, <1>3, <1>4, <1>6, ServerKeeps

LEMMA LoginKeeps ==
    ASSUME SessionInv, NEW c \in Calls, NEW u \in Users, GrantLogin(c, u)
    PROVE  SessionInv'
<1> DEFINE a == calls[c]
           s == Len(issued) + 1
           b == Answer(c, "ok", u, s, s)
<1>1. /\ a.at = "sent" /\ a.kind = "login" /\ UNCHANGED <<mode, active, cookie, tabs>>
      /\ issued' = Append(issued, u) /\ live' \subseteq live \union {s}
      /\ calls' = [calls EXCEPT ![c] = b]
  BY DEF GrantLogin, Issue, NextToken
<1>2. GoodCall(a, issued, mode) /\ a \in Call
  BY <1>1, CallType
<1>3. issued \in Seq(Users) /\ live \subseteq DOMAIN issued
  BY DEF SessionInv
<1>4. /\ s \in DOMAIN issued' /\ issued'[s] = u /\ s \in Token /\ s \in Nat
      /\ live' \subseteq DOMAIN issued'
  BY <1>1, <1>3, NewSession DEF Token
<1>5. b \in Call /\ b.at = "answered" /\ b.kind = "login" /\ b.csrf = s /\ b.user = u
      /\ b.setCookie = s
  BY <1>1, <1>2, <1>4, AnswerType
<1> HIDE DEF b
<1>6. GoodCall(b, issued', mode)
  BY <1>1, <1>2, <1>4, <1>5 DEF GoodCall, Matches
<1>7. mode # "iis"
  BY <1>1, <1>2 DEF GoodCall
<1>8. QED
  BY <1>1, <1>3, <1>4, <1>6, <1>7, ServerKeeps

LEMMA ServerStepKeeps ==
    ASSUME SessionInv, NEW c \in Calls, ServerStep(c)
    PROVE  SessionInv'
<1> DEFINE a == calls[c]
<1>0. calls[c].at # "free"
  BY DEF ServerStep, RefuseForgery, FindSession, MissSession, FindNobody, HandleInSession,
         HandleFromProxy, RefuseIdentity, GrantLogin, RefuseLogin
<1>1. GoodCall(a, issued, mode) /\ a \in Call
  BY <1>0, CallType
<1>2. live \subseteq DOMAIN issued /\ issued \in Seq(Users) /\ DOMAIN issued \subseteq Token
  BY DEF SessionInv, Token
<1>3. CASE RefuseForgery(c)
  BY <1>0, <1>3, RefusalKeeps DEF RefuseForgery, server
<1>4. CASE FindSession(c)
  <2> DEFINE b == Moved(a, "finding", a.cookie)
  <2>1. /\ calls' = [calls EXCEPT ![c] = b]
        /\ a.cookie \in live /\ PassesCsrf(c) /\ UNCHANGED <<server, cookie, tabs>>
    BY <1>4 DEF FindSession, SessionInv, Moved
  <2>2. a.kind = "write" => a.token = a.cookie
    BY <1>2, <2>1, BrowserAssumption DEF PassesCsrf, ValidCsrfToken, Token
  <2>3. a.cookie \in Token \union {Nil} /\ a.cookie \in DOMAIN issued
    BY <1>2, <2>1
  <2>4. /\ b \in Call /\ b.at = "finding" /\ b.session = a.cookie
        /\ b.kind = a.kind /\ b.token = a.token /\ b.shown = a.shown
        /\ b.setCookie = a.setCookie
    BY <1>1, <2>3, MovedType
  <2> HIDE DEF b
  <2>5. GoodCall(b, issued, mode)
    BY <1>1, <2>2, <2>3, <2>4 DEF GoodCall
  <2>6. QED
    BY <1>2, <2>1, <2>5, ServerKeeps DEF server
<1>5. CASE MissSession(c)
  <2>1. UNCHANGED <<issued, mode, active, cookie, tabs>> /\ live' \subseteq live /\ PassesCsrf(c)
    BY <1>5 DEF MissSession, End
  <2>2. CASE mode = "iis"
    <3> DEFINE b == [a EXCEPT !.at = "entering"]
    <3>1. calls' = [calls EXCEPT ![c] = b]
      BY <1>5, <2>2 DEF MissSession, SessionInv
    <3>2. a.kind = "write" => a.token # Nil
      BY <1>2, <2>1, <2>2, BrowserAssumption DEF PassesCsrf, ValidCsrfToken, Token
    <3>3. /\ b \in Call /\ b.at = "entering"
          /\ b.kind = a.kind /\ b.token = a.token /\ b.shown = a.shown
          /\ b.setCookie = a.setCookie
      BY <1>1 DEF Call
    <3> HIDE DEF b
    <3>4. GoodCall(b, issued, mode)
      BY <1>1, <2>2, <3>2, <3>3 DEF GoodCall
    <3>5. QED
      BY <1>2, <2>1, <3>1, <3>4, ServerKeeps
  <2>3. CASE mode # "iis"
    BY <1>0, <1>5, <2>1, <2>3, RefusalKeeps DEF MissSession
  <2>4. QED
    BY <2>2, <2>3
<1>6. CASE FindNobody(c)
  <2>1. a.at = "finding" /\ UNCHANGED <<server, cookie, tabs>>
    BY <1>6 DEF FindNobody
  <2>2. a.kind = "write" => a.token # Nil
    BY <1>1, <1>2, <2>1, BrowserAssumption DEF GoodCall, Token
  <2>3. CASE mode = "iis"
    <3> DEFINE b == Moved(a, "entering", Nil)
    <3>1. calls' = [calls EXCEPT ![c] = b]
      BY <1>6, <2>3 DEF FindNobody, SessionInv, Moved
    <3>2. /\ b \in Call /\ b.at = "entering"
          /\ b.kind = a.kind /\ b.token = a.token /\ b.shown = a.shown
          /\ b.setCookie = a.setCookie
      BY <1>1, MovedType
    <3> HIDE DEF b
    <3>3. GoodCall(b, issued, mode)
      BY <1>1, <2>2, <2>3, <3>2 DEF GoodCall
    <3>4. QED
      BY <1>2, <2>1, <3>1, <3>3, ServerKeeps DEF server
  <2>4. CASE mode # "iis"
    <3> DEFINE r == Answer(c, "401", Nil, Nil, 0)
               b == [r EXCEPT !.session = Nil]
    <3>1. calls' = [calls EXCEPT ![c] = b]
      BY <1>6, <2>4 DEF FindNobody
    <3>2. /\ r \in Call /\ r.at = "answered" /\ r.status = "401"
          /\ r.kind = a.kind /\ r.token = a.token /\ r.shown = a.shown /\ r.setCookie = 0
      BY <1>1, AnswerType
    <3> HIDE DEF r
    <3>3. /\ b \in Call /\ b.at = "answered" /\ b.status = "401"
          /\ b.kind = a.kind /\ b.token = a.token /\ b.shown = a.shown /\ b.setCookie = 0
      BY <3>2 DEF Call
    <3> HIDE DEF b
    <3>4. GoodCall(b, issued, mode)
      BY <1>1, <3>3, RefusedIsGood DEF GoodCall
    <3>5. QED
      BY <1>2, <2>1, <3>1, <3>4, ServerKeeps DEF server
  <2>5. QED
    BY <2>3, <2>4
<1>7. CASE RefuseIdentity(c)
  BY <1>0, <1>7, RefusalKeeps DEF RefuseIdentity, server
<1>8. CASE RefuseLogin(c)
  BY <1>0, <1>8, RefusalKeeps DEF RefuseLogin, server
<1>9. CASE HandleInSession(c)
  BY <1>9, HandledKeeps
<1>10. CASE HandleFromProxy(c)
  BY <1>10, EnteredKeeps
<1>11. ASSUME NEW u \in Users, GrantLogin(c, u)
       PROVE  SessionInv'
  BY <1>11, LoginKeeps
<1>12. QED
  BY <1>3, <1>4, <1>5, <1>6, <1>7, <1>8, <1>9, <1>10, <1>11 DEF ServerStep

----------------------------------------------------------------------------
\* An answer or a lost connection: the tab goes on, the call is over or is
\* given up.
LEMMA TransportKeeps ==
    ASSUME SessionInv, NEW c \in Calls, Deliver(c) \/ Disconnect(c)
    PROVE  SessionInv'
<1> DEFINE a == calls[c]
           n == [a EXCEPT !.status = "network"]
<1>1. GoodCall(a, issued, mode) /\ a \in Call
  BY CallType DEF Deliver, Disconnect
<1>2. a.tab \in Tabs \union {Nil}
  BY <1>1 DEF Call
<1>3. n \in Call /\ n.tab = a.tab /\ n.status = "network"
  BY <1>1 DEF Call
<1>4. /\ calls' \in [Calls -> Call \union {Free}]
      /\ \A d \in Calls : calls'[d] = Free \/ GoodCall(calls'[d], issued, mode)
  BY <1>1, GivenUp, GoodTyped DEF Deliver, Disconnect, SessionInv
<1>5. issued \in Seq(Users) /\ live \subseteq DOMAIN issued
  BY DEF SessionInv
<1> HIDE DEF n
<1>6. ASSUME NEW r \in Call, r.tab = a.tab, tabs' = Resume(r),
             r.status = "ok" /\ r.kind \in {"me", "login"} => Matches(r.csrf, r.user, issued)
      PROVE  tabs' \in [Tabs -> TabState] /\ \A t \in Tabs : GoodTab(tabs'[t], issued)
  <2>1. CASE r.tab = Nil
    BY <1>6, <2>1 DEF Resume, SessionInv
  <2>2. CASE r.tab # Nil
    <3>1. r.tab \in Tabs
      BY <1>2, <1>6, <2>2
    <3>2. GoodTab(Continued(tabs[r.tab], r), issued)
      BY <1>6, <3>1, ContinuedIsGood DEF SessionInv
    <3>3. tabs' = [tabs EXCEPT ![r.tab] = Continued(tabs[r.tab], r)]
      BY <1>6, <2>2 DEF Resume
    <3>4. QED
      BY <3>1, <3>2, <3>3, GoodTyped DEF SessionInv
  <2>3. QED
    BY <2>1, <2>2
<1>7. CASE Deliver(c)
  <2>1. /\ a.at = "answered" /\ tabs' = Resume(a) /\ UNCHANGED server
        /\ cookie' = IF a.setCookie = 0 THEN cookie ELSE a.setCookie
    BY <1>7 DEF Deliver
  <2>2. cookie' \in DOMAIN issued \union {Nil}
    BY <1>1, <2>1 DEF SessionInv, GoodCall
  <2>3. tabs' \in [Tabs -> TabState] /\ \A t \in Tabs : GoodTab(tabs'[t], issued)
    BY <1>1, <1>6, <2>1 DEF GoodCall
  <2>4. QED
    BY <1>4, <1>5, <2>1, <2>2, <2>3, StepKeeps DEF server, SessionInv
<1>8. CASE Disconnect(c)
  <2>1. tabs' = Resume(n) /\ UNCHANGED <<server, cookie>>
    BY <1>8 DEF Disconnect, n
  <2>2. tabs' \in [Tabs -> TabState] /\ \A t \in Tabs : GoodTab(tabs'[t], issued)
    BY <1>3, <1>6, <2>1
  <2>3. QED
    BY <1>4, <1>5, <2>1, <2>2, StepKeeps DEF server, SessionInv
<1>9. QED
  BY <1>7, <1>8

LEMMA SessionStep ==
    ASSUME SessionInv, [Next]_vars
    PROVE  SessionInv'
<1>1. ASSUME UNCHANGED <<issued, mode, cookie, tabs, calls>>, live' \subseteq live,
             active' \subseteq Users
      PROVE  SessionInv'
  BY <1>1 DEF SessionInv
<1>2. CASE UNCHANGED vars
  BY <1>1, <1>2 DEF vars, SessionInv
<1>3. ASSUME NEW t \in Tabs, TabStep(t)
      PROVE  SessionInv'
  BY <1>3, TabStepKeeps DEF TabStep, Kind
<1>4. ASSUME NEW c \in Calls, ServerStep(c) \/ Deliver(c) \/ Disconnect(c)
      PROVE  SessionInv'
  BY <1>4, ServerStepKeeps, TransportKeeps
<1>5. ASSUME NEW s \in live, EndSession(s)
      PROVE  SessionInv'
  BY <1>1, <1>5 DEF EndSession, End, SessionInv
<1>6. ASSUME NEW u \in Users, Import(u)
      PROVE  SessionInv'
  BY <1>1, <1>6 DEF Import, SessionInv
<1>7. QED
  BY <1>2, <1>3, <1>4, <1>5, <1>6 DEF Next

LEMMA SessionInvHolds == Spec => []SessionInv
<1>1. Init => SessionInv
  <2> SUFFICES ASSUME Init PROVE SessionInv
    OBVIOUS
  <2>1. GoodTab(Blank, issued)
    BY DEF Blank, GoodTab, TabState, Matches
  <2>2. QED
    BY <2>1, GoodTyped DEF Init, TableInit, SessionInv
<1>2. SessionInv /\ [Next]_vars => SessionInv'
  BY SessionStep
<1>3. QED
  BY <1>1, <1>2, PTL DEF Spec

\* In whatever order the logins, logouts, late restores and refusals of a tab
\* are answered, its token is that of a session of the user it shows.
THEOREM TabsHoldTheirUsersToken == Spec => []TabHoldsItsUsersToken
<1>1. SessionInv => TabHoldsItsUsersToken
  BY DEF SessionInv, GoodTab, Matches, TabHoldsItsUsersToken, Tokens
<1>2. QED
  BY <1>1, SessionInvHolds, PTL

\* The server never makes a change as another user than the one whose page
\* asked for it, although all tabs share one cookie.
THEOREM WritesAreAttributed == Spec => []WritesAreMadeAsShown
<1>1. SessionInv => WritesAreMadeAsShown
  BY CallType DEF SessionInv, GoodCall, WritesAreMadeAsShown, Performed
<1>2. QED
  BY <1>1, SessionInvHolds, PTL

\* Behind IIS a session may be replaced before a change is made, but only by a later
\* one; otherwise the change is made in the session its token belongs to.
THEOREM WritesKeepTheirSession == Spec => []WritesActInTheirSession
<1>1. SessionInv => WritesActInTheirSession
  BY CallType DEF GoodCall, WritesActInTheirSession, Performed
<1>2. QED
  BY <1>1, SessionInvHolds, PTL

\* What the browser and the server keep has its type; the cookie was issued.
THEOREM TypeCorrect == Spec => []TypeOK
<1>1. SessionInv => TypeOK
  BY DEF SessionInv, TypeOK, Tokens
<1>2. QED
  BY <1>1, SessionInvHolds, PTL

----------------------------------------------------------------------------
(* A tab that restores a session                                           *)

\* The call d takes over from the call a: a tab that waits for one waits for the other.
TakesOver(d, a) == d.at # "free" /\ d.tab = a.tab /\ d.kind = a.kind

LEMMA AnswerTakesOver ==
    ASSUME NEW c \in Calls, calls[c] \in Call, NEW status, NEW u, NEW k, NEW set
    PROVE  LET a == Answer(c, status, u, k, set)
           IN  /\ TakesOver(a, calls[c])
               /\ \A s : TakesOver([a EXCEPT !.session = s], calls[c])
<1> DEFINE a == Answer(c, status, u, k, set)
<1>1. a.at = "answered" /\ a.tab = calls[c].tab /\ a.kind = calls[c].kind
  BY DEF Answer, Call
<1> HIDE DEF a
<1>2. ASSUME NEW s
      PROVE  TakesOver([a EXCEPT !.session = s], calls[c])
  <2> DEFINE b == [a EXCEPT !.session = s]
  <2>1. b.at = a.at /\ b.tab = a.tab /\ b.kind = a.kind
    OBVIOUS
  <2> HIDE DEF b
  <2>2. TakesOver(b, calls[c])
    BY <1>1, <2>1 DEF TakesOver
  <2>3. QED
    BY <2>2 DEF b
<1>3. TakesOver(a, calls[c])
  BY <1>1 DEF TakesOver
<1>4. QED
  BY <1>2, <1>3 DEF a

LEMMA HandledTakesOver ==
    ASSUME NEW c \in Calls, calls[c] \in Call, NEW s, NEW u, NEW table, NEW set
    PROVE  LET h == Handled(c, s, u, table, set)
           IN  TakesOver(h, calls[c]) /\ TakesOver([h EXCEPT !.session = s], calls[c])
<1> DEFINE h == Handled(c, s, u, table, set)
<1>1. PICK v, k, x : h = Answer(c, "ok", v, k, x)
  BY DEF Handled
<1> HIDE DEF h
<1>2. TakesOver(h, calls[c]) /\ \A t : TakesOver([h EXCEPT !.session = t], calls[c])
  BY <1>1, AnswerTakesOver
<1>3. TakesOver([h EXCEPT !.session = s], calls[c])
  BY <1>2
<1>4. QED
  BY <1>2, <1>3 DEF h

LEMMA ServerKeepsCalls ==
    ASSUME SessionInv, NEW c \in Calls, ServerStep(c)
    PROVE  /\ tabs' = tabs
           /\ \E d : TakesOver(d, calls[c]) /\ calls' = [calls EXCEPT ![c] = d]
<1>0. calls[c].at # "free"
  BY DEF ServerStep, RefuseForgery, FindSession, MissSession, FindNobody, HandleInSession,
         HandleFromProxy, RefuseIdentity, GrantLogin, RefuseLogin
<1>1. calls[c] \in Call /\ calls \in [Calls -> Call \union {Free}]
  BY <1>0, CallType DEF SessionInv
<1>2. ASSUME NEW status, Refuse(c, status)
      PROVE  \E d : TakesOver(d, calls[c]) /\ calls' = [calls EXCEPT ![c] = d]
  BY <1>1, <1>2, AnswerTakesOver DEF Refuse
<1>3. \A at, s : TakesOver(Moved(calls[c], at, s), calls[c]) <=> at # "free"
  <2> SUFFICES ASSUME NEW at, NEW s
               PROVE  TakesOver(Moved(calls[c], at, s), calls[c]) <=> at # "free"
    OBVIOUS
  <2> DEFINE b == Moved(calls[c], at, s)
  <2>1. b.at = at /\ b.tab = calls[c].tab /\ b.kind = calls[c].kind
    BY <1>1 DEF Moved, Call
  <2> HIDE DEF b
  <2>2. QED
    BY <2>1 DEF TakesOver, b
<1>4. CASE RefuseForgery(c) \/ RefuseIdentity(c) \/ RefuseLogin(c)
  BY <1>2, <1>4 DEF RefuseForgery, RefuseIdentity, RefuseLogin
<1>5. CASE FindSession(c)
  <2>1. calls' = [calls EXCEPT ![c] = Moved(calls[c], "finding", calls[c].cookie)] /\ tabs' = tabs
    BY <1>1, <1>5 DEF FindSession, Moved
  <2>2. QED
    BY <1>3, <2>1
<1>6. CASE MissSession(c)
  <2>1. CASE mode = "iis"
    <3> DEFINE b == [calls[c] EXCEPT !.at = "entering"]
    <3>1. calls' = [calls EXCEPT ![c] = b] /\ tabs' = tabs
      BY <1>1, <1>6, <2>1 DEF MissSession
    <3>2. TakesOver(b, calls[c])
      BY <1>1 DEF TakesOver, Call
    <3>3. QED
      BY <3>1, <3>2
  <2>2. CASE mode # "iis"
    BY <1>2, <1>6, <2>2 DEF MissSession
  <2>3. QED
    BY <2>1, <2>2
<1>7. CASE FindNobody(c)
  <2>1. CASE mode = "iis"
    <3>1. calls' = [calls EXCEPT ![c] = Moved(calls[c], "entering", Nil)] /\ tabs' = tabs
      BY <1>1, <1>7, <2>1 DEF FindNobody, Moved
    <3>2. QED
      BY <1>3, <3>1
  <2>2. CASE mode # "iis"
    <3> DEFINE b == [Answer(c, "401", Nil, Nil, 0) EXCEPT !.session = Nil]
    <3>1. calls' = [calls EXCEPT ![c] = b] /\ tabs' = tabs
      BY <1>7, <2>2 DEF FindNobody
    <3>2. TakesOver(b, calls[c])
      BY <1>1, AnswerTakesOver
    <3>3. QED
      BY <3>1, <3>2
  <2>3. QED
    BY <2>1, <2>2
<1>8. CASE HandleInSession(c)
  <2> DEFINE b == Handled(c, calls[c].session, issued[calls[c].session], live, 0)
  <2>1. calls' = [calls EXCEPT ![c] = b] /\ tabs' = tabs
    BY <1>8 DEF HandleInSession
  <2>2. TakesOver(b, calls[c])
    BY <1>1, HandledTakesOver
  <2>3. QED
    BY <2>1, <2>2
<1>9. CASE HandleFromProxy(c)
  <2> DEFINE b == [Handled(c, NextToken, Identity, live', NextToken) EXCEPT !.session = NextToken]
  <2>1. calls' = [calls EXCEPT ![c] = b] /\ tabs' = tabs
    BY <1>9 DEF HandleFromProxy
  <2>2. TakesOver(b, calls[c])
    BY <1>1, HandledTakesOver
  <2>3. QED
    BY <2>1, <2>2
<1>10. ASSUME NEW u \in Users, GrantLogin(c, u)
       PROVE  /\ tabs' = tabs
              /\ \E d : TakesOver(d, calls[c]) /\ calls' = [calls EXCEPT ![c] = d]
  <2> DEFINE b == Answer(c, "ok", u, NextToken, NextToken)
  <2>1. calls' = [calls EXCEPT ![c] = b] /\ tabs' = tabs
    BY <1>10 DEF GrantLogin
  <2>2. TakesOver(b, calls[c])
    BY <1>1, AnswerTakesOver
  <2>3. QED
    BY <2>1, <2>2
<1>11. QED
  BY <1>4, <1>5, <1>6, <1>7, <1>8, <1>9, <1>10 DEF ServerStep

\* Call d is the one tab t waits for.
Restores(d, t) == d.at # "free" /\ d.tab = t /\ d.kind = "me"

LEMMA LoadingMeans ==
    LoadingEndsWithACall <=> \A t \in Tabs : tabs[t].loading => \E c \in Calls : Restores(calls[c], t)
BY DEF LoadingEndsWithACall, MadeBy, Restores

\* Tabs that go on restoring keep the call they wait for.
LEMMA CallsTakenOver ==
    ASSUME LoadingEndsWithACall,
           \A t \in Tabs : tabs'[t].loading /\ tabs[t].loading =>
              \A c \in Calls : Restores(calls[c], t) => Restores(calls'[c], t),
           \A t \in Tabs : tabs'[t].loading /\ ~tabs[t].loading =>
              \E c \in Calls : Restores(calls'[c], t)
    PROVE  LoadingEndsWithACall'
BY LoadingMeans DEF LoadingEndsWithACall, MadeBy, Restores

LEMMA TabKeepsLoading ==
    ASSUME SessionInv, LoadingEndsWithACall, NEW t \in Tabs, TabStep(t)
    PROVE  LoadingEndsWithACall'
<1>1. PICK c \in Calls :
        Load(t, c) \/ Restore(t, c) \/ SubmitLogin(t, c) \/ Logout(t, c)
          \/ Use(t, c, "read") \/ Use(t, c, "write")
  BY DEF TabStep
<1>2. calls[c].at = "free"
  BY <1>1 DEF Load, Restore, SubmitLogin, Logout, Use
<1>3. \A u : ~Restores(calls[c], u)
  BY <1>2 DEF Restores
<1>4. Restores(NewCall(t, "me"), t)
  BY DEF NewCall, Restores
<1>5. tabs \in [Tabs -> TabState] /\ calls \in [Calls -> Call \union {Free}]
  BY DEF SessionInv
<1>6. CASE Load(t, c)
  <2>1. /\ calls'[c] = NewCall(t, "me")
        /\ \A d \in Calls \ {c} : calls'[d] = calls[d] \/ calls[d].tab = t
    BY <1>6 DEF Load
  <2>2. \A u \in Tabs \ {t} : tabs'[u] = tabs[u]
    BY <1>5, <1>6 DEF Load
  <2>3. \A d \in Calls, u \in Tabs \ {t} : Restores(calls[d], u) => Restores(calls'[d], u)
    BY <1>3, <2>1 DEF Restores
  <2>4. Restores(calls'[c], t)
    BY <1>4, <2>1
  <2>5. QED
    BY <2>2, <2>3, <2>4, LoadingMeans DEF LoadingEndsWithACall, MadeBy, Restores
<1>7. CASE Restore(t, c)
  <2>1. calls'[c] = NewCall(t, "me") /\ \A d \in Calls \ {c} : calls'[d] = calls[d]
    BY <1>5, <1>7 DEF Restore
  <2>2. \A u \in Tabs \ {t} : tabs'[u] = tabs[u]
    BY <1>5, <1>7 DEF Restore
  <2>3. Restores(calls'[c], t)
    BY <1>4, <2>1
  <2>4. \A d \in Calls, u \in Tabs : Restores(calls[d], u) => Restores(calls'[d], u)
    BY <1>3, <2>1
  <2>5. QED
    BY <2>2, <2>3, <2>4, CallsTakenOver
<1>8. CASE SubmitLogin(t, c) \/ Logout(t, c) \/ Use(t, c, "read") \/ Use(t, c, "write")
  <2>1. \A d \in Calls \ {c} : calls'[d] = calls[d]
    BY <1>5, <1>8 DEF SubmitLogin, Logout, Use
  <2>2. \A u \in Tabs : tabs'[u].loading = tabs[u].loading
    BY <1>5, <1>8 DEF SubmitLogin, Logout, Use, TabState
  <2>3. \A d \in Calls, u \in Tabs : Restores(calls[d], u) => Restores(calls'[d], u)
    BY <1>3, <2>1
  <2>4. QED
    BY <2>2, <2>3, CallsTakenOver
<1>9. QED
  BY <1>1, <1>6, <1>7, <1>8

LEMMA ServerKeepsLoading ==
    ASSUME SessionInv, LoadingEndsWithACall, NEW c \in Calls, ServerStep(c)
    PROVE  LoadingEndsWithACall'
<1>1. PICK d : TakesOver(d, calls[c]) /\ calls' = [calls EXCEPT ![c] = d]
  BY ServerKeepsCalls
<1>2. tabs' = tabs /\ calls \in [Calls -> Call \union {Free}]
  BY ServerKeepsCalls DEF SessionInv
<1>3. calls'[c] = d /\ \A e \in Calls \ {c} : calls'[e] = calls[e]
  BY <1>1, <1>2
<1>4. \A e \in Calls, t \in Tabs : Restores(calls[e], t) => Restores(calls'[e], t)
  BY <1>1, <1>3 DEF TakesOver, Restores
<1>5. QED
  BY <1>2, <1>4, CallsTakenOver

\* However the call of a tab that restores a session ends, it takes the message away.
LEMMA ResumedLoading ==
    ASSUME tabs \in [Tabs -> TabState], NEW a \in Call, tabs' = Resume(a)
    PROVE  /\ \A t \in Tabs : tabs'[t].loading => tabs[t].loading
           /\ a.tab \in Tabs /\ a.kind = "me" => ~tabs'[a.tab].loading
<1>1. a.tab \in Tabs \union {Nil} /\ Nil \notin Tabs
  BY BrowserAssumption DEF Call
<1>2. CASE a.tab = Nil
  BY <1>1, <1>2 DEF Resume
<1>3. CASE a.tab # Nil
  <2>1. a.tab \in Tabs /\ tabs' = [tabs EXCEPT ![a.tab] = Continued(tabs[a.tab], a)]
    BY <1>1, <1>3 DEF Resume
  <2>2. tabs'[a.tab] = Continued(tabs[a.tab], a) /\ \A t \in Tabs \ {a.tab} : tabs'[t] = tabs[t]
    BY <2>1
  <2>3. tabs[a.tab] \in TabState
    BY <2>1
  <2>4. CASE a.kind = "me"
    <3>1. Continued(tabs[a.tab], a).loading = FALSE
      BY <2>4 DEF Continued, Restored, Blank
    <3>2. QED
      BY <2>2, <3>1
  <2>5. CASE a.kind # "me"
    <3>1. Continued(tabs[a.tab], a).loading = tabs[a.tab].loading
      BY <2>3, <2>5 DEF Continued, LoggedIn, AfterFailure, TabState
    <3>2. QED
      BY <2>2, <2>5, <3>1
  <2>6. QED
    BY <2>4, <2>5
<1>4. QED
  BY <1>2, <1>3

LEMMA TransportKeepsLoading ==
    ASSUME SessionInv, LoadingEndsWithACall, NEW c \in Calls, Deliver(c) \/ Disconnect(c)
    PROVE  LoadingEndsWithACall'
<1> DEFINE a == calls[c]
           n == [a EXCEPT !.status = "network"]
<1>1. a \in Call /\ tabs \in [Tabs -> TabState] /\ calls \in [Calls -> Call \union {Free}]
  BY CallType DEF SessionInv, Deliver, Disconnect
<1>2. n \in Call /\ n.tab = a.tab /\ n.kind = a.kind
  BY <1>1 DEF Call
<1>3. \A d \in Calls \ {c} : calls'[d] = calls[d]
  BY <1>1 DEF Deliver, Disconnect
<1> HIDE DEF n
<1>4. tabs' = Resume(a) \/ tabs' = Resume(n)
  BY DEF Deliver, Disconnect, n
<1>5. /\ \A t \in Tabs : tabs'[t].loading => tabs[t].loading
      /\ a.tab \in Tabs /\ a.kind = "me" => ~tabs'[a.tab].loading
  <2>1. CASE tabs' = Resume(a)
    BY <1>1, <2>1, ResumedLoading
  <2>2. CASE tabs' = Resume(n)
    <3>1. /\ \A t \in Tabs : tabs'[t].loading => tabs[t].loading
          /\ n.tab \in Tabs /\ n.kind = "me" => ~tabs'[n.tab].loading
      BY <1>1, <1>2, <2>2, ResumedLoading
    <3>2. QED
      BY <1>2, <3>1
  <2>3. QED
    BY <1>4, <2>1, <2>2
<1>6. ASSUME NEW t \in Tabs, tabs'[t].loading, NEW d \in Calls, Restores(calls[d], t)
      PROVE  Restores(calls'[d], t)
  <2>1. d # c
    BY <1>5, <1>6 DEF Restores
  <2>2. QED
    BY <1>3, <1>6, <2>1
<1>7. QED
  BY <1>5, <1>6, CallsTakenOver

\* A tab never says "restoring" with nobody left to tell it how that went (restore in
\* AuthContext.tsx): not after a reload, a logout, a lost answer or a late one.
THEOREM RestoringTabsHaveACall == Spec => []LoadingEndsWithACall
<1>1. Init => LoadingEndsWithACall
  BY DEF Init, Blank, LoadingEndsWithACall
<1>2. ASSUME SessionInv, LoadingEndsWithACall, [Next]_vars
      PROVE  LoadingEndsWithACall'
  <2>1. ASSUME UNCHANGED <<tabs, calls>>
        PROVE  LoadingEndsWithACall'
    BY <1>2, <2>1 DEF LoadingEndsWithACall, MadeBy
  <2>2. ASSUME NEW t \in Tabs, TabStep(t)
        PROVE  LoadingEndsWithACall'
    BY <1>2, <2>2, TabKeepsLoading
  <2>3. ASSUME NEW c \in Calls, ServerStep(c) \/ Deliver(c) \/ Disconnect(c)
        PROVE  LoadingEndsWithACall'
    BY <1>2, <2>3, ServerKeepsLoading, TransportKeepsLoading
  <2>4. QED
    BY <1>2, <2>1, <2>2, <2>3 DEF Next, vars, EndSession, Import
<1>3. SessionInv /\ LoadingEndsWithACall /\ [Next]_vars => LoadingEndsWithACall'
  BY <1>2
<1>4. QED
  BY <1>1, <1>3, SessionInvHolds, PTL DEF Spec

(***************************************************************************)
(* DevelopmentRepository.  For every set of applicants, forms, figures and *)
(* instants: each operation turns the record it is about into a record     *)
(* whose price is explained and whose trail has the signatures of its      *)
(* stage, and touches no other; the numbers of the requests stay           *)
(* consecutive.  The seeds are such records: two of them come with a       *)
(* revision written by hand, and their amounts are computed here.          *)
(***************************************************************************)

LEMMA DaysType ==
    ASSUME NEW a \in Int, NEW b \in Int
    PROVE  DateDifferenceInDays(a, b) \in Nat
BY DEF DateDifferenceInDays

LEMMA RepositoryRateType == \A level : Rates(level)!SalaryRates(level) \in Nat
BY DEF Rates!SalaryRates

LEMMA FactorType == \A level, type : Rates(level)!AccommodationFactors(type) \in Nat
BY DEF Rates!AccommodationFactors

\* The figures of a record that its amount is made of.
SameFigures(r, q) ==
    /\ q.level = r.level /\ q.accommodationType = r.accommodationType
    /\ q.departureAt = r.departureAt /\ q.returnAt = r.returnAt
    /\ q.sameDayHours = r.sameDayHours /\ q.returnDayHours = r.returnDayHours
    /\ q.cost = r.cost /\ q.bonus = r.bonus /\ q.penalty = r.penalty

LEMMA SameAmount ==
    ASSUME NEW r, NEW q, SameFigures(r, q)
    PROVE  Calculated(q) = Calculated(r)
BY DEF SameFigures, Calculated

\* Whole amounts of a trip of n nights: CalculateSalary.
LEMMA AmountOf ==
    ASSUME NEW r,
           NEW n, n = DateDifferenceInDays(r.departureAt, r.returnAt),
           NEW rate, rate = Rates(r.level)!SalaryRates(r.level),
           NEW factor, factor = Rates(r.level)!AccommodationFactors(r.accommodationType),
           r.sameDayHours \in Int, r.returnDayHours \in Int,
           r.cost \in Int, r.bonus \in Int, r.penalty \in Int
    PROVE  LET overnight == IF n = 0 THEN 0 ELSE 5 * rate * n * factor
               sameDay == IF n = 0 /\ 60 * r.sameDayHours >= 420 THEN 20 * rate ELSE 0
               returnDay == IF n # 0 /\ 60 * r.returnDayHours >= 420 THEN 12 * rate ELSE 0
           IN  Calculated(r) = (overnight + sameDay + returnDay + 40 * (r.cost + r.bonus - r.penalty) + 20) \div 40
<1> DEFINE input == [accommodationType |-> r.accommodationType,
           overnightCount |-> n,
           isSameDayMission |-> n = 0,
           sameDayMinutes |-> 60 * r.sameDayHours,
           returnDayMinutes |-> 60 * r.returnDayHours,
           transportationCost |-> r.cost,
           bonusAmount |-> r.bonus,
           penaltyAmount |-> r.penalty]
<1>1. /\ input.accommodationType = r.accommodationType /\ input.overnightCount = n
      /\ input.sameDayMinutes = 60 * r.sameDayHours /\ input.returnDayMinutes = 60 * r.returnDayHours
      /\ input.transportationCost = r.cost /\ input.bonusAmount = r.bonus /\ input.penaltyAmount = r.penalty
  OBVIOUS
<1>2. input.isSameDayMission = (n = 0)
  OBVIOUS
<1>3. Calculated(r) = Rates(r.level)!CalculateSalary(input).totalAmount
  BY DEF Calculated
<1> HIDE DEF input
<1>4. QED
   BY <1>1, <1>2, <1>3 DEF Rates!CalculateSalary, Rates!SevenHours, Rates!Fortieths, Rates!Rounded

LEMMA AmountType ==
    ASSUME NEW r, r.departureAt \in Int, r.returnAt \in Int, r.sameDayHours \in Int,
           r.returnDayHours \in Int, r.cost \in Int, r.bonus \in Int, r.penalty \in Int
    PROVE  Calculated(r) \in Int
<1> DEFINE n == DateDifferenceInDays(r.departureAt, r.returnAt)
           rate == Rates(r.level)!SalaryRates(r.level)
           factor == Rates(r.level)!AccommodationFactors(r.accommodationType)
           overnight == IF n = 0 THEN 0 ELSE 5 * rate * n * factor
           sameDay == IF n = 0 /\ 60 * r.sameDayHours >= 420 THEN 20 * rate ELSE 0
           returnDay == IF n # 0 /\ 60 * r.returnDayHours >= 420 THEN 12 * rate ELSE 0
<1>1. Calculated(r)
        = (overnight + sameDay + returnDay + 40 * (r.cost + r.bonus - r.penalty) + 20) \div 40
  BY AmountOf
<1>2. n \in Nat /\ rate \in Nat /\ factor \in Nat
  BY DaysType, RepositoryRateType, FactorType
<1> HIDE DEF n, rate, factor
<1>3. 5 * rate * n * factor \in Int
  BY <1>2
<1>4. QED
  BY <1>1, <1>2, <1>3

(***************************************************************************)
(* The stages and who signs at them                                        *)
(***************************************************************************)

LEMMA StagesAre ==
    /\ DOMAIN STAGES = 1..6 /\ DOMAIN Roles = 1..5
    /\ STAGES[1] = "manager-review" /\ STAGES[2] = "pr-review"
    /\ STAGES[3] = "transportation-review" /\ STAGES[4] = "timing-review"
    /\ STAGES[5] = "salary-finalization" /\ STAGES[6] = "completed"
    /\ Roles[1] = "manager" /\ Roles[2] = "pr" /\ Roles[3] = "transportation"
    /\ Roles[4] = "timing" /\ Roles[5] = "salary"
BY DEF STAGES, Roles

LEMMA StageNamesAre ==
    StageNames = {"manager-review", "pr-review", "transportation-review", "timing-review",
                  "salary-finalization", "completed", "cancelled"}
BY StagesAre DEF StageNames

LEMMA RoleStages ==
    /\ StageOf("manager") = "manager-review" /\ StageOf("pr") = "pr-review"
    /\ StageOf("transportation") = "transportation-review" /\ StageOf("timing") = "timing-review"
<1>1. \A i \in DOMAIN Roles : Roles[i] = "manager" <=> i = 1
  BY StagesAre
<1>2. \A i \in DOMAIN Roles : Roles[i] = "pr" <=> i = 2
  BY StagesAre
<1>3. \A i \in DOMAIN Roles : Roles[i] = "transportation" <=> i = 3
  BY StagesAre
<1>4. \A i \in DOMAIN Roles : Roles[i] = "timing" <=> i = 4
  BY StagesAre
<1>5. 1 \in DOMAIN Roles /\ 2 \in DOMAIN Roles /\ 3 \in DOMAIN Roles /\ 4 \in DOMAIN Roles
  BY StagesAre
<1>6. StageOf("manager") = STAGES[1]
  BY <1>1, <1>5 DEF StageOf
<1>7. StageOf("pr") = STAGES[2]
  BY <1>2, <1>5 DEF StageOf
<1>8. StageOf("transportation") = STAGES[3]
  BY <1>3, <1>5 DEF StageOf
<1>9. StageOf("timing") = STAGES[4]
  BY <1>4, <1>5 DEF StageOf
<1>10. QED
  BY <1>6, <1>7, <1>8, <1>9, StagesAre

LEMMA StagesFollow ==
    /\ StageAfter("manager-review") = "pr-review"
    /\ StageAfter("pr-review") = "transportation-review"
    /\ StageAfter("transportation-review") = "timing-review"
    /\ StageAfter("timing-review") = "salary-finalization"
<1>1. \A i \in DOMAIN Roles : STAGES[i] = "manager-review" <=> i = 1
  BY StagesAre
<1>2. \A i \in DOMAIN Roles : STAGES[i] = "pr-review" <=> i = 2
  BY StagesAre
<1>3. \A i \in DOMAIN Roles : STAGES[i] = "transportation-review" <=> i = 3
  BY StagesAre
<1>4. \A i \in DOMAIN Roles : STAGES[i] = "timing-review" <=> i = 4
  BY StagesAre
<1>5. 1 \in DOMAIN Roles /\ 2 \in DOMAIN Roles /\ 3 \in DOMAIN Roles /\ 4 \in DOMAIN Roles
  BY StagesAre
<1>6. StageAfter("manager-review") = STAGES[1 + 1]
  BY <1>1, <1>5 DEF StageAfter
<1>7. StageAfter("pr-review") = STAGES[1 + 2]
  BY <1>2, <1>5 DEF StageAfter
<1>8. StageAfter("transportation-review") = STAGES[1 + 3]
  BY <1>3, <1>5 DEF StageAfter
<1>9. StageAfter("timing-review") = STAGES[1 + 4]
  BY <1>4, <1>5 DEF StageAfter
<1>10. QED
  BY <1>6, <1>7, <1>8, <1>9, StagesAre

\* A reviewer reviews for one department.
LEMMA ReviewRoleType ==
    ASSUME NEW u \in Reviewers
    PROVE  /\ u \in Employees
           /\ ReviewRole(u) \in {"manager", "pr", "transportation", "timing"}
<1>1. u \in Employees /\ RolesOf(u) \intersect {"manager", "pr", "transportation", "timing"} # {}
  BY DEF Reviewers
<1>2. /\ "u4" \in {"u4", "u10"} => RolesOf("u4") \subseteq {"employee", "manager"}
      /\ RolesOf("u10") \subseteq {"employee", "manager"}
      /\ RolesOf("u5") \subseteq {"employee", "pr"}
      /\ RolesOf("u6") \subseteq {"employee", "transportation"}
      /\ RolesOf("u7") \subseteq {"employee", "timing"}
      /\ RolesOf("u8") \subseteq {"employee", "salary"}
      /\ RolesOf("u9") \subseteq {"employee", "salary"}
      /\ RolesOf("u1") \subseteq {"employee"} /\ RolesOf("u2") \subseteq {"employee"}
      /\ RolesOf("u3") \subseteq {"employee"}
  BY DEF RolesOf
<1>3. u \notin {"u1", "u2", "u3", "u8", "u9"}
  BY <1>1, <1>2
<1>4. \A role \in RolesOf(u) : role # "employee" => role \in {"manager", "pr", "transportation", "timing"}
  BY <1>1, <1>2, <1>3 DEF Employees
<1>5. \E role \in RolesOf(u) : role # "employee"
  BY <1>1
<1>6. ReviewRole(u) \in RolesOf(u) /\ ReviewRole(u) # "employee"
  BY <1>5 DEF ReviewRole
<1>7. QED
  BY <1>1, <1>4, <1>6

(***************************************************************************)
(* The records                                                             *)
(***************************************************************************)

InputFields ==
    {"employeeId", "level", "stage", "departureAt", "returnAt", "oneWay", "accommodationType",
     "cost", "managerId", "sameDayHours", "returnDayHours", "bonus", "penalty", "revisions"}

RecordFields ==
    InputFields \union
    {"verifiedDepartureAt", "verifiedReturnAt", "costVerified", "salaryPreview", "finalSalary",
     "pendingEmployeeResponse", "auditEvents"}

ActionNames == {"submit", "approve", "reject", "request-info", "edit", "finalize"}

Events == [actor : Employees, role : {"employee", "manager", "pr", "transportation", "timing", "salary"},
           action : ActionNames, from : StageNames \union {"none"}, to : StageNames]

RevisionsType ==
    [department : {"manager", "pr", "transportation", "timing", "PR", "Transportation", "Payroll"},
     previousPrice : Int, newPrice : Int]

\* What an input has, and an operation may change.
InputOK(r) ==
    /\ r.employeeId \in Employees /\ r.managerId \in Employees
    /\ r.stage \in StageNames
    /\ r.departureAt \in Int /\ r.returnAt \in Int /\ r.oneWay \in BOOLEAN
    /\ r.sameDayHours \in Nat /\ r.returnDayHours \in Nat
    /\ r.cost \in Nat /\ r.bonus \in Nat /\ r.penalty \in Nat

DetailsOK(r) ==
    /\ r.verifiedDepartureAt \in Int /\ r.verifiedReturnAt \in Int
    /\ r.costVerified \in BOOLEAN /\ r.pendingEmployeeResponse \in BOOLEAN
    /\ r.auditEvents \in Seq(Events)

\* The revisions lead to a price.
LeadTo(revisions, price) ==
    /\ revisions \in Seq(RevisionsType)
    /\ \A i \in 1..(Len(revisions) - 1) : revisions[i].newPrice = revisions[i + 1].previousPrice
    /\ Len(revisions) > 0 => revisions[Len(revisions)].newPrice = price

Priced(r) ==
    /\ r.salaryPreview = Calculated(r)
    /\ r.finalSalary = IF r.stage = "completed" THEN {r.salaryPreview} ELSE {}
    /\ LeadTo(r.revisions, r.salaryPreview)

RecordOK(r) == DOMAIN r = RecordFields /\ InputOK(r) /\ DetailsOK(r) /\ Priced(r)

LEMMA InputAmount ==
    ASSUME NEW r, InputOK(r)
    PROVE  Calculated(r) \in Int
BY AmountType DEF InputOK

LEMMA SubmitEvent ==
    ASSUME NEW u \in Employees
    PROVE  Event(u, "employee", "submit", "none", "manager-review") \in Events
BY StageNamesAre DEF Event, Events, ActionNames

LEMMA SignatureType ==
    ASSUME NEW i \in 1..5
    PROVE  /\ Signature(i) \in Events
           /\ Signature(i).action \in {"approve", "finalize"} /\ Signature(i).role = Roles[i]
<1>1. Actors[i] \in Employees /\ Roles[i] \in {"manager", "pr", "transportation", "timing", "salary"}
  BY DEF Actors, Roles, Employees
<1>2. STAGES[i] \in StageNames /\ STAGES[i + 1] \in StageNames
  BY StagesAre, StageNamesAre
<1>3. QED
  BY <1>1, <1>2 DEF Signature, Event, Events, ActionNames

\* The signatures that the trail of a seed shows.
SignedBefore(stage) ==
    CASE stage = "pr-review" -> {"manager"}
      [] stage = "transportation-review" -> {"manager", "pr"}
      [] stage = "timing-review" -> {"manager", "pr", "transportation"}
      [] stage = "salary-finalization" -> {"manager", "pr", "transportation", "timing"}
      [] stage = "completed" -> {"manager", "pr", "transportation", "timing", "salary"}
      [] OTHER -> {}

TrailSignatures(t) ==
    {t[i].role : i \in {k \in DOMAIN t : t[k].action \in {"approve", "finalize"}}}

\* The trail of a submission and n signatures.
LEMMA TrailOf ==
    ASSUME NEW first \in Events, first.action \notin {"approve", "finalize"},
           NEW n \in 0..5, NEW t, t = <<first>> \o [i \in 1..n |-> Signature(i)]
    PROVE  /\ t \in Seq(Events)
           /\ TrailSignatures(t) = {Roles[i] : i \in 1..n}
<1> DEFINE s == [i \in 1..n |-> Signature(i)]
<1>1. \A i \in 1..n : Signature(i) \in Events /\ s[i] = Signature(i)
  BY SignatureType
<1>2. s \in Seq(Events) /\ Len(s) = n /\ DOMAIN s = 1..n
  BY <1>1
<1>3. <<first>> \in Seq(Events) /\ Len(<<first>>) = 1 /\ <<first>>[1] = first
  OBVIOUS
<1> HIDE DEF s
<1>4. /\ t \in Seq(Events) /\ DOMAIN t = 1..(n + 1) /\ t[1] = first
      /\ \A i \in 2..(n + 1) : t[i] = Signature(i - 1)
  <2>1. t = <<first>> \o s
    BY DEF s
  <2> DEFINE f == <<first>>
  <2>2. f \in Seq(Events) /\ Len(f) = 1 /\ f[1] = first
    BY <1>3
  <2> HIDE DEF f
  <2>3. t \in Seq(Events) /\ Len(t) = n + 1
    BY <1>2, <2>1, <2>2 DEF f
  <2>4. \A i \in 1..(n + 1) : t[i] = IF i <= 1 THEN f[i] ELSE s[i - 1]
    BY <1>2, <2>1, <2>2 DEF f
  <2>5. QED
    BY <1>1, <2>2, <2>3, <2>4
<1>5. \A k \in DOMAIN t : t[k].action \in {"approve", "finalize"} <=> k # 1
  BY <1>4, SignatureType
<1>6. \A k \in 2..(n + 1) : t[k].role = Roles[k - 1]
  BY <1>4, SignatureType
<1>7. ASSUME NEW x \in TrailSignatures(t)
      PROVE  x \in {Roles[i] : i \in 1..n}
  <2>1. PICK k \in DOMAIN t : t[k].action \in {"approve", "finalize"} /\ x = t[k].role
    BY <1>7 DEF TrailSignatures
  <2>2. k \in 2..(n + 1)
    BY <1>4, <1>5, <2>1
  <2>3. k - 1 \in 1..n /\ x = Roles[k - 1]
    BY <1>6, <2>1, <2>2
  <2>4. QED
    BY <2>3
<1>8. ASSUME NEW i \in 1..n
      PROVE  Roles[i] \in TrailSignatures(t)
  <2>1. i + 1 \in 2..(n + 1) /\ i + 1 \in DOMAIN t /\ i + 1 # 1 /\ (i + 1) - 1 = i
    BY <1>4
  <2>2. t[i + 1].role = Roles[i] /\ t[i + 1].action \in {"approve", "finalize"}
    BY <1>5, <1>6, <2>1
  <2>3. QED
    BY <2>1, <2>2 DEF TrailSignatures
<1>9. QED
  BY <1>4, <1>7, <1>8

LEMMA TwoEvents ==
    ASSUME NEW a \in Events, NEW b \in Events, NEW t, t = <<a>> \o <<b>>
    PROVE  t \in Seq(Events) /\ DOMAIN t = 1..2 /\ t[1] = a /\ t[2] = b
<1>1. /\ <<a>> \in Seq(Events) /\ Len(<<a>>) = 1 /\ <<a>>[1] = a
      /\ <<b>> \in Seq(Events) /\ Len(<<b>>) = 1 /\ <<b>>[1] = b
  OBVIOUS
<1>2. PICK f, g : f = <<a>> /\ g = <<b>>
  OBVIOUS
<1>3. /\ f \in Seq(Events) /\ Len(f) = 1 /\ f[1] = a
      /\ g \in Seq(Events) /\ Len(g) = 1 /\ g[1] = b /\ t = f \o g
  BY <1>1, <1>2
<1>4. t \in Seq(Events) /\ Len(t) = 2 /\ t[1] = f[1] /\ t[2] = g[1]
  BY <1>3
<1>5. QED
  BY <1>3, <1>4

\* The trail that a seed starts with.
LEMMA SeedAuditType ==
    ASSUME NEW input, input.employeeId \in Employees, input.stage \in StageNames
    PROVE  /\ SeedAudit(input) \in Seq(Events)
           /\ TrailSignatures(SeedAudit(input)) = SignedBefore(input.stage)
<1> DEFINE first == Event(input.employeeId, "employee", "submit", "none", "manager-review")
           rejection == Event("u4", "manager", "reject", "manager-review", "cancelled")
           place == CHOOSE k \in DOMAIN STAGES : STAGES[k] = input.stage
<1>1. first \in Events /\ first.action = "submit"
  BY SubmitEvent DEF Event
<1>2. CASE input.stage = "cancelled"
  <2>1. rejection \in Events /\ rejection.action = "reject"
    BY StageNamesAre DEF Event, Events, ActionNames, Employees
  <2>2. SeedAudit(input) = <<first>> \o <<rejection>>
    BY <1>2 DEF SeedAudit
  <2> HIDE DEF first, rejection
  <2>3. PICK t : t = SeedAudit(input)
    OBVIOUS
  <2>4. t \in Seq(Events) /\ DOMAIN t = 1..2 /\ t[1] = first /\ t[2] = rejection
    BY <1>1, <2>1, <2>2, <2>3, TwoEvents
  <2>5. TrailSignatures(t) = {}
    BY <1>1, <2>1, <2>4 DEF TrailSignatures
  <2>6. QED
    BY <1>2, <2>3, <2>4, <2>5 DEF SignedBefore
<1>3. CASE input.stage # "cancelled"
  <2>1. SeedAudit(input) = <<first>> \o [i \in 1..(place - 1) |-> Signature(i)]
    BY <1>3 DEF SeedAudit
  <2>2. place \in 1..6 /\ STAGES[place] = input.stage
    <3>1. \E k \in DOMAIN STAGES : STAGES[k] = input.stage
      BY <1>3, StagesAre, StageNamesAre
    <3>2. QED
      BY <3>1, StagesAre
  <2> HIDE DEF first, place
  <2>3. place - 1 \in 0..5
    BY <2>2
  <2>4. /\ SeedAudit(input) \in Seq(Events)
        /\ TrailSignatures(SeedAudit(input)) = {Roles[i] : i \in 1..(place - 1)}
    BY <1>1, <2>1, <2>3, TrailOf
  <2>5. {Roles[i] : i \in 1..(place - 1)} = SignedBefore(input.stage)
    <3>1. CASE place = 1
      BY <2>2, <3>1, StagesAre DEF SignedBefore
    <3>2. CASE place = 2
      <4>1. 1..(place - 1) = {1}
        BY <3>2
      <4>2. QED
        BY <2>2, <3>2, <4>1, StagesAre DEF SignedBefore
    <3>3. CASE place = 3
      <4>1. 1..(place - 1) = {1, 2}
        BY <3>3
      <4>2. QED
        BY <2>2, <3>3, <4>1, StagesAre DEF SignedBefore
    <3>4. CASE place = 4
      <4>1. 1..(place - 1) = {1, 2, 3}
        BY <3>4
      <4>2. QED
        BY <2>2, <3>4, <4>1, StagesAre DEF SignedBefore
    <3>5. CASE place = 5
      <4>1. 1..(place - 1) = {1, 2, 3, 4}
        BY <3>5
      <4>2. QED
        BY <2>2, <3>5, <4>1, StagesAre DEF SignedBefore
    <3>6. CASE place = 6
      <4>1. 1..(place - 1) = {1, 2, 3, 4, 5}
        BY <3>6
      <4>2. QED
        BY <2>2, <3>6, <4>1, StagesAre DEF SignedBefore
    <3>7. QED
      BY <2>2, <3>1, <3>2, <3>3, <3>4, <3>5, <3>6
  <2>6. QED
    BY <2>4, <2>5
<1>4. QED
  BY <1>2, <1>3

\* What buildSeed makes of an input is a record.
LEMMA BuiltOK ==
    ASSUME NEW input, DOMAIN input = InputFields, InputOK(input),
           LeadTo(input.revisions, Calculated(input))
    PROVE  /\ RecordOK(Built(input))
           /\ Built(input).stage = input.stage
           /\ Signatures(Built(input)) = SignedBefore(input.stage)
<1> DEFINE b == Built(input)
           atManager == input.stage = "manager-review"
           beforeTiming == input.stage \in {"manager-review", "pr-review", "transportation-review"}
           details ==
             [verifiedDepartureAt |-> IF atManager THEN NotVerified ELSE input.departureAt,
              verifiedReturnAt |-> IF beforeTiming THEN NotVerified ELSE input.returnAt,
              costVerified |-> input.stage \in {"salary-finalization", "completed"},
              salaryPreview |-> Calculated(input),
              finalSalary |-> IF input.stage = "completed" THEN {Calculated(input)} ELSE {},
              pendingEmployeeResponse |-> FALSE,
              auditEvents |-> SeedAudit(input)]
<1>1. b = Joined(input, details)
  BY DEF Built
<1>2. /\ DOMAIN details = {"verifiedDepartureAt", "verifiedReturnAt", "costVerified", "salaryPreview",
                           "finalSalary", "pendingEmployeeResponse", "auditEvents"}
      /\ details.verifiedDepartureAt = IF atManager THEN NotVerified ELSE input.departureAt
      /\ details.verifiedReturnAt = IF beforeTiming THEN NotVerified ELSE input.returnAt
      /\ details.salaryPreview = Calculated(input)
      /\ details.finalSalary = IF input.stage = "completed" THEN {Calculated(input)} ELSE {}
      /\ details.auditEvents = SeedAudit(input)
  OBVIOUS
<1>3. details.costVerified \in BOOLEAN /\ details.pendingEmployeeResponse \in BOOLEAN
  OBVIOUS
<1> HIDE DEF details, b
<1>4. /\ DOMAIN b = RecordFields
      /\ \A k \in InputFields : b[k] = input[k]
      /\ \A k \in RecordFields \ InputFields : b[k] = details[k]
  <2> DEFINE own == {"verifiedDepartureAt", "verifiedReturnAt", "costVerified", "salaryPreview",
                     "finalSalary", "pendingEmployeeResponse", "auditEvents"}
  <2>1. RecordFields = InputFields \union own /\ own \intersect InputFields = {}
    BY DEF RecordFields, InputFields
  <2>2. DOMAIN details = own
    BY <1>2
  <2> HIDE DEF own
  <2>3. DOMAIN b = InputFields \union own
    BY <1>1, <2>2 DEF Joined
  <2>4. \A k \in DOMAIN input : b[k] = input[k]
    BY <1>1 DEF Joined
  <2>5. \A k \in DOMAIN details : k \notin DOMAIN input => b[k] = details[k]
    BY <1>1 DEF Joined
  <2>6. QED
    BY <2>1, <2>2, <2>3, <2>4, <2>5
<1>5. /\ InputOK(b) /\ b.stage = input.stage /\ b.revisions = input.revisions
      /\ SameFigures(input, b)
  BY <1>4 DEF InputFields, InputOK, SameFigures
<1>6. /\ b.verifiedDepartureAt = details.verifiedDepartureAt
      /\ b.verifiedReturnAt = details.verifiedReturnAt
      /\ b.costVerified = details.costVerified
      /\ b.salaryPreview = details.salaryPreview
      /\ b.finalSalary = details.finalSalary
      /\ b.pendingEmployeeResponse = details.pendingEmployeeResponse
      /\ b.auditEvents = details.auditEvents
  BY <1>4 DEF RecordFields, InputFields
<1>7. /\ SeedAudit(input) \in Seq(Events)
      /\ TrailSignatures(SeedAudit(input)) = SignedBefore(input.stage)
  BY SeedAuditType DEF InputOK
<1>8. DetailsOK(b)
  BY <1>2, <1>3, <1>6, <1>7 DEF DetailsOK, InputOK, NotVerified
<1>9. Priced(b)
  BY <1>2, <1>5, <1>6, SameAmount DEF Priced
<1>10. Signatures(b) = SignedBefore(input.stage)
  BY <1>2, <1>6, <1>7 DEF Signatures, TrailSignatures
<1>11. QED
  BY <1>4, <1>5, <1>8, <1>9, <1>10 DEF RecordOK, b

(***************************************************************************)
(* The seeds                                                               *)
(***************************************************************************)

\* What a seed has of the optional fields.
OptionsAre(o, same, back, bonus, penalty, revisions) ==
    /\ DOMAIN o = {"sameDayHours", "returnDayHours", "bonus", "penalty", "oneWay", "managerId", "revisions"}
    /\ o.sameDayHours = same /\ o.returnDayHours = back
    /\ o.bonus = bonus /\ o.penalty = penalty
    /\ o.oneWay \in BOOLEAN /\ o.managerId = "u4" /\ o.revisions = revisions

LEMMA Defaults == OptionsAre(Optional, 0, 0, 0, 0, <<>>)
BY DEF Optional, OptionsAre

LEMMA LevelAmounts ==
    /\ Rates(LevelOf("u5"))!SalaryRates(LevelOf("u5")) = 24000
    /\ Rates(LevelOf("u1"))!SalaryRates(LevelOf("u1")) = 14000
<1>1. Rates(LevelOf("u5"))!SalaryRates(LevelOf("u5")) = 24000
  BY Z3 DEF Rates!SalaryRates, LevelOf
<1>2. Rates(LevelOf("u1"))!SalaryRates(LevelOf("u1")) = 14000
  BY Z3 DEF Rates!SalaryRates, LevelOf
<1>3. QED
  BY <1>1, <1>2

\* The input of a seed.
RequiredFields(employee, stage, departureAt, returnAt, accommodation, cost) ==
    [employeeId |-> employee, level |-> LevelOf(employee), stage |-> stage,
     departureAt |-> departureAt, returnAt |-> returnAt,
     accommodationType |-> accommodation, cost |-> cost]

LEMMA SeedInput ==
    ASSUME NEW employee \in Employees, NEW stage \in StageNames,
           NEW departureAt \in Int, NEW returnAt \in Int, NEW accommodation, NEW cost \in Nat,
           NEW rest, NEW same \in Nat, NEW back \in Nat, NEW bonus \in Nat, NEW penalty \in Nat,
           NEW revisions, OptionsAre(Joined(rest, Optional), same, back, bonus, penalty, revisions),
           NEW input,
           input = Joined(RequiredFields(employee, stage, departureAt, returnAt, accommodation, cost),
                          Joined(rest, Optional))
    PROVE  /\ DOMAIN input = InputFields /\ InputOK(input)
           /\ Seed(employee, stage, departureAt, returnAt, accommodation, cost, rest) = Built(input)
           /\ input.stage = stage /\ input.revisions = revisions /\ input.cost = cost
           /\ input.level = LevelOf(employee) /\ input.accommodationType = accommodation
           /\ input.departureAt = departureAt /\ input.returnAt = returnAt
           /\ input.sameDayHours = same /\ input.returnDayHours = back
           /\ input.bonus = bonus /\ input.penalty = penalty
<1> DEFINE req == RequiredFields(employee, stage, departureAt, returnAt, accommodation, cost)
           opt == Joined(rest, Optional)
           reqFields == {"employeeId", "level", "stage", "departureAt", "returnAt",
                         "accommodationType", "cost"}
           optFields == {"sameDayHours", "returnDayHours", "bonus", "penalty", "oneWay",
                         "managerId", "revisions"}
<1>1. /\ DOMAIN req = reqFields
      /\ req.employeeId = employee /\ req.level = LevelOf(employee) /\ req.stage = stage
      /\ req.departureAt = departureAt /\ req.returnAt = returnAt
      /\ req.accommodationType = accommodation /\ req.cost = cost
  BY DEF RequiredFields
<1>2. Seed(employee, stage, departureAt, returnAt, accommodation, cost, rest) = Built(input)
  BY DEF Seed, RequiredFields
<1> HIDE DEF req
<1>3. /\ DOMAIN opt = optFields
      /\ opt.sameDayHours = same /\ opt.returnDayHours = back
      /\ opt.bonus = bonus /\ opt.penalty = penalty
      /\ opt.oneWay \in BOOLEAN /\ opt.managerId = "u4" /\ opt.revisions = revisions
  BY DEF OptionsAre
<1> HIDE DEF opt
<1>4. input = Joined(req, opt)
  BY DEF req, opt
<1>5. /\ DOMAIN input = reqFields \union optFields
      /\ \A k \in reqFields : input[k] = req[k]
      /\ \A k \in optFields : input[k] = opt[k]
  <2>1. reqFields \intersect optFields = {}
    OBVIOUS
  <2> HIDE DEF reqFields, optFields
  <2>2. /\ DOMAIN input = DOMAIN req \union DOMAIN opt
        /\ \A k \in DOMAIN req : input[k] = req[k]
        /\ \A k \in DOMAIN opt : k \notin DOMAIN req => input[k] = opt[k]
    BY <1>4 DEF Joined
  <2>3. DOMAIN req = reqFields /\ DOMAIN opt = optFields
    BY <1>1, <1>3
  <2>4. QED
    BY <2>1, <2>2, <2>3
<1>6. DOMAIN input = InputFields
  BY <1>5 DEF InputFields
<1>7. /\ input.employeeId = employee
      /\ input.stage = stage /\ input.cost = cost
      /\ input.level = LevelOf(employee) /\ input.accommodationType = accommodation
      /\ input.departureAt = departureAt /\ input.returnAt = returnAt
  BY <1>1, <1>5
<1>8. /\ input.sameDayHours = same /\ input.returnDayHours = back
      /\ input.bonus = bonus /\ input.penalty = penalty
      /\ input.oneWay \in BOOLEAN /\ input.managerId = "u4" /\ input.revisions = revisions
  BY <1>3, <1>5
<1>9. InputOK(input)
  BY <1>7, <1>8 DEF InputOK, Employees
<1>10. QED
  BY <1>2, <1>6, <1>7, <1>8, <1>9

LEMMA NoRevisions == \A price : LeadTo(<<>>, price)
BY DEF LeadTo

LEMMA OneRevision ==
    ASSUME NEW department \in {"PR", "Transportation"}, NEW previous \in Int, NEW price \in Int
    PROVE  LeadTo(<<Revision(department, previous, price)>>, price)
<1> DEFINE v == Revision(department, previous, price)
<1>1. v \in RevisionsType /\ v.newPrice = price
  BY DEF Revision, RevisionsType
<1> HIDE DEF v
<1>2. <<v>> \in Seq(RevisionsType) /\ Len(<<v>>) = 1 /\ <<v>>[1] = v
  BY <1>1
<1>3. QED
  BY <1>1, <1>2 DEF LeadTo, v

SeedOK(r, stage) == RecordOK(r) /\ r.stage = stage /\ Signatures(r) = SignedBefore(stage)

LEMMA SeedWithoutRevisions ==
    ASSUME NEW employee \in Employees, NEW stage \in StageNames,
           NEW departureAt \in Int, NEW returnAt \in Int, NEW accommodation, NEW cost \in Nat,
           NEW rest, NEW same \in Nat, NEW back \in Nat, NEW bonus \in Nat, NEW penalty \in Nat,
           OptionsAre(Joined(rest, Optional), same, back, bonus, penalty, <<>>)
    PROVE  SeedOK(Seed(employee, stage, departureAt, returnAt, accommodation, cost, rest), stage)
<1>1. PICK input : input = Joined(RequiredFields(employee, stage, departureAt, returnAt, accommodation, cost),
                                  Joined(rest, Optional))
  OBVIOUS
<1>2. /\ DOMAIN input = InputFields /\ InputOK(input) /\ input.stage = stage /\ input.revisions = <<>>
      /\ Seed(employee, stage, departureAt, returnAt, accommodation, cost, rest) = Built(input)
  BY <1>1, SeedInput
<1>3. LeadTo(input.revisions, Calculated(input))
  BY <1>2, NoRevisions
<1>4. QED
  BY <1>2, <1>3, BuiltOK DEF SeedOK

LEMMA AtType == \A d, h \in Nat : At(d, h) \in Int
BY DEF At

LEMMA RevisedSeeds ==
    /\ SeedOK(Seed("u5", "salary-finalization", At(10, 7), At(13, 17), "room-only", 15000,
                   [returnDayHours |-> 8, revisions |-> <<Revision("PR", 94200, 76200)>>]),
              "salary-finalization")
    /\ SeedOK(Seed("u1", "salary-finalization", At(12, 6), At(16, 18), "none", 20000,
                   [returnDayHours |-> 7, revisions |-> <<Revision("Transportation", 60200, 80200)>>]),
              "salary-finalization")
<1>1. "salary-finalization" \in StageNames /\ "u5" \in Employees /\ "u1" \in Employees
  BY StageNamesAre DEF Employees
<1>2. /\ At(10, 7) = 14820 /\ At(13, 17) = 19740 /\ At(12, 6) = 17640 /\ At(16, 18) = 24120
  BY DEF At
<1>3. /\ DateDifferenceInDays(14820, 19740) = 3
      /\ DateDifferenceInDays(17640, 24120) = 4
  BY DEF DateDifferenceInDays
<1>4. /\ \A level : Rates(level)!AccommodationFactors("room-only") = 6
      /\ \A level : Rates(level)!AccommodationFactors("none") = 8
  BY Z3 DEF Rates!AccommodationFactors
<1>5. SeedOK(Seed("u5", "salary-finalization", At(10, 7), At(13, 17), "room-only", 15000,
                  [returnDayHours |-> 8, revisions |-> <<Revision("PR", 94200, 76200)>>]),
             "salary-finalization")
  <2> DEFINE revisions == <<Revision("PR", 94200, 76200)>>
             rest == [returnDayHours |-> 8, revisions |-> revisions]
  <2>1. LeadTo(revisions, 76200)
    BY OneRevision
  <2> HIDE DEF revisions
  <2>2. OptionsAre(Joined(rest, Optional), 0, 8, 0, 0, revisions)
    BY DEF Optional, OptionsAre, Joined
  <2>3. PICK input : input = Joined(RequiredFields("u5", "salary-finalization", 14820, 19740, "room-only", 15000),
                                    Joined(rest, Optional))
    OBVIOUS
  <2> HIDE DEF rest
  <2>4. /\ DOMAIN input = InputFields /\ InputOK(input)
        /\ Seed("u5", "salary-finalization", 14820, 19740, "room-only", 15000, rest) = Built(input)
        /\ input.stage = "salary-finalization" /\ input.revisions = revisions /\ input.cost = 15000
        /\ input.level = LevelOf("u5") /\ input.accommodationType = "room-only"
        /\ input.departureAt = 14820 /\ input.returnAt = 19740
        /\ input.sameDayHours = 0 /\ input.returnDayHours = 8
        /\ input.bonus = 0 /\ input.penalty = 0
    BY <1>1, <2>2, <2>3, SeedInput
  <2>5. /\ Rates(input.level)!SalaryRates(input.level) = 24000
        /\ Rates(input.level)!AccommodationFactors(input.accommodationType) = 6
        /\ DateDifferenceInDays(input.departureAt, input.returnAt) = 3
    BY <1>3, <1>4, <2>4, LevelAmounts
  <2>6. Calculated(input) = (5 * 24000 * 3 * 6 + 0 + 12 * 24000 + 40 * 15000 + 20) \div 40
    BY <2>4, <2>5, AmountOf
  <2>7. Calculated(input) = 76200
    BY <2>6
  <2>8. QED
    BY <1>2, <2>1, <2>4, <2>7, BuiltOK DEF SeedOK, rest, revisions
<1>6. SeedOK(Seed("u1", "salary-finalization", At(12, 6), At(16, 18), "none", 20000,
                  [returnDayHours |-> 7, revisions |-> <<Revision("Transportation", 60200, 80200)>>]),
             "salary-finalization")
  <2> DEFINE revisions == <<Revision("Transportation", 60200, 80200)>>
             rest == [returnDayHours |-> 7, revisions |-> revisions]
  <2>1. LeadTo(revisions, 80200)
    BY OneRevision
  <2> HIDE DEF revisions
  <2>2. OptionsAre(Joined(rest, Optional), 0, 7, 0, 0, revisions)
    BY DEF Optional, OptionsAre, Joined
  <2>3. PICK input : input = Joined(RequiredFields("u1", "salary-finalization", 17640, 24120, "none", 20000),
                                    Joined(rest, Optional))
    OBVIOUS
  <2> HIDE DEF rest
  <2>4. /\ DOMAIN input = InputFields /\ InputOK(input)
        /\ Seed("u1", "salary-finalization", 17640, 24120, "none", 20000, rest) = Built(input)
        /\ input.stage = "salary-finalization" /\ input.revisions = revisions /\ input.cost = 20000
        /\ input.level = LevelOf("u1") /\ input.accommodationType = "none"
        /\ input.departureAt = 17640 /\ input.returnAt = 24120
        /\ input.sameDayHours = 0 /\ input.returnDayHours = 7
        /\ input.bonus = 0 /\ input.penalty = 0
    BY <1>1, <2>2, <2>3, SeedInput
  <2>5. /\ Rates(input.level)!SalaryRates(input.level) = 14000
        /\ Rates(input.level)!AccommodationFactors(input.accommodationType) = 8
        /\ DateDifferenceInDays(input.departureAt, input.returnAt) = 4
    BY <1>3, <1>4, <2>4, LevelAmounts
  <2>6. Calculated(input) = (5 * 14000 * 4 * 8 + 0 + 12 * 14000 + 40 * 20000 + 20) \div 40
    BY <2>4, <2>5, AmountOf
  <2>7. Calculated(input) = 80200
    BY <2>6
  <2>8. QED
    BY <1>2, <2>1, <2>4, <2>7, BuiltOK DEF SeedOK, rest, revisions
<1>7. QED
  BY <1>5, <1>6

\* The optional fields of the sixth seed.
LEMMA PaidSeedOptions ==
    OptionsAre(Joined([returnDayHours |-> 8, bonus |-> 5000, penalty |-> 1000], Optional),
               0, 8, 5000, 1000, <<>>)
<1> DEFINE rest == [returnDayHours |-> 8, bonus |-> 5000, penalty |-> 1000]
           o == Joined(rest, Optional)
<1>1. DOMAIN rest = {"returnDayHours", "bonus", "penalty"} /\ rest.returnDayHours = 8 /\ rest.bonus = 5000 /\ rest.penalty = 1000
  OBVIOUS
<1>2. /\ DOMAIN Optional = {"sameDayHours", "returnDayHours", "bonus", "penalty", "oneWay", "managerId", "revisions"}
      /\ Optional.sameDayHours = 0 /\ Optional.oneWay \in BOOLEAN /\ Optional.managerId = "u4" /\ Optional.revisions = <<>>
  BY DEF Optional
<1> HIDE DEF rest
<1>3. DOMAIN o = {"sameDayHours", "returnDayHours", "bonus", "penalty", "oneWay", "managerId", "revisions"}
  BY <1>1, <1>2 DEF Joined
<1>4. \A k \in DOMAIN o : o[k] = IF k \in DOMAIN rest THEN rest[k] ELSE Optional[k]
  BY DEF Joined
<1> HIDE DEF o
<1>5. OptionsAre(o, 0, 8, 5000, 1000, <<>>)
  BY <1>1, <1>2, <1>3, <1>4 DEF OptionsAre
<1>6. QED
  BY <1>5 DEF o, rest

LEMMA SeedsOK ==
    /\ DOMAIN InitialRecords = SeedNumbers
    /\ \A id \in SeedNumbers :
          /\ RecordOK(InitialRecords[id])
          /\ Signatures(InitialRecords[id]) = SignedBefore(InitialRecords[id].stage)
<1> DEFINE SeedIsOK(r) == RecordOK(r) /\ Signatures(r) = SignedBefore(r.stage)
<1>1. /\ Employees = {"u1", "u2", "u3", "u4", "u5", "u6", "u7", "u8", "u9", "u10"}
      /\ \A d, h \in Nat : At(d, h) \in Int
  BY AtType DEF Employees
<1>2. OptionsAre(Joined(Optional, Optional), 0, 0, 0, 0, <<>>)
  BY DEF Optional, OptionsAre, Joined
<1>3. \A r, stage : SeedOK(r, stage) => SeedIsOK(r)
  BY DEF SeedOK
<1> HIDE DEF SeedIsOK
<1>4. SeedIsOK(InitialRecords[1])
  <2>1. InitialRecords[1]
          = Seed("u1", "manager-review", At(34, 6), At(36, 18), "none", 20000, Optional)
    BY DEF InitialRecords, SeedNumbers
  <2>2. At(34, 6) \in Int /\ At(36, 18) \in Int /\ "manager-review" \in StageNames /\ "u1" \in Employees
    BY <1>1, StageNamesAre
  <2>4. SeedOK(InitialRecords[1], "manager-review")
    BY <2>1, <2>2, <1>2, SeedWithoutRevisions
  <2>5. QED
    BY <1>3, <2>4
<1>5. SeedIsOK(InitialRecords[2])
  <2>1. InitialRecords[2]
          = Seed("u2", "pr-review", At(41, 7), At(42, 17), "room-only", 15000, Optional)
    BY DEF InitialRecords, SeedNumbers
  <2>2. At(41, 7) \in Int /\ At(42, 17) \in Int /\ "pr-review" \in StageNames /\ "u2" \in Employees
    BY <1>1, StageNamesAre
  <2>4. SeedOK(InitialRecords[2], "pr-review")
    BY <2>1, <2>2, <1>2, SeedWithoutRevisions
  <2>5. QED
    BY <1>3, <2>4
<1>6. SeedIsOK(InitialRecords[3])
  <2>1. InitialRecords[3]
          = Seed("u3", "transportation-review", At(43, 6), At(45, 18), "room-and-food", 22000, Optional)
    BY DEF InitialRecords, SeedNumbers
  <2>2. At(43, 6) \in Int /\ At(45, 18) \in Int /\ "transportation-review" \in StageNames /\ "u3" \in Employees
    BY <1>1, StageNamesAre
  <2>4. SeedOK(InitialRecords[3], "transportation-review")
    BY <2>1, <2>2, <1>2, SeedWithoutRevisions
  <2>5. QED
    BY <1>3, <2>4
<1>7. SeedIsOK(InitialRecords[4])
  <2>1. InitialRecords[4]
          = Seed("u1", "timing-review", At(49, 7), At(49, 16), "none", 10000, [sameDayHours |-> 9])
    BY DEF InitialRecords, SeedNumbers
  <2>2. At(49, 7) \in Int /\ At(49, 16) \in Int /\ "timing-review" \in StageNames /\ "u1" \in Employees
    BY <1>1, StageNamesAre
  <2>3. OptionsAre(Joined([sameDayHours |-> 9], Optional), 9, 0, 0, 0, <<>>)
    BY DEF Optional, OptionsAre, Joined
  <2>4. SeedOK(InitialRecords[4], "timing-review")
    BY <2>1, <2>2, <2>3, SeedWithoutRevisions
  <2>5. QED
    BY <1>3, <2>4
<1>8. SeedIsOK(InitialRecords[5])
  <2>1. InitialRecords[5]
          = Seed("u2", "salary-finalization", At(51, 6), At(53, 15), "room-only", 25000,
                 [returnDayHours |-> 7])
    BY DEF InitialRecords, SeedNumbers
  <2>2. At(51, 6) \in Int /\ At(53, 15) \in Int /\ "salary-finalization" \in StageNames /\ "u2" \in Employees
    BY <1>1, StageNamesAre
  <2>3. OptionsAre(Joined([returnDayHours |-> 7], Optional), 0, 7, 0, 0, <<>>)
    BY DEF Optional, OptionsAre, Joined
  <2>4. SeedOK(InitialRecords[5], "salary-finalization")
    BY <2>1, <2>2, <2>3, SeedWithoutRevisions
  <2>5. QED
    BY <1>3, <2>4
<1>9. SeedIsOK(InitialRecords[6])
  <2>1. InitialRecords[6]
          = Seed("u3", "completed", At(55, 6), At(57, 16), "none", 20000,
                 [returnDayHours |-> 8, bonus |-> 5000, penalty |-> 1000])
    BY DEF InitialRecords, SeedNumbers
  <2>2. At(55, 6) \in Int /\ At(57, 16) \in Int /\ "completed" \in StageNames /\ "u3" \in Employees
    BY <1>1, StageNamesAre
  <2>3. OptionsAre(Joined([returnDayHours |-> 8, bonus |-> 5000, penalty |-> 1000], Optional), 0, 8, 5000, 1000, <<>>)
    BY PaidSeedOptions
  <2>4. SeedOK(InitialRecords[6], "completed")
    BY <2>1, <2>2, <2>3, SeedWithoutRevisions
  <2>5. QED
    BY <1>3, <2>4
<1>10. SeedIsOK(InitialRecords[7])
  <2>1. InitialRecords[7]
          = Seed("u1", "cancelled", At(59, 6), At(60, 18), "none", 0, Optional)
    BY DEF InitialRecords, SeedNumbers
  <2>2. At(59, 6) \in Int /\ At(60, 18) \in Int /\ "cancelled" \in StageNames /\ "u1" \in Employees
    BY <1>1, StageNamesAre
  <2>4. SeedOK(InitialRecords[7], "cancelled")
    BY <2>1, <2>2, <1>2, SeedWithoutRevisions
  <2>5. QED
    BY <1>3, <2>4
<1>11. SeedIsOK(InitialRecords[836])
  <2>1. InitialRecords[836]
          = Seed("u4", "salary-finalization", At(8, 8), At(10, 16), "room-and-food", 10000,
                 [returnDayHours |-> 4])
    BY DEF InitialRecords, SeedNumbers
  <2>2. At(8, 8) \in Int /\ At(10, 16) \in Int /\ "salary-finalization" \in StageNames /\ "u4" \in Employees
    BY <1>1, StageNamesAre
  <2>3. OptionsAre(Joined([returnDayHours |-> 4], Optional), 0, 4, 0, 0, <<>>)
    BY DEF Optional, OptionsAre, Joined
  <2>4. SeedOK(InitialRecords[836], "salary-finalization")
    BY <2>1, <2>2, <2>3, SeedWithoutRevisions
  <2>5. QED
    BY <1>3, <2>4
<1>12. SeedIsOK(InitialRecords[839]) /\ SeedIsOK(InitialRecords[841])
  <2>1. /\ InitialRecords[839]
             = Seed("u5", "salary-finalization", At(10, 7), At(13, 17), "room-only", 15000,
                    [returnDayHours |-> 8, revisions |-> <<Revision("PR", 94200, 76200)>>])
        /\ InitialRecords[841]
             = Seed("u1", "salary-finalization", At(12, 6), At(16, 18), "none", 20000,
                    [returnDayHours |-> 7, revisions |-> <<Revision("Transportation", 60200, 80200)>>])
    BY DEF InitialRecords, SeedNumbers
  <2>2. QED
    BY <1>3, <2>1, RevisedSeeds
<1>13. \A id \in SeedNumbers : id \in {1, 2, 3, 4, 5, 6, 7, 836, 839, 841}
  BY DEF SeedNumbers
<1>14. \A id \in SeedNumbers : SeedIsOK(InitialRecords[id])
  BY <1>4, <1>5, <1>6, <1>7, <1>8, <1>9, <1>10, <1>11, <1>12, <1>13
<1>15. DOMAIN InitialRecords = SeedNumbers
  BY DEF InitialRecords
<1>16. QED
  BY <1>14, <1>15 DEF SeedIsOK

(***************************************************************************)
(* What an operation makes of a record                                     *)
(***************************************************************************)

\* The record apart from its price: updateCalculation brings it up to date.
AwaitsPricing(r) ==
    /\ DOMAIN r = RecordFields /\ InputOK(r) /\ DetailsOK(r)
    /\ r.stage # "completed" /\ r.finalSalary = {}
    /\ r.salaryPreview \in Int /\ LeadTo(r.revisions, r.salaryPreview)

LEMMA OpenIsPending ==
    ASSUME NEW r, RecordOK(r), r.stage # "completed"
    PROVE  AwaitsPricing(r)
BY InputAmount DEF RecordOK, Priced, AwaitsPricing

RevisingDepartments == {"manager", "pr", "transportation", "timing", "Payroll"}

LEMMA LeadsOn ==
    ASSUME NEW v, NEW price \in Int, LeadTo(v, price), NEW total \in Int,
           NEW department \in RevisingDepartments,
           NEW w, w = Append(v, Revision(department, price, total))
    PROVE  LeadTo(w, total)
<1> DEFINE e == Revision(department, price, total)
<1>1. e \in RevisionsType /\ e.previousPrice = price /\ e.newPrice = total
  BY DEF Revision, RevisionsType, RevisingDepartments
<1>2. w = Append(v, e)
  OBVIOUS
<1> HIDE DEF e
<1>3. v \in Seq(RevisionsType)
  BY DEF LeadTo
<1>4. /\ w \in Seq(RevisionsType) /\ Len(w) = Len(v) + 1 /\ Len(v) \in Nat
      /\ w[Len(v) + 1] = e /\ \A i \in 1..Len(v) : w[i] = v[i]
  BY <1>1, <1>2, <1>3
<1>5. ASSUME NEW i \in 1..(Len(w) - 1)
      PROVE  w[i].newPrice = w[i + 1].previousPrice
  <2>1. CASE i = Len(v)
    BY <1>1, <1>4, <2>1 DEF LeadTo
  <2>2. CASE i # Len(v)
    <3>1. i \in 1..(Len(v) - 1) /\ i \in 1..Len(v) /\ i + 1 \in 1..Len(v)
      BY <1>4, <2>2
    <3>2. QED
      BY <1>4, <3>1 DEF LeadTo
  <2>3. QED
    BY <2>1, <2>2
<1>6. QED
  BY <1>1, <1>4, <1>5 DEF LeadTo

LEMMA Repriced ==
    ASSUME NEW r, AwaitsPricing(r), NEW department \in RevisingDepartments,
           NEW q, q = UpdateCalculation(r, department)
    PROVE  RecordOK(q) /\ q.stage = r.stage /\ q.auditEvents = r.auditEvents
<1> DEFINE total == Calculated(r)
           revisions == IF total = r.salaryPreview THEN r.revisions
                        ELSE Append(r.revisions, Revision(department, r.salaryPreview, total))
<1>1. total \in Int
  BY InputAmount DEF AwaitsPricing
<1>2. q = [r EXCEPT !.salaryPreview = total, !.revisions = revisions]
  BY DEF UpdateCalculation
<1>3. LeadTo(revisions, total)
  BY <1>1, LeadsOn DEF AwaitsPricing
<1> HIDE DEF total, revisions
<1>4. /\ DOMAIN q = RecordFields /\ q.salaryPreview = total /\ q.revisions = revisions
      /\ \A k \in RecordFields \ {"salaryPreview", "revisions"} : q[k] = r[k]
  BY <1>2 DEF AwaitsPricing, RecordFields, InputFields
<1>5. InputOK(q) /\ SameFigures(r, q)
  BY <1>4 DEF AwaitsPricing, InputOK, SameFigures, RecordFields, InputFields
<1>6. DetailsOK(q) /\ q.finalSalary = {} /\ q.stage = r.stage /\ q.auditEvents = r.auditEvents
  BY <1>4 DEF AwaitsPricing, DetailsOK, RecordFields, InputFields
<1>7. Calculated(q) = total
  BY <1>5, SameAmount DEF total
<1>8. QED
  BY <1>3, <1>4, <1>5, <1>6, <1>7 DEF RecordOK, Priced, AwaitsPricing

LEMMA TrailGrows ==
    ASSUME NEW s \in Seq(Events), NEW e \in Events, NEW t, t = Append(s, e)
    PROVE  /\ t \in Seq(Events)
           /\ e.action \in {"approve", "finalize"}
                 => TrailSignatures(t) = TrailSignatures(s) \union {e.role}
           /\ e.action \notin {"approve", "finalize"} => TrailSignatures(t) = TrailSignatures(s)
<1> DEFINE n == Len(s)
<1>1. /\ t \in Seq(Events) /\ Len(t) = n + 1 /\ n \in Nat /\ DOMAIN s = 1..n /\ DOMAIN t = 1..(n + 1)
      /\ t[n + 1] = e /\ \A i \in 1..n : t[i] = s[i]
  OBVIOUS
<1> HIDE DEF n
<1>2. \A x \in TrailSignatures(s) : x \in TrailSignatures(t)
  BY <1>1 DEF TrailSignatures
<1>3. \A x \in TrailSignatures(t) : x \in TrailSignatures(s)
                                     \/ (e.action \in {"approve", "finalize"} /\ x = e.role)
  BY <1>1 DEF TrailSignatures
<1>4. e.action \in {"approve", "finalize"} => e.role \in TrailSignatures(t)
  BY <1>1 DEF TrailSignatures
<1>5. QED
  BY <1>1, <1>2, <1>3, <1>4

LEMMA SignaturesOfTrail == \A r : Signatures(r) = TrailSignatures(r.auditEvents)
BY DEF Signatures, TrailSignatures

\* The event of an operation enters the trail, and changes nothing else.
LEMMA EventPushed ==
    ASSUME NEW r, RecordOK(r), NEW e \in Events, NEW q, q = PushAudit(r, e)
    PROVE  /\ RecordOK(q) /\ q.stage = r.stage
           /\ e.action \in {"approve", "finalize"} => Signatures(q) = Signatures(r) \union {e.role}
           /\ e.action \notin {"approve", "finalize"} => Signatures(q) = Signatures(r)
<1> DEFINE t == Append(r.auditEvents, e)
<1>1. q = [r EXCEPT !.auditEvents = t]
  BY DEF PushAudit
<1>2. /\ t \in Seq(Events)
      /\ e.action \in {"approve", "finalize"}
            => TrailSignatures(t) = TrailSignatures(r.auditEvents) \union {e.role}
      /\ e.action \notin {"approve", "finalize"}
            => TrailSignatures(t) = TrailSignatures(r.auditEvents)
  BY TrailGrows DEF RecordOK, DetailsOK
<1> HIDE DEF t
<1>3. /\ DOMAIN q = RecordFields /\ q.auditEvents = t
      /\ \A k \in RecordFields \ {"auditEvents"} : q[k] = r[k]
  BY <1>1 DEF RecordOK, RecordFields, InputFields
<1>4. InputOK(q) /\ SameFigures(r, q) /\ q.stage = r.stage
  BY <1>3 DEF RecordOK, InputOK, SameFigures, RecordFields, InputFields
<1>5. DetailsOK(q)
  BY <1>2, <1>3 DEF RecordOK, DetailsOK, RecordFields, InputFields
<1>6. Priced(q)
  <2>1. /\ q.salaryPreview = r.salaryPreview /\ q.finalSalary = r.finalSalary
        /\ q.revisions = r.revisions
    BY <1>3 DEF RecordFields, InputFields
  <2>2. Calculated(q) = Calculated(r)
    BY <1>4, SameAmount
  <2>3. QED
    BY <1>4, <2>1, <2>2 DEF RecordOK, Priced
<1>7. RecordOK(q)
  BY <1>3, <1>4, <1>5, <1>6 DEF RecordOK
<1>8. QED
  BY <1>2, <1>3, <1>4, <1>7, SignaturesOfTrail

\* What a step of ApprovalRoute, or one that it does not see, does to a request.
OnRoute(r, q) ==
    \/ q.stage = r.stage /\ Signatures(q) = Signatures(r)
    \/ /\ r.stage \in Route!ReviewStages
       /\ q.stage = Route!After[r.stage]
       /\ Signatures(q) = Signatures(r) \union {Route!Department[r.stage]}
    \/ /\ r.stage \in Route!CancelledAt
       /\ q.stage = "cancelled"
       /\ Signatures(q) = Signatures(r)

RecordMoved(r, q) == RecordOK(q) /\ OnRoute(r, q)

\* A record in another stage; a paid one has its amount.
LEMMA RecordStaged ==
    ASSUME NEW r, RecordOK(r), r.stage # "completed",
           NEW s \in StageNames \ {"completed"}, NEW q, q = [r EXCEPT !.stage = s]
    PROVE  RecordOK(q) /\ q.stage = s /\ Signatures(q) = Signatures(r)
<1>1. /\ DOMAIN q = RecordFields /\ q.stage = s
      /\ \A k \in RecordFields \ {"stage"} : q[k] = r[k]
  BY DEF RecordOK, RecordFields, InputFields
<1>2. InputOK(q) /\ SameFigures(r, q)
  BY <1>1 DEF RecordOK, InputOK, SameFigures, RecordFields, InputFields
<1>3. DetailsOK(q) /\ q.auditEvents = r.auditEvents
  BY <1>1 DEF RecordOK, DetailsOK, RecordFields, InputFields
<1>4. Priced(q)
  <2>1. /\ q.salaryPreview = r.salaryPreview /\ q.finalSalary = r.finalSalary
        /\ q.revisions = r.revisions
    BY <1>1 DEF RecordFields, InputFields
  <2>2. Calculated(q) = Calculated(r)
    BY <1>2, SameAmount
  <2>3. QED
    BY <1>1, <2>1, <2>2 DEF RecordOK, Priced
<1>5. QED
  BY <1>1, <1>2, <1>3, <1>4, SignaturesOfTrail DEF RecordOK

LEMMA WithTimes ==
    ASSUME NEW r, AwaitsPricing(r), NEW departureAt \in Int, NEW returnAt \in Int, NEW meets \in BOOLEAN,
           NEW q, q = WithVerifiedTimes(r, departureAt, returnAt, meets)
    PROVE  AwaitsPricing(q) /\ q.stage = r.stage /\ q.auditEvents = r.auditEvents
<1> DEFINE departure == IF departureAt = NotVerified THEN r.verifiedDepartureAt ELSE departureAt
           start == IF departure = NotVerified THEN r.departureAt ELSE departure
           back == IF r.oneWay THEN start ELSE returnAt
           days == DateDifferenceInDays(start, back)
           hours == IF ~r.oneWay /\ meets THEN 7 ELSE 0
           same == IF days = 0 THEN hours ELSE 0
           later == IF days > 0 THEN hours ELSE 0
<1>1. departure \in Int /\ back \in Int /\ hours \in Nat
  BY DEF AwaitsPricing, InputOK, DetailsOK
<1>2. same \in Nat /\ later \in Nat
  BY <1>1
<1>3. q = [r EXCEPT !.verifiedDepartureAt = departure, !.verifiedReturnAt = back,
                    !.sameDayHours = same, !.returnDayHours = later]
  BY DEF WithVerifiedTimes
<1> HIDE DEF departure, start, back, days, hours, same, later
<1>4. /\ DOMAIN q = RecordFields
      /\ q.verifiedDepartureAt = departure /\ q.verifiedReturnAt = back
      /\ q.sameDayHours = same /\ q.returnDayHours = later
      /\ \A k \in RecordFields \ {"verifiedDepartureAt", "verifiedReturnAt", "sameDayHours",
                                  "returnDayHours"} : q[k] = r[k]
  BY <1>3 DEF AwaitsPricing, RecordFields, InputFields
<1>5. InputOK(q)
  BY <1>2, <1>4 DEF AwaitsPricing, InputOK, RecordFields, InputFields
<1>6. DetailsOK(q)
  BY <1>1, <1>4 DEF AwaitsPricing, DetailsOK, RecordFields, InputFields
<1>7. /\ q.stage = r.stage /\ q.auditEvents = r.auditEvents /\ q.finalSalary = r.finalSalary
      /\ q.salaryPreview = r.salaryPreview /\ q.revisions = r.revisions
  BY <1>4 DEF RecordFields, InputFields
<1>8. QED
  BY <1>4, <1>5, <1>6, <1>7 DEF AwaitsPricing

LEMMA WithLodging ==
    ASSUME NEW r, AwaitsPricing(r), NEW a, NEW q, q = [r EXCEPT !.accommodationType = a]
    PROVE  AwaitsPricing(q) /\ q.stage = r.stage /\ q.auditEvents = r.auditEvents
<1>1. /\ DOMAIN q = RecordFields
      /\ \A k \in RecordFields \ {"accommodationType"} : q[k] = r[k]
  BY DEF AwaitsPricing, RecordFields, InputFields
<1>2. InputOK(q) /\ DetailsOK(q)
  BY <1>1 DEF AwaitsPricing, InputOK, DetailsOK, RecordFields, InputFields
<1>3. /\ q.stage = r.stage /\ q.auditEvents = r.auditEvents /\ q.finalSalary = r.finalSalary
      /\ q.salaryPreview = r.salaryPreview /\ q.revisions = r.revisions
  BY <1>1 DEF RecordFields, InputFields
<1>4. QED
  BY <1>1, <1>2, <1>3 DEF AwaitsPricing

\* Whatever the reviewer's form changes, the record stays in its stage.
LEMMA ReviewPends ==
    ASSUME NEW r, AwaitsPricing(r), NEW role \in {"manager", "pr", "transportation", "timing"},
           NEW v \in Reviews(r, role)
    PROVE  AwaitsPricing(v) /\ v.stage = r.stage /\ v.auditEvents = r.auditEvents
<1>1. CASE role = "pr"
  <2>1. PICK a \in Lodgings : v = [r EXCEPT !.accommodationType = a]
    BY <1>1 DEF Reviews
  <2>2. QED
    BY <2>1, WithLodging
<1>2. CASE role = "timing"
  <2>1. v \in {WithVerifiedTimes(r, dates[1], dates[2], meets) :
                 dates \in {d \in (Verifiable \union {NotVerified}) \X Verifiable :
                              r.oneWay \/ (d[1] # NotVerified /\ d[2] > d[1])},
                 meets \in BOOLEAN}
    BY <1>2 DEF Reviews
  <2>2. PICK d \in (Verifiable \union {NotVerified}) \X Verifiable, meets \in BOOLEAN :
           v = WithVerifiedTimes(r, d[1], d[2], meets)
    BY <2>1
  <2>3. Verifiable \subseteq Int /\ NotVerified \in Int
    BY RepositoryAssumption DEF NotVerified
  <2>4. d[1] \in Int /\ d[2] \in Int
    BY <2>3
  <2>5. QED
    BY <2>2, <2>4, WithTimes
<1>3. CASE role \in {"manager", "transportation"}
  BY <1>3 DEF Reviews
<1>4. QED
  BY <1>1, <1>2, <1>3

LEMMA ApprovalMoves ==
    ASSUME NEW r, RecordOK(r), NEW u \in Reviewers, InQueueOf(r, u),
           NEW v \in Reviews(r, ReviewRole(u))
    PROVE  RecordMoved(r, Approved(v, u, ReviewRole(u)))
<1> DEFINE role == ReviewRole(u)
           next == StageAfter(r.stage)
           p == UpdateCalculation(v, role)
           q == [p EXCEPT !.stage = next]
           e == Event(u, role, "approve", r.stage, next)
<1>1. u \in Employees /\ role \in {"manager", "pr", "transportation", "timing"}
  BY ReviewRoleType
<1>2. r.stage = StageOf(role)
  BY DEF InQueueOf
<1> HIDE DEF role
<1>3. /\ r.stage \in StageNames \ {"completed"} /\ next \in StageNames \ {"completed"}
      /\ r.stage \in Route!ReviewStages
      /\ Route!After[r.stage] = next /\ Route!Department[r.stage] = role
  BY <1>1, <1>2, RoleStages, StagesFollow, StageNamesAre
     DEF Route!ReviewStages, Route!After, Route!Department
<1>4. AwaitsPricing(v) /\ v.stage = r.stage /\ v.auditEvents = r.auditEvents
  BY <1>1, <1>3, OpenIsPending, ReviewPends DEF role
<1>5. RecordOK(p) /\ p.stage = r.stage /\ Signatures(p) = Signatures(r)
  BY <1>1, <1>4, Repriced, SignaturesOfTrail DEF RevisingDepartments
<1> HIDE DEF next
<1>6. e \in Events /\ e.action = "approve" /\ e.role = role
  BY <1>1, <1>3 DEF Event, Events, ActionNames
<1>7. Approved(v, u, role) = PushAudit(q, e)
  BY <1>4, <1>5 DEF Approved, next
<1> HIDE DEF p, e
<1>8. RecordOK(q) /\ q.stage = next /\ Signatures(q) = Signatures(r)
  BY <1>3, <1>5, RecordStaged
<1> HIDE DEF q
<1>9. PICK z : z = PushAudit(q, e)
  OBVIOUS
<1>10. RecordOK(z) /\ z.stage = next /\ Signatures(z) = Signatures(r) \union {role}
  BY <1>6, <1>8, <1>9, EventPushed
<1>11. RecordMoved(r, z)
  BY <1>3, <1>10 DEF RecordMoved, OnRoute
<1>12. QED
  BY <1>7, <1>9, <1>11 DEF role

LEMMA RejectionMoves ==
    ASSUME NEW r, RecordOK(r), NEW u \in Reviewers, InQueueOf(r, u),
           ReviewRole(u) \in {"manager", "timing"},
           NEW z, z = PushAudit([r EXCEPT !.stage = "cancelled"],
                                Event(u, ReviewRole(u), "reject", r.stage, "cancelled"))
    PROVE  RecordMoved(r, z)
<1> DEFINE q == [r EXCEPT !.stage = "cancelled"]
           e == Event(u, ReviewRole(u), "reject", r.stage, "cancelled")
<1>1. u \in Employees /\ r.stage \in {"manager-review", "timing-review"}
  BY ReviewRoleType, RoleStages DEF InQueueOf
<1>2. /\ r.stage \in StageNames \ {"completed"} /\ "cancelled" \in StageNames \ {"completed"}
      /\ r.stage \in Route!CancelledAt
  BY <1>1, StageNamesAre DEF Route!CancelledAt, Route!MayCancel
<1>3. e \in Events /\ e.action = "reject"
  BY <1>1, <1>2 DEF Event, Events, ActionNames
<1>4. RecordOK(q) /\ q.stage = "cancelled" /\ Signatures(q) = Signatures(r)
  BY <1>2, RecordStaged
<1> HIDE DEF q, e
<1>5. z = PushAudit(q, e)
  BY DEF q, e
<1>6. RecordOK(z) /\ z.stage = "cancelled" /\ Signatures(z) = Signatures(r)
  BY <1>3, <1>4, <1>5, EventPushed
<1>7. QED
  BY <1>2, <1>6 DEF RecordMoved, OnRoute

LEMMA QuestionMoves ==
    ASSUME NEW r, RecordOK(r), NEW u \in Employees, r.stage = "manager-review",
           NEW z, z = PushAudit([r EXCEPT !.pendingEmployeeResponse = TRUE],
                                Event(u, "manager", "request-info", "manager-review", "manager-review"))
    PROVE  RecordMoved(r, z)
<1> DEFINE q == [r EXCEPT !.pendingEmployeeResponse = TRUE]
           e == Event(u, "manager", "request-info", "manager-review", "manager-review")
<1>1. e \in Events /\ e.action = "request-info"
  BY StageNamesAre DEF Event, Events, ActionNames
<1>2. /\ DOMAIN q = RecordFields /\ q.pendingEmployeeResponse \in BOOLEAN
      /\ \A k \in RecordFields \ {"pendingEmployeeResponse"} : q[k] = r[k]
  BY DEF RecordOK, RecordFields, InputFields
<1> HIDE DEF q
<1>3. InputOK(q) /\ SameFigures(r, q) /\ q.stage = r.stage
  BY <1>2 DEF RecordOK, InputOK, SameFigures, RecordFields, InputFields
<1>4. DetailsOK(q) /\ q.auditEvents = r.auditEvents
  BY <1>2 DEF RecordOK, DetailsOK, RecordFields, InputFields
<1>5. Priced(q)
  <2>1. /\ q.salaryPreview = r.salaryPreview /\ q.finalSalary = r.finalSalary
        /\ q.revisions = r.revisions
    BY <1>2 DEF RecordFields, InputFields
  <2>2. Calculated(q) = Calculated(r)
    BY <1>3, SameAmount
  <2>3. QED
    BY <1>3, <2>1, <2>2 DEF RecordOK, Priced
<1>6. RecordOK(q) /\ Signatures(q) = Signatures(r)
  BY <1>2, <1>3, <1>4, <1>5, SignaturesOfTrail DEF RecordOK
<1> HIDE DEF e
<1>7. z = PushAudit(q, e)
  BY DEF q, e
<1>8. RecordOK(z) /\ z.stage = r.stage /\ Signatures(z) = Signatures(r)
  BY <1>1, <1>3, <1>6, <1>7, EventPushed
<1>9. QED
  BY <1>8 DEF RecordMoved, OnRoute

LEMMA SalaryUpdateMoves ==
    ASSUME NEW r, RecordOK(r), r.stage = "salary-finalization", NEW f \in PayrollFigures,
           NEW entered, entered = [r EXCEPT !.cost = f.cost, !.costVerified = TRUE,
                                            !.bonus = f.bonus, !.penalty = f.penalty],
           NEW updated, updated = UpdateCalculation(entered, "Payroll"),
           NEW z, z = IF updated.salaryPreview = r.salaryPreview THEN updated
                      ELSE PushAudit(updated, Event("u8", "salary", "edit", r.stage, r.stage))
    PROVE  RecordMoved(r, z)
<1>1. f.cost \in Nat /\ f.bonus \in Nat /\ f.penalty \in Nat
  BY RepositoryAssumption
<1>2. AwaitsPricing(r)
  BY OpenIsPending
<1>3. /\ DOMAIN entered = RecordFields
      /\ entered.cost = f.cost /\ entered.bonus = f.bonus /\ entered.penalty = f.penalty
      /\ entered.costVerified \in BOOLEAN
      /\ \A k \in RecordFields \ {"cost", "bonus", "penalty", "costVerified"} : entered[k] = r[k]
  BY DEF RecordOK, RecordFields, InputFields
<1>4. InputOK(entered)
  BY <1>1, <1>2, <1>3 DEF AwaitsPricing, InputOK, RecordFields, InputFields
<1>5. DetailsOK(entered)
  BY <1>2, <1>3 DEF AwaitsPricing, DetailsOK, RecordFields, InputFields
<1>6. /\ entered.stage = r.stage /\ entered.auditEvents = r.auditEvents
      /\ entered.finalSalary = r.finalSalary
      /\ entered.salaryPreview = r.salaryPreview /\ entered.revisions = r.revisions
  BY <1>3 DEF RecordFields, InputFields
<1>7. AwaitsPricing(entered)
  BY <1>2, <1>3, <1>4, <1>5, <1>6 DEF AwaitsPricing
<1>8. RecordOK(updated) /\ updated.stage = r.stage /\ Signatures(updated) = Signatures(r)
  <2>1. "Payroll" \in RevisingDepartments
    BY DEF RevisingDepartments
  <2>2. RecordOK(updated) /\ updated.stage = entered.stage
        /\ updated.auditEvents = entered.auditEvents
    BY <1>7, <2>1, Repriced
  <2>3. QED
    BY <1>6, <2>2, SignaturesOfTrail
<1> DEFINE e == Event("u8", "salary", "edit", r.stage, r.stage)
<1>9. e \in Events /\ e.action = "edit"
  BY StageNamesAre DEF Event, Events, ActionNames, Employees
<1> HIDE DEF e
<1>10. z = updated \/ z = PushAudit(updated, e)
  BY DEF e
<1>11. RecordOK(z) /\ z.stage = r.stage /\ Signatures(z) = Signatures(r)
  BY <1>8, <1>9, <1>10, EventPushed
<1>12. QED
  BY <1>11 DEF RecordMoved, OnRoute

LEMMA FinalizationMoves ==
    ASSUME NEW r, RecordOK(r), r.stage = "salary-finalization",
           NEW z, z = PushAudit([r EXCEPT !.stage = "completed", !.finalSalary = {r.salaryPreview}],
                                Event("u8", "salary", "finalize", "salary-finalization", "completed"))
    PROVE  RecordMoved(r, z)
<1> DEFINE q == [r EXCEPT !.stage = "completed", !.finalSalary = {r.salaryPreview}]
           e == Event("u8", "salary", "finalize", "salary-finalization", "completed")
<1>1. e \in Events /\ e.action = "finalize" /\ e.role = "salary"
  BY StageNamesAre DEF Event, Events, ActionNames, Employees
<1>2. /\ DOMAIN q = RecordFields /\ q.stage = "completed" /\ q.finalSalary = {r.salaryPreview}
      /\ \A k \in RecordFields \ {"stage", "finalSalary"} : q[k] = r[k]
  BY DEF RecordOK, RecordFields, InputFields
<1> HIDE DEF q
<1>3. InputOK(q) /\ SameFigures(r, q)
  BY <1>2, StageNamesAre DEF RecordOK, InputOK, SameFigures, RecordFields, InputFields
<1>4. DetailsOK(q) /\ q.auditEvents = r.auditEvents
  BY <1>2 DEF RecordOK, DetailsOK, RecordFields, InputFields
<1>5. Priced(q)
  <2>1. q.salaryPreview = r.salaryPreview /\ q.revisions = r.revisions
    BY <1>2 DEF RecordFields, InputFields
  <2>2. Calculated(q) = Calculated(r)
    BY <1>3, SameAmount
  <2>3. QED
    BY <1>2, <2>1, <2>2 DEF RecordOK, Priced
<1>6. RecordOK(q) /\ Signatures(q) = Signatures(r)
  BY <1>2, <1>3, <1>4, <1>5, SignaturesOfTrail DEF RecordOK
<1> HIDE DEF e
<1>7. z = PushAudit(q, e)
  BY DEF q, e
<1>8. RecordOK(z) /\ z.stage = "completed" /\ Signatures(z) = Signatures(r) \union {"salary"}
  BY <1>1, <1>2, <1>6, <1>7, EventPushed
<1>9. /\ "salary-finalization" \in Route!ReviewStages
      /\ Route!After["salary-finalization"] = "completed"
      /\ Route!Department["salary-finalization"] = "salary"
  BY DEF Route!ReviewStages, Route!After, Route!Department
<1>10. QED
  BY <1>8, <1>9 DEF RecordMoved, OnRoute

\* A new request is a record that nobody has signed.
LEMMA CreationOK ==
    ASSUME NEW u \in Applicants, NEW form \in Forms,
           NEW request, request = Joined([k \in Recorded |-> form[k]],
                                         [employeeId |-> u, stage |-> "manager-review"]),
           NEW q, q = Built(Joined(request, Optional))
    PROVE  RecordOK(q) /\ q.stage = "manager-review" /\ Signatures(q) = {}
<1> DEFINE sent == [k \in Recorded |-> form[k]]
           header == [employeeId |-> u, stage |-> "manager-review"]
           input == Joined(request, Optional)
<1>1. DOMAIN sent = Recorded /\ \A k \in Recorded : sent[k] = form[k]
  OBVIOUS
<1>2. /\ DOMAIN header = {"employeeId", "stage"}
      /\ header.employeeId = u /\ header.stage = "manager-review"
  OBVIOUS
<1>3. /\ DOMAIN Optional = {"sameDayHours", "returnDayHours", "bonus", "penalty", "oneWay",
                            "managerId", "revisions"}
      /\ Optional.sameDayHours = 0 /\ Optional.returnDayHours = 0
      /\ Optional.bonus = 0 /\ Optional.penalty = 0 /\ Optional.revisions = <<>>
  BY Defaults DEF OptionsAre
<1> HIDE DEF sent, header
<1>4. request = Joined(sent, header)
  BY DEF sent, header
<1>5. /\ DOMAIN request = Recorded \union {"employeeId", "stage"}
      /\ \A k \in Recorded : request[k] = form[k]
      /\ request.employeeId = u /\ request.stage = "manager-review"
  BY <1>1, <1>2, <1>4 DEF Joined, Recorded
<1>6. DOMAIN input = InputFields
  <2>1. DOMAIN input = DOMAIN request \union DOMAIN Optional
    BY DEF Joined
  <2>2. QED
    BY <1>3, <1>5, <2>1 DEF Recorded, InputFields
<1>7. /\ \A k \in DOMAIN request : input[k] = request[k]
      /\ \A k \in DOMAIN Optional : k \notin DOMAIN request => input[k] = Optional[k]
  BY DEF Joined
<1> HIDE DEF input
<1>8. /\ input.employeeId = u /\ input.stage = "manager-review"
      /\ input.departureAt = form.departureAt /\ input.returnAt = form.returnAt
      /\ input.oneWay = form.oneWay /\ input.cost = form.cost /\ input.managerId = form.managerId
  BY <1>5, <1>7 DEF Recorded
<1>9. /\ input.sameDayHours = 0 /\ input.returnDayHours = 0
      /\ input.bonus = 0 /\ input.penalty = 0 /\ input.revisions = <<>>
  BY <1>3, <1>5, <1>7 DEF Recorded
<1>10. /\ u \in Employees /\ form.departureAt \in Int /\ form.returnAt \in Int
       /\ form.oneWay \in BOOLEAN /\ form.cost \in Nat /\ form.managerId \in Employees
  BY RepositoryAssumption
<1>11. InputOK(input)
  BY <1>8, <1>9, <1>10, StageNamesAre DEF InputOK
<1>12. LeadTo(input.revisions, Calculated(input))
  BY <1>9, NoRevisions
<1>13. q = Built(input)
  BY DEF input
<1>14. RecordOK(q) /\ q.stage = "manager-review" /\ Signatures(q) = SignedBefore("manager-review")
  BY <1>6, <1>8, <1>11, <1>12, <1>13, BuiltOK
<1>15. QED
  BY <1>14 DEF SignedBefore

(***************************************************************************)
(* The repository                                                          *)
(***************************************************************************)

\* At a stage a record has the signatures of the stages before it.
SignedOK(r) ==
    \/ r.stage \in Route!ReviewStages \union {"completed"} /\ Signatures(r) = Route!SignedAt(r.stage)
    \/ r.stage = "cancelled" /\ \E s \in Route!CancelledAt : Signatures(r) = Route!SignedAt(s)

RecordKept(r) == RecordOK(r) /\ SignedOK(r)

\* c requests have been created since the page was loaded, with consecutive numbers.
RepositoryInv ==
    /\ operations \in 0..MaxOperations
    /\ \E c \in 0..operations : DOMAIN records = SeedNumbers \union 842..(841 + c)
    /\ \A id \in DOMAIN records : RecordKept(records[id])

LEMMA MovesKeep ==
    ASSUME NEW r, RecordKept(r), NEW q, RecordMoved(r, q)
    PROVE  RecordKept(q)
<1>1. RecordOK(q) /\ OnRoute(r, q)
  BY DEF RecordMoved
<1>2. CASE q.stage = r.stage /\ Signatures(q) = Signatures(r)
  BY <1>1, <1>2 DEF RecordKept, SignedOK
<1>3. CASE /\ r.stage \in Route!ReviewStages
           /\ q.stage = Route!After[r.stage]
           /\ Signatures(q) = Signatures(r) \union {Route!Department[r.stage]}
  <2>1. Signatures(r) = Route!SignedAt(r.stage)
    BY <1>3 DEF RecordKept, SignedOK, Route!ReviewStages
  <2>2. /\ Route!After[r.stage] \in Route!ReviewStages \union {"completed"}
        /\ Route!SignedAt(Route!After[r.stage])
             = Route!SignedAt(r.stage) \union {Route!Department[r.stage]}
    BY <1>3 DEF Route!After, Route!Department, Route!Departments, Route!SignedAt, Route!ReviewStages
  <2>3. QED
    BY <1>1, <1>3, <2>1, <2>2 DEF RecordKept, SignedOK
<1>4. CASE /\ r.stage \in Route!CancelledAt /\ q.stage = "cancelled"
           /\ Signatures(q) = Signatures(r)
  <2>1. Signatures(r) = Route!SignedAt(r.stage)
    BY <1>4 DEF RecordKept, SignedOK, Route!CancelledAt, Route!MayCancel
  <2>2. QED
    BY <1>1, <1>4, <2>1 DEF RecordKept, SignedOK
<1>5. QED
  BY <1>1, <1>2, <1>3, <1>4 DEF OnRoute

LEMMA RepositoryInitInv == RepositoryInit => RepositoryInv
<1> SUFFICES ASSUME RepositoryInit PROVE RepositoryInv
  OBVIOUS
<1>1. /\ records = InitialRecords /\ operations = 0 /\ DOMAIN records = SeedNumbers
      /\ \A id \in SeedNumbers : RecordOK(records[id])
                                 /\ Signatures(records[id]) = SignedBefore(records[id].stage)
  BY SeedsOK DEF RepositoryInit
<1>2. operations \in 0..MaxOperations
  BY <1>1, RepositoryAssumption
<1>3. 842..(841 + 0) = {} /\ 0 \in 0..operations
  BY <1>1
<1>4. \E c \in 0..operations : DOMAIN records = SeedNumbers \union 842..(841 + c)
  BY <1>1, <1>3
<1>5. ASSUME NEW r, RecordOK(r), Signatures(r) = SignedBefore(r.stage)
      PROVE  SignedOK(r)
  <2>1. r.stage \in {"manager-review", "pr-review", "transportation-review", "timing-review",
                     "salary-finalization", "completed", "cancelled"}
    BY <1>5, StageNamesAre DEF RecordOK, InputOK
  <2>2. CASE r.stage = "cancelled"
    <3>1. Signatures(r) = {} /\ Route!SignedAt("manager-review") = {}
      BY <1>5, <2>2 DEF SignedBefore, Route!SignedAt
    <3>2. "manager-review" \in Route!CancelledAt
      BY DEF Route!CancelledAt, Route!MayCancel
    <3>3. QED
      BY <2>2, <3>1, <3>2 DEF SignedOK
  <2>3. CASE r.stage # "cancelled"
    <3>1. SignedBefore(r.stage) = Route!SignedAt(r.stage)
      BY <2>1, <2>3 DEF SignedBefore, Route!SignedAt, Route!Departments
    <3>2. QED
      BY <1>5, <2>1, <2>3, <3>1 DEF SignedOK, Route!ReviewStages
  <2>4. QED
    BY <2>2, <2>3
<1>6. QED
  BY <1>1, <1>2, <1>4, <1>5 DEF RepositoryInv, RecordKept

\* What a step does: one record moves, or the next number gets a new one.
RecordMoves(id) ==
    /\ id \in DOMAIN records
    /\ operations' = operations + 1 /\ operations < MaxOperations
    /\ RecordMoved(records[id], records'[id])
    /\ records' = [records EXCEPT ![id] = records'[id]]

RecordAdded(id) ==
    /\ operations' = operations + 1 /\ operations < MaxOperations
    /\ id = Largest(DOMAIN records) + 1
    /\ DOMAIN records' = DOMAIN records \union {id}
    /\ \A n \in DOMAIN records : records'[n] = records[n]
    /\ id \notin DOMAIN records =>
          RecordOK(records'[id]) /\ records'[id].stage = "manager-review"
          /\ Signatures(records'[id]) = {}

LEMMA BecomesMoves ==
    ASSUME NEW id \in DOMAIN records, NEW q, RecordMoved(records[id], q), Becomes(id, q)
    PROVE  RecordMoves(id)
<1>1. records' = [records EXCEPT ![id] = q] /\ records'[id] = q
  BY DEF Becomes
<1>2. QED
  BY <1>1 DEF Becomes, Counted, RecordMoves

LEMMA RepositoryStep ==
    ASSUME RepositoryInv, RepositoryNext
    PROVE  (\E id \in DOMAIN records : RecordMoves(id)) \/ (\E id : RecordAdded(id))
<1>1. \A id \in DOMAIN records : RecordOK(records[id])
  BY DEF RepositoryInv, RecordKept
<1>2. ASSUME NEW u \in Applicants, Create(u)
      PROVE  \E id : RecordAdded(id)
  <2> DEFINE id == Largest(DOMAIN records) + 1
  <2>1. PICK form \in Forms :
          LET request == Joined([k \in Recorded |-> form[k]],
                                [employeeId |-> u, stage |-> "manager-review"])
          IN  /\ Counted(id)
              /\ records' = Joined(records, [n \in {id} |-> Built(Joined(request, Optional))])
    BY <1>2 DEF Create
  <2>2. PICK request : request = Joined([k \in Recorded |-> form[k]],
                                        [employeeId |-> u, stage |-> "manager-review"])
    OBVIOUS
  <2>3. PICK q : q = Built(Joined(request, Optional))
    OBVIOUS
  <2>4. RecordOK(q) /\ q.stage = "manager-review" /\ Signatures(q) = {}
    BY <2>2, <2>3, CreationOK
  <2>5. Counted(id) /\ records' = Joined(records, [n \in {id} |-> q])
    BY <2>1, <2>2, <2>3
  <2>6. PICK i : i = id
    OBVIOUS
  <2> HIDE DEF id
  <2>7. PICK added : added = [n \in {i} |-> q]
    OBVIOUS
  <2>8. DOMAIN added = {i} /\ added[i] = q
    BY <2>7
  <2>9. records' = Joined(records, added)
    BY <2>5, <2>6, <2>7
  <2>10. /\ DOMAIN records' = DOMAIN records \union {i}
         /\ \A n \in DOMAIN records : records'[n] = records[n]
         /\ i \notin DOMAIN records => records'[i] = q
    BY <2>8, <2>9 DEF Joined
  <2>11. RecordAdded(i)
    BY <2>4, <2>5, <2>6, <2>10 DEF RecordAdded, Counted, id
  <2>12. QED
    BY <2>11
<1>3. ASSUME NEW id \in DOMAIN records, NEW u \in Reviewers, Approve(id, u)
      PROVE  RecordMoves(id)
  <2>1. PICK r : r = records[id]
    OBVIOUS
  <2>2. InQueueOf(r, u) /\ RecordOK(r)
    BY <1>1, <1>3, <2>1 DEF Approve
  <2>3. PICK v \in Reviews(r, ReviewRole(u)) : Becomes(id, Approved(v, u, ReviewRole(u)))
    BY <1>3, <2>1 DEF Approve
  <2>4. RecordMoved(r, Approved(v, u, ReviewRole(u)))
    BY <2>2, ApprovalMoves
  <2>5. QED
    BY <2>1, <2>3, <2>4, BecomesMoves
<1>4. ASSUME NEW id \in DOMAIN records, NEW u \in Reviewers, Reject(id, u)
      PROVE  RecordMoves(id)
  <2>1. PICK r : r = records[id]
    OBVIOUS
  <2>2. InQueueOf(r, u) /\ RecordOK(r) /\ ReviewRole(u) \in {"manager", "timing"}
    BY <1>1, <1>4, <2>1 DEF Reject
  <2>3. PICK z : z = PushAudit([r EXCEPT !.stage = "cancelled"],
                               Event(u, ReviewRole(u), "reject", r.stage, "cancelled"))
    OBVIOUS
  <2>4. RecordMoved(r, z)
    BY <2>2, <2>3, RejectionMoves
  <2>5. Becomes(id, z)
    BY <1>4, <2>1, <2>3 DEF Reject
  <2>6. QED
    BY <2>1, <2>4, <2>5, BecomesMoves
<1>5. ASSUME NEW id \in DOMAIN records, NEW u \in Employees, RequestInfo(id, u)
      PROVE  RecordMoves(id)
  <2>1. PICK r : r = records[id]
    OBVIOUS
  <2>2. RecordOK(r) /\ r.stage = "manager-review"
    BY <1>1, <1>5, <2>1 DEF RequestInfo
  <2>3. PICK z : z = PushAudit([r EXCEPT !.pendingEmployeeResponse = TRUE],
                               Event(u, "manager", "request-info", "manager-review", "manager-review"))
    OBVIOUS
  <2>4. RecordMoved(r, z)
    BY <2>2, <2>3, QuestionMoves
  <2>5. Becomes(id, z)
    BY <1>5, <2>1, <2>3 DEF RequestInfo
  <2>6. QED
    BY <2>1, <2>4, <2>5, BecomesMoves
<1>6. ASSUME NEW id \in DOMAIN records, UpdateSalary(id)
      PROVE  RecordMoves(id)
  <2>1. PICK r : r = records[id]
    OBVIOUS
  <2>2. RecordOK(r) /\ r.stage = "salary-finalization"
    BY <1>1, <1>6, <2>1 DEF UpdateSalary, AwaitsPayment
  <2>3. PICK f \in PayrollFigures :
          LET entered == [r EXCEPT !.cost = f.cost, !.costVerified = TRUE,
                                   !.bonus = f.bonus, !.penalty = f.penalty]
              updated == UpdateCalculation(entered, "Payroll")
          IN  Becomes(id, IF updated.salaryPreview = r.salaryPreview THEN updated
                          ELSE PushAudit(updated, Event("u8", "salary", "edit", r.stage, r.stage)))
    BY <1>6, <2>1 DEF UpdateSalary
  <2>4. PICK entered : entered = [r EXCEPT !.cost = f.cost, !.costVerified = TRUE,
                                           !.bonus = f.bonus, !.penalty = f.penalty]
    OBVIOUS
  <2>5. PICK updated : updated = UpdateCalculation(entered, "Payroll")
    OBVIOUS
  <2>6. PICK z : z = IF updated.salaryPreview = r.salaryPreview THEN updated
                     ELSE PushAudit(updated, Event("u8", "salary", "edit", r.stage, r.stage))
    OBVIOUS
  <2>7. RecordMoved(r, z)
    BY <2>2, <2>4, <2>5, <2>6, SalaryUpdateMoves
  <2>8. Becomes(id, z)
    BY <2>3, <2>4, <2>5, <2>6
  <2>9. QED
    BY <2>1, <2>7, <2>8, BecomesMoves
<1>7. ASSUME NEW id \in DOMAIN records, FinalizeSalary(id)
      PROVE  RecordMoves(id)
  <2>1. PICK r : r = records[id]
    OBVIOUS
  <2>2. RecordOK(r) /\ r.stage = "salary-finalization"
    BY <1>1, <1>7, <2>1 DEF FinalizeSalary
  <2>3. PICK z : z = PushAudit([r EXCEPT !.stage = "completed", !.finalSalary = {r.salaryPreview}],
                               Event("u8", "salary", "finalize", "salary-finalization", "completed"))
    OBVIOUS
  <2>4. RecordMoved(r, z)
    BY <2>2, <2>3, FinalizationMoves
  <2>5. Becomes(id, z)
    BY <1>7, <2>1, <2>3 DEF FinalizeSalary
  <2>6. QED
    BY <2>1, <2>4, <2>5, BecomesMoves
<1>8. QED
  BY <1>2, <1>3, <1>4, <1>5, <1>6, <1>7 DEF RepositoryNext

\* A new request gets a number that no request has had.
LEMMA NextNumber ==
    ASSUME NEW c \in Nat, DOMAIN records = SeedNumbers \union 842..(841 + c)
    PROVE  Largest(DOMAIN records) + 1 = 842 + c /\ 842 + c \notin DOMAIN records
<1> DEFINE S == DOMAIN records
<1>1. \A n \in SeedNumbers : n \in Int /\ n <= 841
  BY DEF SeedNumbers
<1>2. 841 \in SeedNumbers
  BY DEF SeedNumbers
<1>3. 841 + c \in S /\ \A n \in S : n \in Int /\ n <= 841 + c
  BY <1>1, <1>2
<1> HIDE DEF S
<1>4. Largest(S) = 841 + c
  <2>1. Largest(S) \in S /\ \A m \in S : m <= Largest(S)
    BY <1>3 DEF Largest
  <2>2. Largest(S) \in Int /\ Largest(S) <= 841 + c /\ 841 + c <= Largest(S)
    BY <1>3, <2>1
  <2>3. QED
    BY <2>2
<1>5. QED
  BY <1>3, <1>4 DEF S

LEMMA AdditionIsNew ==
    ASSUME RepositoryInv, NEW id, RecordAdded(id)
    PROVE  /\ id \notin DOMAIN records /\ id \in Numbers
           /\ \E c \in 0..(operations + 1) : DOMAIN records' = SeedNumbers \union 842..(841 + c)
<1>1. PICK c \in 0..operations : DOMAIN records = SeedNumbers \union 842..(841 + c)
  BY DEF RepositoryInv
<1>2. operations \in Nat /\ operations < MaxOperations /\ MaxOperations \in Nat /\ c \in Nat
  BY RepositoryAssumption DEF RepositoryInv, RecordAdded
<1>3. id = 842 + c /\ id \notin DOMAIN records
  BY <1>1, <1>2, NextNumber DEF RecordAdded
<1>4. id \in Numbers
  BY <1>2, <1>3 DEF Numbers
<1>5. 842..(841 + (c + 1)) = 842..(841 + c) \union {842 + c} /\ c + 1 \in 0..(operations + 1)
  BY <1>2
<1>6. DOMAIN records' = SeedNumbers \union 842..(841 + (c + 1))
  BY <1>1, <1>3, <1>5 DEF RecordAdded
<1>7. QED
  BY <1>3, <1>4, <1>5, <1>6

LEMMA RepositoryStepInv == RepositoryInv /\ [RepositoryNext]_repositoryVars => RepositoryInv'
<1> SUFFICES ASSUME RepositoryInv, [RepositoryNext]_repositoryVars PROVE RepositoryInv'
  OBVIOUS
<1>1. CASE UNCHANGED repositoryVars
  BY <1>1 DEF repositoryVars, RepositoryInv
<1>2. ASSUME NEW id \in DOMAIN records, RecordMoves(id)
      PROVE  RepositoryInv'
  <2>1. DOMAIN records' = DOMAIN records /\ \A n \in DOMAIN records : n # id => records'[n] = records[n]
    BY <1>2 DEF RecordMoves
  <2>2. RecordKept(records'[id])
    BY <1>2, MovesKeep DEF RecordMoves, RepositoryInv
  <2>3. \A n \in DOMAIN records' : RecordKept(records'[n])
    BY <2>1, <2>2 DEF RepositoryInv
  <2>4. operations' \in 0..MaxOperations /\ \A c \in 0..operations : c \in 0..operations'
    BY <1>2, RepositoryAssumption DEF RepositoryInv, RecordMoves
  <2>5. \E c \in 0..operations' : DOMAIN records' = SeedNumbers \union 842..(841 + c)
    BY <2>1, <2>4 DEF RepositoryInv
  <2>6. QED
    BY <2>3, <2>4, <2>5 DEF RepositoryInv
<1>3. ASSUME NEW id, RecordAdded(id)
      PROVE  RepositoryInv'
  <2>1. /\ id \notin DOMAIN records
        /\ \E c \in 0..(operations + 1) : DOMAIN records' = SeedNumbers \union 842..(841 + c)
    BY <1>3, AdditionIsNew
  <2>2. RecordKept(records'[id])
    <3>1. RecordOK(records'[id]) /\ records'[id].stage = "manager-review"
          /\ Signatures(records'[id]) = {}
      BY <1>3, <2>1 DEF RecordAdded
    <3>2. "manager-review" \in Route!ReviewStages /\ Route!SignedAt("manager-review") = {}
      BY DEF Route!ReviewStages, Route!SignedAt
    <3>3. QED
      BY <3>1, <3>2 DEF RecordKept, SignedOK
  <2>3. \A n \in DOMAIN records' : RecordKept(records'[n])
    BY <1>3, <2>2 DEF RepositoryInv, RecordAdded
  <2>4. operations' \in 0..MaxOperations /\ operations' = operations + 1
    BY <1>3, RepositoryAssumption DEF RepositoryInv, RecordAdded
  <2>5. QED
    BY <2>1, <2>3, <2>4 DEF RepositoryInv
<1>4. QED
  BY <1>1, <1>2, <1>3, RepositoryStep

LEMMA RepositorySpecInv == RepositorySpec => []RepositoryInv
<1>1. QED
  BY RepositoryInitInv, RepositoryStepInv, PTL DEF RepositorySpec

LEMMA KeptType ==
    ASSUME NEW r, RecordOK(r)
    PROVE  /\ r.employeeId \in Employees /\ r.managerId \in Employees
           /\ r.stage \in StageNames
           /\ {r.verifiedDepartureAt, r.verifiedReturnAt} \subseteq Instant
           /\ {r.sameDayHours, r.returnDayHours, r.cost, r.bonus, r.penalty} \subseteq Nat
           /\ r.salaryPreview \in Amount /\ r.finalSalary \subseteq Amount
           /\ {r.costVerified, r.oneWay, r.pendingEmployeeResponse} \subseteq BOOLEAN
           /\ \A i \in DOMAIN r.auditEvents : r.auditEvents[i].to \in StageNames
<1>1. r.salaryPreview \in Int /\ r.finalSalary \subseteq Int
  BY InputAmount DEF RecordOK, Priced
<1>2. \A i \in DOMAIN r.auditEvents : r.auditEvents[i].to \in StageNames
  <2>1. PICK t : t = r.auditEvents
    OBVIOUS
  <2>2. t \in Seq(Events)
    BY <2>1 DEF RecordOK, DetailsOK
  <2>3. \A i \in DOMAIN t : t[i] \in Events
    BY <2>2
  <2>4. QED
    BY <2>1, <2>3 DEF Events
<1>3. /\ r.employeeId \in Employees /\ r.managerId \in Employees /\ r.stage \in StageNames
      /\ {r.verifiedDepartureAt, r.verifiedReturnAt} \subseteq Int
      /\ {r.sameDayHours, r.returnDayHours, r.cost, r.bonus, r.penalty} \subseteq Nat
  BY DEF RecordOK, InputOK, DetailsOK
<1>4. r.costVerified \in BOOLEAN /\ r.oneWay \in BOOLEAN /\ r.pendingEmployeeResponse \in BOOLEAN
  BY DEF RecordOK, InputOK, DetailsOK
<1>5. {r.costVerified, r.oneWay, r.pendingEmployeeResponse} \subseteq BOOLEAN
  BY <1>4
<1>6. QED
  BY <1>1, <1>2, <1>3, <1>5 DEF Instant, Amount

LEMMA InvType == RepositoryInv => RepositoryTypeOK
<1> SUFFICES ASSUME RepositoryInv PROVE RepositoryTypeOK
  OBVIOUS
<1>1. PICK c \in 0..operations : DOMAIN records = SeedNumbers \union 842..(841 + c)
  BY DEF RepositoryInv
<1>2. SeedNumbers \subseteq DOMAIN records /\ DOMAIN records \subseteq Numbers
  BY <1>1, RepositoryAssumption DEF RepositoryInv, Numbers
<1>3. ASSUME NEW id \in DOMAIN records
      PROVE  RecordOK(records[id])
  BY DEF RepositoryInv, RecordKept
<1>4. QED
  BY <1>2, <1>3, KeptType DEF RepositoryInv, RepositoryTypeOK

\* The records of the page keep their shape whatever is done to them, and no
\* operation loses a request that the page started with.
THEOREM RepositoryTypeCorrect == RepositorySpec => []RepositoryTypeOK
<1>1. QED
  BY RepositorySpecInv, InvType, PTL

LEMMA InvPrices == RepositoryInv => PricesAreExplained
<1> SUFFICES ASSUME RepositoryInv PROVE PricesAreExplained
  OBVIOUS
<1>1. \A id \in DOMAIN records : Priced(records[id])
  BY DEF RepositoryInv, RecordKept, RecordOK
<1>2. QED
  BY <1>1 DEF PricesAreExplained, Priced, LeadTo

\* Whatever payroll and the reviewers enter, and in whatever order, the revisions
\* of a request lead without a gap to the amount shown, which is the one its own
\* figures give, and a paid request is paid that amount.
THEOREM PricesAlwaysExplained == RepositorySpec => []PricesAreExplained
<1>1. QED
  BY RepositorySpecInv, InvPrices, PTL

(***************************************************************************)
(* The requests follow the route of ApprovalRoute                          *)
(***************************************************************************)

LEMMA MapType ==
    /\ Stage = [id \in Numbers |-> IF id \in DOMAIN records THEN records[id].stage ELSE "none"]
    /\ DOMAIN Stage = Numbers /\ DOMAIN Signed = Numbers
    /\ \A id \in Numbers : Stage[id] = IF id \in DOMAIN records THEN records[id].stage ELSE "none"
    /\ \A id \in Numbers : Signed[id] = IF id \in DOMAIN records THEN Signatures(records[id]) ELSE {}
BY DEF Stage, Signed

\* The signatures of a sound history are the departments'.
LEMMA SignedAtType ==
    \A s \in Route!ReviewStages \union {"none", "completed", "cancelled"} :
        Route!SignedAt(s) \in SUBSET Route!Departments
BY DEF Route!SignedAt, Route!ReviewStages, Route!Departments

LEMMA InvSignedInTurn == RepositoryInv => Route!SignedInTurn
<1> SUFFICES ASSUME RepositoryInv PROVE Route!SignedInTurn
  OBVIOUS
<1>1. ASSUME NEW id \in Numbers
      PROVE  /\ Stage[id] \in Route!ReviewStages \union {"none", "completed", "cancelled"}
             /\ Signed[id] \in SUBSET Route!Departments
             /\ Route!InTurn(id, Route!CancelledAt)
  <2>1. CASE id \notin DOMAIN records
    <3>1. Stage[id] = "none" /\ Signed[id] = {} /\ Route!SignedAt("none") = {}
      BY <2>1, MapType DEF Route!SignedAt
    <3>2. QED
      BY <3>1 DEF Route!InTurn
  <2>2. CASE id \in DOMAIN records
    <3>1. Stage[id] = records[id].stage /\ Signed[id] = Signatures(records[id])
      BY <2>2, MapType
    <3>2. SignedOK(records[id])
      BY <2>2 DEF RepositoryInv, RecordKept
    <3>3. Route!CancelledAt \subseteq Route!ReviewStages
      BY DEF Route!CancelledAt, Route!MayCancel, Route!ReviewStages
    <3>4. QED
      BY <3>1, <3>2, <3>3, SignedAtType DEF SignedOK, Route!InTurn
  <2>3. QED
    BY <2>1, <2>2
<1>2. /\ Stage \in [Numbers -> Route!ReviewStages \union {"none", "completed", "cancelled"}]
      /\ Signed \in [Numbers -> SUBSET Route!Departments]
  BY <1>1 DEF Stage, Signed
<1>3. QED
  BY <1>1, <1>2 DEF Route!SignedInTurn

\* The page starts with requests that are on the documents' route: the cancelled
\* one among them was rejected by its manager.
LEMMA InitOnRoute == RepositoryInit => Route!Init
<1> SUFFICES ASSUME RepositoryInit PROVE Route!Init
  OBVIOUS
<1>1. Route!SignedInTurn
  BY RepositoryInitInv, InvSignedInTurn
<1>2. ASSUME NEW id \in Numbers
      PROVE  Route!InTurn(id, Route!MayCancel)
  <2>1. CASE Stage[id] # "cancelled"
    BY <1>1, <2>1 DEF Route!SignedInTurn, Route!InTurn
  <2>2. CASE Stage[id] = "cancelled"
    <3>1. id \in SeedNumbers /\ records[id].stage = "cancelled"
      BY <2>2, MapType, SeedsOK DEF RepositoryInit
    <3>2. Signatures(records[id]) = {}
      BY <3>1, SeedsOK DEF RepositoryInit, SignedBefore
    <3>3. Signed[id] = {} /\ Route!SignedAt("manager-review") = {}
      BY <2>2, <3>2, MapType DEF Route!SignedAt
    <3>4. QED
      BY <2>2, <3>3 DEF Route!InTurn, Route!MayCancel
  <2>3. QED
    BY <2>1, <2>2
<1>3. QED
  BY <1>1, <1>2 DEF Route!SignedInTurn, Route!Init

\* The route sees a request that keeps its stage and its signatures as standing still.
LEMMA MoveMapsToRoute ==
    ASSUME RepositoryInv, NEW id \in DOMAIN records, RecordMoves(id)
    PROVE  [Route!NextButForTiming]_(Route!vars)
<1> DEFINE r == records[id]
           q == records'[id]
<1>1. /\ OnRoute(r, q) /\ DOMAIN records' = DOMAIN records
      /\ \A n \in DOMAIN records : n # id => records'[n] = records[n]
  BY DEF RecordMoves, RecordMoved
<1>2. id \in Numbers
  BY InvType DEF RepositoryTypeOK
<1>3. Stage[id] = r.stage /\ Signed[id] = Signatures(r)
  BY <1>2, MapType
<1>4. Stage' = [Stage EXCEPT ![id] = q.stage]
  BY <1>1, <1>2 DEF Stage
<1>5. Signed' = [Signed EXCEPT ![id] = Signatures(q)]
  <2>1. \A n \in DOMAIN records : Signatures(records[n])' = Signatures(records'[n])
    BY DEF Signatures
  <2>2. Signed' = [n \in Numbers |-> IF n \in DOMAIN records THEN Signatures(records'[n]) ELSE {}]
    BY <1>1, <2>1 DEF Signed, Signatures
  <2>3. QED
    BY <1>1, <1>2, <2>2 DEF Signed
<1> HIDE DEF r, q
<1>6. CASE q.stage = r.stage /\ Signatures(q) = Signatures(r)
  <2>1. Stage' = Stage /\ Signed' = Signed
    BY <1>3, <1>4, <1>5, <1>6 DEF Stage, Signed
  <2>2. QED
    BY <2>1 DEF Route!vars
<1>7. CASE /\ r.stage \in Route!ReviewStages
           /\ q.stage = Route!After[r.stage]
           /\ Signatures(q) = Signatures(r) \union {Route!Department[r.stage]}
  <2>1. Signed' = [Signed EXCEPT ![id] = @ \union {Route!Department[Stage[id]]}]
    BY <1>2, <1>3, <1>5, <1>7, MapType
  <2>2. Route!Sign(id)
    BY <1>3, <1>4, <1>7, <2>1 DEF Route!Sign
  <2>3. QED
    BY <1>2, <2>2 DEF Route!NextButForTiming, Route!Next
<1>8. CASE /\ r.stage \in Route!CancelledAt /\ q.stage = "cancelled"
           /\ Signatures(q) = Signatures(r)
  <2>1. Signed' = Signed
    BY <1>3, <1>5, <1>8 DEF Signed
  <2>2. Route!Leave(id, r.stage)
    BY <1>3, <1>4, <1>8, <2>1 DEF Route!Leave
  <2>3. Route!Cancel(id) \/ Route!TimingRejects(id)
    BY <1>8, <2>2 DEF Route!CancelledAt, Route!Cancel, Route!TimingRejects
  <2>4. QED
    BY <1>2, <2>3 DEF Route!NextButForTiming, Route!Next
<1>9. QED
  BY <1>1, <1>6, <1>7, <1>8 DEF OnRoute, r, q

LEMMA AdditionMapsToRoute ==
    ASSUME RepositoryInv, NEW id, RecordAdded(id)
    PROVE  Route!Next
<1>1. id \notin DOMAIN records /\ id \in Numbers
  BY AdditionIsNew
<1>2. /\ DOMAIN records' = DOMAIN records \union {id}
      /\ \A n \in DOMAIN records : records'[n] = records[n]
      /\ records'[id].stage = "manager-review" /\ Signatures(records'[id]) = {}
  BY <1>1 DEF RecordAdded
<1>3. Stage[id] = "none" /\ Signed[id] = {}
  BY <1>1, MapType
<1>4. Stage' = [Stage EXCEPT ![id] = "manager-review"]
  BY <1>1, <1>2 DEF Stage
<1>5. Signed' = Signed
  <2>1. Signed' = [n \in Numbers |-> IF n \in DOMAIN records' THEN Signatures(records'[n]) ELSE {}]
    BY DEF Signed, Signatures
  <2>2. \A n \in Numbers : (IF n \in DOMAIN records' THEN Signatures(records'[n]) ELSE {})
                             = (IF n \in DOMAIN records THEN Signatures(records[n]) ELSE {})
    BY <1>1, <1>2
  <2>3. QED
    BY <2>1, <2>2 DEF Signed
<1>6. Route!Submit(id)
  BY <1>3, <1>4, <1>5 DEF Route!Submit
<1>7. QED
  BY <1>1, <1>6 DEF Route!Next

LEMMA StepMapsToRoute ==
    RepositoryInv /\ [RepositoryNext]_repositoryVars => [Route!NextButForTiming]_(Route!vars)
<1> SUFFICES ASSUME RepositoryInv, [RepositoryNext]_repositoryVars
             PROVE  [Route!NextButForTiming]_(Route!vars)
  OBVIOUS
<1>1. CASE UNCHANGED repositoryVars
  <2>1. Stage' = Stage /\ Signed' = Signed
    BY <1>1 DEF repositoryVars, Stage, Signed, Signatures
  <2>2. QED
    BY <2>1 DEF Route!vars
<1>2. QED
  BY <1>1, RepositoryStep, MoveMapsToRoute, AdditionMapsToRoute DEF Route!NextButForTiming

\* The stand-in for the server keeps to ApprovalRoute as far as the server does: but
\* for timing's rejections, which the documents exclude, the requests of the page
\* pass the five departments one after the other, and their audit trails show the
\* signatures (developmentRepository.ts).
THEOREM RepositoryFollowsRoute == RepositorySpec => FollowsRouteButForTiming
<1>1. QED
  BY InitOnRoute, StepMapsToRoute, RepositorySpecInv, PTL
     DEF RepositorySpec, FollowsRouteButForTiming, Route!SpecButForTiming

\* A request of the page is paid only with all five signatures, one under review
\* has exactly those of the departments before its stage, and a cancelled one those
\* it had when the manager or timing rejected it.
THEOREM RepositorySignsInTurn == RepositorySpec => []Route!SignedInTurn
<1>1. QED
  BY RepositorySpecInv, InvSignedInTurn, PTL
=============================================================================
