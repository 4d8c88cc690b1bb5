--------------------------- MODULE BrowserSession ---------------------------
(***************************************************************************)
(* The tabs of one browser against the server's sessions: AuthContext.tsx, *)
(* authApi.ts and api.ts on one side, csrfProtection.ts, authMiddleware.ts *)
(* and authRoutes.ts on the other, on top of the promise of SessionTable.  *)
(*                                                                         *)
(* The session cookie belongs to the browser, the user shown and the CSRF  *)
(* token to a tab.  Calls overlap, their answers may be lost or overtake   *)
(* each other, and a call may be handled after its tab has given it up.    *)
(***************************************************************************)
EXTENDS SessionTable

CONSTANTS
    Tabs,
    Calls,        \* calls that can be under way at once
    Nil,          \* no user, no token, no cookie
    Identity,     \* the Windows user IIS reports for this browser
    MaxSessions   \* bound: sessions issued

ASSUME BrowserAssumption ==
    /\ Identity \in Users
    /\ Nil \notin Nat /\ Nil \notin Users /\ Nil \notin Tabs
    /\ MaxSessions \in Nat

VARIABLES
    mode,      \* "iis" or "password": AUTH_MODE and VITE_AUTH_MODE agree
    active,    \* users the store lists as active
    cookie,    \* the session cookie of the browser
    tabs,      \* what each tab keeps: user, csrf, loading
    calls      \* the calls under way

vars == <<issued, live, mode, active, cookie, tabs, calls>>

\* A session and its CSRF token are created together: the token of session t
\* is t.
Token == Nat \ {0}

TabState ==
    [user : Users \union {Nil}, csrf : Token \union {Nil}, loading : BOOLEAN]

Kind == {"me", "login", "logout", "read", "write"}

\* shown: the user the tab showed when it asked for a write (history).
\* session: request.sessionToken.  user, csrf: the body of the answer.
\* setCookie: the answer's Set-Cookie, Nil clears, 0 leaves the cookie alone.
Call ==
    [tab : Tabs \union {Nil}, kind : Kind, at : {"sent", "finding", "entering", "answered"},
     cookie : Token \union {Nil}, token : Token \union {Nil}, shown : Users \union {Nil},
     session : Token \union {Nil}, status : {"none", "ok", "401", "403", "network"},
     user : Users \union {Nil}, csrf : Token \union {Nil}, setCookie : Nat \union {Nil}]

Free == [at |-> "free"]

TypeOK ==
    /\ issued \in Seq(Users)
    /\ live \subseteq Tokens
    /\ mode \in {"iis", "password"}
    /\ active \subseteq Users
    /\ cookie \in Tokens \union {Nil}
    /\ tabs \in [Tabs -> TabState]
    /\ calls \in [Calls -> Call \union {Free}]

Blank == [user |-> Nil, csrf |-> Nil, loading |-> FALSE]

Init ==
    /\ TableInit
    /\ mode \in {"iis", "password"}
    /\ active = Users
    /\ cookie = Nil
    /\ tabs = [t \in Tabs |-> Blank]
    /\ calls = [c \in Calls |-> Free]

server == <<issued, live, mode, active>>

----------------------------------------------------------------------------
(* The tab makes calls *)

\* request(): the cookie and, for a POST, the token go out as they are now.
NewCall(t, kind) ==
    [tab |-> t, kind |-> kind, at |-> "sent", cookie |-> cookie,
     token |-> IF kind \in {"login", "logout", "write"} THEN tabs[t].csrf ELSE Nil,
     shown |-> IF kind = "write" THEN tabs[t].user ELSE Nil, session |-> Nil, status |-> "none",
     user |-> Nil, csrf |-> Nil, setCookie |-> 0]

MadeBy(t, kind) == {c \in Calls : calls[c].at # "free" /\ calls[c].tab = t /\ calls[c].kind = kind}

\* The page is opened or reloaded: its calls are given up, a session restored.
Load(t, c) ==
    /\ calls[c].at = "free"
    /\ tabs' = [tabs EXCEPT ![t] = [Blank EXCEPT !.loading = TRUE]]
    /\ calls' = [d \in Calls |->
           IF d = c THEN NewCall(t, "me")
           ELSE IF calls[d].at # "free" /\ calls[d].tab = t THEN [calls[d] EXCEPT !.tab = Nil]
           ELSE calls[d]]
    /\ UNCHANGED <<server, cookie>>

\* "Try Windows sign-in again" on the login page.
Restore(t, c) ==
    /\ mode = "iis"
    /\ calls[c].at = "free"
    /\ tabs[t].user = Nil /\ ~tabs[t].loading
    /\ tabs' = [tabs EXCEPT ![t].loading = TRUE]
    /\ calls' = [calls EXCEPT ![c] = NewCall(t, "me")]
    /\ UNCHANGED <<server, cookie>>

\* The login page is shown without regard to loading or to a user.
SubmitLogin(t, c) ==
    /\ mode = "password"
    /\ calls[c].at = "free"
    /\ MadeBy(t, "login") = {}
    /\ calls' = [calls EXCEPT ![c] = NewCall(t, "login")]
    /\ UNCHANGED <<server, cookie, tabs>>

\* ProtectedRoute shows a page to a known user only, once one is restored.
Protected(t) == tabs[t].user # Nil /\ ~tabs[t].loading

\* The token is cleared only after the call has taken it.
Logout(t, c) ==
    /\ calls[c].at = "free"
    /\ Protected(t)
    /\ calls' = [calls EXCEPT ![c] = NewCall(t, "logout")]
    /\ tabs' = [tabs EXCEPT ![t].user = Nil, ![t].csrf = Nil]
    /\ UNCHANGED <<server, cookie>>

\* Any other call of the pages.
Use(t, c, kind) ==
    /\ kind \in {"read", "write"}
    /\ calls[c].at = "free"
    /\ Protected(t)
    /\ calls' = [calls EXCEPT ![c] = NewCall(t, kind)]
    /\ UNCHANGED <<server, cookie, tabs>>

----------------------------------------------------------------------------
(* The server handles them *)

Answer(c, status, user, csrf, set) ==
    [calls[c] EXCEPT !.at = "answered", !.cookie = Nil, !.status = status, !.user = user,
                     !.csrf = csrf, !.setCookie = set]

Refuse(c, status) == calls' = [calls EXCEPT ![c] = Answer(c, status, Nil, Nil, 0)]

\* Mutant: the token must be that of some session, not of the cookie's.
ValidAnywhere(c) == calls[c].cookie \in live /\ calls[c].token \in live

\* isValidCsrfToken: the session is in the table, expired or not.
ValidCsrfToken(c) == calls[c].cookie \in live /\ calls[c].token = calls[c].cookie

\* csrfProtection: whether a call reaches the handlers.
PassesCsrf(c) ==
    \/ calls[c].kind \in {"me", "read"}
    \/ calls[c].cookie = Nil /\ mode = "password"
    \/ ValidCsrfToken(c)

RefuseForgery(c) ==
    /\ calls[c].at = "sent" /\ calls[c].kind # "login"
    /\ ~PassesCsrf(c)
    /\ Refuse(c, "403")
    /\ UNCHANGED <<server, cookie, tabs>>

\* userForSession finds the session good; the user lookup is awaited.
FindSession(c) ==
    /\ calls[c].at = "sent" /\ calls[c].kind # "login"
    /\ PassesCsrf(c)
    /\ calls[c].cookie \in live
    /\ calls' = [calls EXCEPT ![c].at = "finding", ![c].session = calls[c].cookie]
    /\ UNCHANGED <<server, cookie, tabs>>

\* There is no session, or it has expired and goes.  Behind IIS the identity
\* is looked up instead.
MissSession(c) ==
    /\ calls[c].at = "sent" /\ calls[c].kind # "login"
    /\ PassesCsrf(c)
    /\ End({calls[c].cookie})
    /\ IF mode = "iis" THEN calls' = [calls EXCEPT ![c].at = "entering"]
       ELSE Refuse(c, "401")
    /\ UNCHANGED <<mode, active, cookie, tabs>>

\* The session's user is not active: as if there were no session.
FindNobody(c) ==
    /\ calls[c].at = "finding"
    /\ issued[calls[c].session] \notin active
    /\ IF mode = "iis"
       THEN calls' = [calls EXCEPT ![c].at = "entering", ![c].session = Nil]
       ELSE calls' = [calls EXCEPT ![c] = [Answer(c, "401", Nil, Nil, 0) EXCEPT !.session = Nil]]
    /\ UNCHANGED <<server, cookie, tabs>>

\* The handler: /auth/me, /auth/logout or another one, in session s.
Handled(c, s, u, table, set) ==
    CASE calls[c].kind = "me" ->
           Answer(c, "ok", u, IF s \in table THEN s ELSE Nil, set)
      [] calls[c].kind = "logout" -> Answer(c, "ok", Nil, Nil, Nil)
      [] OTHER -> Answer(c, "ok", Nil, Nil, set)

\* deleteSession of the cookie's token, on logout.
SignedOut(c) == IF calls[c].kind = "logout" THEN {calls[c].cookie} ELSE {}

HandleInSession(c) ==
    /\ calls[c].at = "finding"
    /\ issued[calls[c].session] \in active
    /\ End(SignedOut(c))
    /\ calls' = [calls EXCEPT ![c] =
           Handled(c, calls[c].session, issued[calls[c].session], live, 0)]
    /\ UNCHANGED <<mode, active, cookie, tabs>>

\* Mutant: the answer names the session before.
LastToken == Len(issued)

\* The token of the session that is about to be created.
NextToken == Len(issued) + 1

\* createSession for the Windows user, and the handler right after it.
HandleFromProxy(c) ==
    LET s == NextToken
    IN  /\ calls[c].at = "entering"
        /\ Identity \in active
        /\ Len(issued) < MaxSessions
        /\ Issue(Identity, SignedOut(c))
        /\ calls' = [calls EXCEPT ![c] =
               [Handled(c, s, Identity, live', s) EXCEPT !.session = s]]
        /\ UNCHANGED <<mode, active, cookie, tabs>>

RefuseIdentity(c) ==
    /\ calls[c].at = "entering"
    /\ Identity \notin active
    /\ Refuse(c, "403")
    /\ UNCHANGED <<server, cookie, tabs>>

\* POST /auth/login with the right password, and with a wrong one.
GrantLogin(c, u) ==
    LET s == NextToken
    IN  /\ calls[c].at = "sent" /\ calls[c].kind = "login"
        /\ u \in active
        /\ Len(issued) < MaxSessions
        /\ \E ending \in SUBSET {t \in live : issued[t] = u} : Issue(u, ending)
        /\ calls' = [calls EXCEPT ![c] = Answer(c, "ok", u, s, s)]
        /\ UNCHANGED <<mode, active, cookie, tabs>>

RefuseLogin(c) ==
    /\ calls[c].at = "sent" /\ calls[c].kind = "login"
    /\ Refuse(c, "401")
    /\ UNCHANGED <<server, cookie, tabs>>

\* Sessions end by a sweep, an eviction, a sign-out on another machine or a
\* restart of the server.
EndSession(s) ==
    /\ End({s})
    /\ UNCHANGED <<mode, active, cookie, tabs, calls>>

Import(u) ==
    /\ active' = IF u \in active THEN active \ {u} ELSE active \union {u}
    /\ UNCHANGED <<issued, live, mode, cookie, tabs, calls>>

----------------------------------------------------------------------------
(* The answers reach the tab, or a network failure does *)

\* Mutant: only the user is forgotten.
OnlyUserForgotten(tab, status) == IF status = "401" THEN [tab EXCEPT !.user = Nil] ELSE tab

\* request(): on a 401 the token is cleared and the user signed out.
AfterFailure(tab, status) ==
    IF status = "401" THEN [tab EXCEPT !.user = Nil, !.csrf = Nil] ELSE tab

\* Mutant: a failed restore leaves the tab as it is.
RestoredIfOk(tab, a) ==
    IF a.status = "ok" THEN [user |-> a.user, csrf |-> a.csrf, loading |-> FALSE] ELSE tab

\* restore(): what /auth/me says, or nobody.
Restored(tab, a) ==
    IF a.status = "ok" THEN [user |-> a.user, csrf |-> a.csrf, loading |-> FALSE] ELSE Blank

\* login(): a failure leaves the tab as it is.
LoggedIn(tab, a) ==
    IF a.status = "ok" THEN [tab EXCEPT !.user = a.user, !.csrf = a.csrf] ELSE tab

\* The continuation of a call in its tab.
Continued(tab, a) ==
    CASE a.kind = "me"    -> Restored(tab, a)
      [] a.kind = "login" -> LoggedIn(tab, a)
      [] OTHER            -> AfterFailure(tab, a.status)

Resume(a) == IF a.tab = Nil THEN tabs ELSE [tabs EXCEPT ![a.tab] = Continued(@, a)]

Deliver(c) ==
    /\ calls[c].at = "answered"
    /\ cookie' = IF calls[c].setCookie = 0 THEN cookie ELSE calls[c].setCookie
    /\ tabs' = Resume(calls[c])
    /\ calls' = [calls EXCEPT ![c] = Free]
    /\ UNCHANGED server

\* The connection is lost.  What the tab has given up may still be handled.
Disconnect(c) ==
    /\ calls[c].at # "free"
    /\ tabs' = Resume([calls[c] EXCEPT !.status = "network"])
    /\ \/ calls' = [calls EXCEPT ![c] = Free]
       \/ calls[c].tab # Nil /\ calls' = [calls EXCEPT ![c].tab = Nil]
    /\ UNCHANGED <<server, cookie>>

----------------------------------------------------------------------------
TabStep(t) ==
    \E c \in Calls :
        Load(t, c) \/ Restore(t, c) \/ SubmitLogin(t, c) \/ Logout(t, c)
            \/ Use(t, c, "read") \/ Use(t, c, "write")

ServerStep(c) ==
    \/ RefuseForgery(c) \/ FindSession(c) \/ MissSession(c) \/ FindNobody(c)
    \/ HandleInSession(c) \/ HandleFromProxy(c) \/ RefuseIdentity(c)
    \/ (\E u \in Users : GrantLogin(c, u)) \/ RefuseLogin(c)

Next ==
    \/ \E t \in Tabs : TabStep(t)
    \/ \E c \in Calls : ServerStep(c) \/ Deliver(c) \/ Disconnect(c)
    \/ \E s \in live : EndSession(s)
    \/ \E u \in Users : Import(u)

Spec == Init /\ [][Next]_vars

----------------------------------------------------------------------------
(* Properties *)

\* Whatever the order of logins, logouts, late restores and 401s in a tab,
\* its token is that of a session of the user it shows.
TabHoldsItsUsersToken ==
    \A t \in Tabs : tabs[t].csrf # Nil =>
        tabs[t].csrf \in Tokens /\ tabs[t].user = issued[tabs[t].csrf]

Performed(c) ==
    calls[c].at = "answered" /\ calls[c].kind = "write" /\ calls[c].status = "ok"

\* A change the server makes is made as the user the tab showed when it asked
\* for it, although the cookie may have become another user's in between.
WritesAreMadeAsShown ==
    \A c \in Calls : Performed(c) => issued[calls[c].session] = calls[c].shown

\* It is made in the session the token belongs to.  Only behind IIS may it be
\* a later one, opened because the first was over or its user not found.
WritesActInTheirSession ==
    \A c \in Calls : Performed(c) =>
        \/ calls[c].session = calls[c].token
        \/ mode = "iis" /\ calls[c].session > calls[c].token

\* A tab that says it is restoring a session has a call under way whose end,
\* whatever it is, will take the message away.
LoadingEndsWithACall ==
    \A t \in Tabs : tabs[t].loading => MadeBy(t, "me") # {}
=============================================================================
