---------------------------- MODULE AuthService ----------------------------
(***************************************************************************)
(* Sign-in and sessions of the server: authService.ts with the handlers of *)
(* authRoutes.ts, authMiddleware.ts and the login limiter of app.ts.       *)
(*                                                                         *)
(* Everything here lives in the memory of one process.  A sign-in attempt  *)
(* looks its failure entry up, awaits the password comparison (bcrypt or   *)
(* an LDAP bind), and goes on with what it holds: other attempts run in    *)
(* between.  An entry is an object: an attempt keeps a reference to it     *)
(* even after the map has dropped it, so entries are modelled as a heap.   *)
(***************************************************************************)
EXTENDS Integers, Sequences, FiniteSets, Functions

CONSTANTS
    Users,               \* employees with credentials
    Forms,               \* ways to write one account name
    Attempts,            \* sign-in requests that can be in flight at once
    Nil,                 \* no entry, no lock, no token
    MaxAttempts,         \* MAX_ATTEMPTS
    Lockout,             \* LOCKOUT_MS
    MaxFailureEntries,   \* MAX_FAILURE_ENTRIES
    LoginLimit,          \* limit of the login limiter
    LoginWindow,         \* windowMs of the login limiter
    ShortSession,        \* SHORT_SESSION_MS
    RememberDuration,    \* REMEMBER_DURATION_MS
    IdleTimeout,         \* IDLE_TIMEOUT_MS
    MaxSessionsPerUser,  \* MAX_SESSIONS_PER_USER
    MaxNow,              \* bound: the clock stops here, per mode
    MaxIssued            \* bound: sessions created, per mode

Mode == {"development", "ldap", "iis"}

ASSUME AuthAssumption ==
    /\ MaxAttempts \in Nat \ {0} /\ MaxSessionsPerUser \in Nat \ {0}
    /\ MaxFailureEntries \in Nat \ {0}
    /\ LoginLimit \in Nat \ {0} /\ LoginWindow \in Nat \ {0}
    /\ Lockout \in Nat \ {0} /\ IdleTimeout \in Nat \ {0}
    /\ ShortSession \in Nat \ {0} /\ RememberDuration \in Nat \ {0}
    /\ IsFiniteSet(Attempts)
    /\ MaxNow \in [Mode -> Nat] /\ MaxIssued \in [Mode -> Nat]
    /\ Nil \notin Int /\ Nil \notin Forms

VARIABLES
    mode,      \* AUTH_MODE of this deployment
    now,       \* Date.now()
    failedAttempts, \* the map's entries in insertion order: key and reference
    entries,   \* the entry objects, by reference
    hits,      \* the login limiter's count and end of window, per account key
    attempts,  \* the sign-in requests in flight
    sessions,  \* the map of sessions, by token
    active,    \* users the store lists as active
    issued,    \* issued[t]: the user token t was created for (history)
    wrong      \* wrong passwords counted since the key's entry began (history)

signIn == <<failedAttempts, entries, hits, attempts, wrong>>

vars == <<mode, now, signIn, sessions, active, issued>>

----------------------------------------------------------------------------
(* Account names *)

Identifier == [user : Users, form : Forms]

\* resolveEmployeeNumber maps aliases, case and Arabic digits to one employee
\* number; authenticateAgainstDirectory only trims and lowers the name, so
\* "EGAS\soc", "soc" and "soc@EGAS.Local" have entries of their own.
LockKey(i) == IF mode = "ldap" THEN i ELSE [user |-> i.user, form |-> Nil]

\* loginAccountKey drops the domain, but knows no alias.
LimiterKey(i) == IF mode = "ldap" THEN [user |-> i.user, form |-> Nil] ELSE i

Key == [user : Users, form : Forms \union {Nil}]

Ref == Nat \ {0}

FailureEntry == [count : Nat, lockedUntil : Int \union {Nil}]

\* Fields of an attempt: what it has looked up, whether the password is right
\* and whether a lock was in force when it began (lockedAtStart: history).
Attempt ==
    [pc : {"comparing", "finding"}, id : Identifier, right : BOOLEAN,
     remember : BOOLEAN, failure : Ref \union {Nil}, lockedAtStart : BOOLEAN]

Idle == [pc |-> "idle"]

Session ==
    [user : Users, expiresAt : Int, lastAccessAt : Int, createdAt : Int]

\* References held by the map or by an attempt; a new entry takes a fresh one.
InUse ==
    ({failedAttempts[i].ref : i \in DOMAIN failedAttempts}
     \union {attempts[a].failure : a \in {b \in Attempts : attempts[b].pc = "comparing"}})
    \ {Nil}

FreshRef == CHOOSE r \in 1..(Cardinality(InUse) + 1) : r \notin InUse

TypeOK ==
    /\ mode \in Mode
    /\ now \in 0..MaxNow[mode]
    /\ failedAttempts \in Seq([key : Key, ref : Ref])
    /\ Len(failedAttempts) <= MaxFailureEntries
    /\ DOMAIN entries = InUse
    /\ \A r \in InUse : r \in Ref /\ entries[r] \in FailureEntry
    /\ hits \in [Key -> [count : 0..LoginLimit, resetAt : Int]]
    /\ attempts \in [Attempts -> Attempt \union {Idle}]
    /\ issued \in Seq(Users)
    /\ DOMAIN sessions \subseteq DOMAIN issued
    /\ \A t \in DOMAIN sessions : sessions[t] \in Session
    /\ active \subseteq Users
    /\ wrong \in [Key -> Nat]

NoEntry == [count |-> 0, lockedUntil |-> Nil]

NoHits == [count |-> 0, resetAt |-> 0]

Init ==
    /\ mode \in Mode
    /\ now = 0
    /\ failedAttempts = <<>>
    /\ entries = <<>>
    /\ hits = [k \in Key |-> NoHits]
    /\ attempts = [a \in Attempts |-> Idle]
    /\ sessions = <<>>
    /\ issued = <<>>
    /\ active = Users
    /\ wrong = [k \in Key |-> 0]

----------------------------------------------------------------------------
(* Failure entries *)

Places(s, k) == {i \in DOMAIN s : s[i].key = k}

RefOf(s, k) ==
    IF Places(s, k) = {} THEN Nil ELSE s[CHOOSE i \in Places(s, k) : TRUE].ref

\* failedAttempts.delete(k): a map holds a key once.
Without(s, k) ==
    IF Places(s, k) = {} THEN s
    ELSE LET p == CHOOSE i \in Places(s, k) : TRUE
         IN  [i \in 1..(Len(s) - 1) |-> IF i < p THEN s[i] ELSE s[i + 1]]

\* activeFailureEntry drops an entry whose lock has run out.
Active(s, k) ==
    LET r == RefOf(s, k)
    IN  IF r # Nil /\ entries[r].lockedUntil # Nil /\ entries[r].lockedUntil <= now
        THEN Without(s, k) ELSE s

\* Locked(r): the entry an attempt holds says so, in force or not.
Locked(r) == r # Nil /\ entries[r].lockedUntil # Nil

\* Entries nobody refers to are garbage: entry r becomes e, the others in use
\* stay as they are.
WriteEntry(r, e) == entries' = [q \in InUse' |-> IF q = r THEN e ELSE entries[q]]

CollectEntries == entries' = [q \in InUse' |-> entries[q]]

\* The map drops an entry, or keeps it; the history follows.
KeepEntries(map, counted) ==
    /\ failedAttempts' = map
    /\ wrong' = [k \in Key |-> IF RefOf(map, k) = Nil THEN 0 ELSE counted[k]]

\* Mutant: the failure is counted on the entry looked up before the
\* comparison, or on a new one, so concurrent failures overwrite each other.
RegisterOnHeldEntry(k, held) ==
    LET r == IF held = Nil THEN FreshRef ELSE held
        n == (IF held = Nil THEN 0 ELSE entries[r].count) + 1
    IN  /\ KeepEntries(Append(Without(failedAttempts, k), [key |-> k, ref |-> r]),
                       [wrong EXCEPT ![k] = @ + 1])
        /\ WriteEntry(r, [count |-> n,
                          lockedUntil |-> IF n >= MaxAttempts THEN now + Lockout ELSE Nil])

\* registerFailure looks the entry up again: held, what the attempt looked up
\* before it awaited the comparison, is not used.
RegisterFailure(k, held) ==
    LET full    == RefOf(failedAttempts, k) = Nil /\ Len(failedAttempts) >= MaxFailureEntries
        current == Active(IF full THEN Tail(failedAttempts) ELSE failedAttempts, k)
        found   == RefOf(current, k)
        r       == IF found = Nil THEN FreshRef ELSE found
        entry   == IF found = Nil THEN NoEntry ELSE entries[found]
        n       == entry.count + 1
    IN  /\ KeepEntries(IF found = Nil THEN Append(current, [key |-> k, ref |-> r]) ELSE current,
                       [wrong EXCEPT ![k] = (IF found = Nil THEN 0 ELSE @) + 1])
        /\ WriteEntry(r, [count |-> n,
                          lockedUntil |-> IF n >= MaxAttempts THEN now + Lockout
                                          ELSE entry.lockedUntil])

----------------------------------------------------------------------------
(* The login limiter: a fixed window per account key, five hits.  A request *)
(* that is refused, or ends without a credential failure, gives its hit    *)
(* back.                                                                   *)

WindowEnded(k) == hits[k].resetAt <= now

Admitted(k) == WindowEnded(k) \/ hits[k].count < LoginLimit

OneMore(h) == [h EXCEPT !.count = @ + 1]

Hit(k) ==
    hits' = [hits EXCEPT ![k] =
                IF WindowEnded(k) THEN [count |-> 1, resetAt |-> now + LoginWindow]
                ELSE OneMore(@)]

GiveBack(k) ==
    hits' = [hits EXCEPT ![k].count = IF @ > 0 THEN @ - 1 ELSE 0]

----------------------------------------------------------------------------
(* POST /auth/login: authenticateCredentials, authenticateAgainstDirectory *)

PasswordLogin == mode \in {"development", "ldap"}

\* Up to the await: limiter, lookup of the failure entry, start of the
\* comparison.
BeginAttempt(a, i, right, remember) ==
    LET map  == Active(failedAttempts, LockKey(i))
        held == RefOf(map, LockKey(i))
    IN  /\ PasswordLogin
        /\ attempts[a].pc = "idle"
        /\ Admitted(LimiterKey(i))
        /\ mode = "ldap" => ~Locked(held)
        /\ Hit(LimiterKey(i))
        /\ attempts' = [attempts EXCEPT ![a] =
               [pc |-> "comparing", id |-> i, right |-> right, remember |-> remember,
                failure |-> held, lockedAtStart |-> Locked(held)]]
        /\ KeepEntries(map, wrong)
        /\ CollectEntries
        /\ UNCHANGED <<mode, now, sessions, active, issued>>

\* With the directory a locked name is refused before anything is awaited,
\* and the refusal counts for the limiter.
RefuseLockedName(i) ==
    /\ mode = "ldap"
    /\ Admitted(LimiterKey(i))
    /\ Locked(RefOf(Active(failedAttempts, LockKey(i)), LockKey(i)))
    /\ Hit(LimiterKey(i))
    /\ UNCHANGED <<mode, now, failedAttempts, entries, attempts, wrong, sessions, active, issued>>

\* Mutant: the map is asked again after the comparison.
RefusedByEntryNow(a) ==
    mode = "development" /\ Locked(RefOf(failedAttempts, LockKey(attempts[a].id)))

\* failure?.lockedUntil of the entry looked up before the comparison.
RefusedByEntry(a) == mode = "development" /\ Locked(attempts[a].failure)

\* The comparison has failed, or an entry says the account is locked: 401.
RejectAttempt(a) ==
    /\ attempts[a].pc = "comparing"
    /\ attempts[a].right => RefusedByEntry(a)
    /\ attempts' = [attempts EXCEPT ![a] = Idle]
    /\ IF RefusedByEntry(a)
       THEN /\ KeepEntries(failedAttempts, wrong)
            /\ CollectEntries
       ELSE RegisterFailure(LockKey(attempts[a].id), attempts[a].failure)
    /\ UNCHANGED <<mode, now, hits, sessions, active, issued>>

\* The password is right: the entry goes, and the user is looked up.
AcceptAttempt(a) ==
    /\ attempts[a].pc = "comparing"
    /\ attempts[a].right /\ ~RefusedByEntry(a)
    /\ attempts' = [attempts EXCEPT ![a].pc = "finding"]
    /\ KeepEntries(Without(failedAttempts, LockKey(attempts[a].id)), wrong)
    /\ CollectEntries
    /\ UNCHANGED <<mode, now, hits, sessions, active, issued>>

\* The directory is down, or reports an account problem: 403 or 503.
FailInDirectory(a) ==
    /\ mode = "ldap"
    /\ attempts[a].pc = "comparing"
    /\ attempts' = [attempts EXCEPT ![a] = Idle]
    /\ GiveBack(LimiterKey(attempts[a].id))
    /\ KeepEntries(failedAttempts, wrong)
    /\ CollectEntries
    /\ UNCHANGED <<mode, now, sessions, active, issued>>

\* The user lookup finds nobody: 401 with development accounts, which keeps
\* the hit, 403 with the directory, which gives it back.
DenyUnregistered(a) ==
    /\ attempts[a].pc = "finding"
    /\ attempts[a].id.user \notin active
    /\ attempts' = [attempts EXCEPT ![a] = Idle]
    /\ IF mode = "ldap" THEN GiveBack(LimiterKey(attempts[a].id)) ELSE UNCHANGED hits
    /\ UNCHANGED <<mode, now, failedAttempts, entries, wrong, sessions, active, issued>>

----------------------------------------------------------------------------
(* Sessions *)

Expired(s) == s.expiresAt <= now \/ s.lastAccessAt + IdleTimeout <= now

Older(t, s) ==
    \/ sessions[t].createdAt < sessions[s].createdAt
    \/ sessions[t].createdAt = sessions[s].createdAt /\ t < s

Unexpired == {t \in DOMAIN sessions : ~Expired(sessions[t])}

\* Mutant: the cap is applied to the whole table, expired sessions included.
KeptBeforeSweep(u) ==
    {t \in Unexpired :
        sessions[t].user = u =>
            Cardinality({s \in DOMAIN sessions : sessions[s].user = u})
                < MaxSessionsPerUser}

\* The sweep removes what has expired; of the user's others, the newest stay.
KeptFor(u) ==
    {t \in Unexpired :
        sessions[t].user = u =>
            Cardinality({s \in Unexpired : sessions[s].user = u /\ Older(t, s)})
                < MaxSessionsPerUser - 1}

\* Mutant: a token that no session has at the moment.
UnusedToken == CHOOSE t \in 1..(Len(issued) + 1) : t \notin DOMAIN sessions

\* randomUUID never returns the same token twice.
NewToken == Len(issued) + 1

\* createSession(user, remember)
CreateSession(u, remember) ==
    LET token == NewToken
    IN  /\ Len(issued) < MaxIssued[mode]
        /\ issued' = Append(issued, u)
        /\ sessions' = [t \in KeptFor(u) \union {token} |->
               IF t = token
               THEN [user |-> u,
                     expiresAt |-> now + (IF remember THEN RememberDuration ELSE ShortSession),
                     lastAccessAt |-> now, createdAt |-> now]
               ELSE sessions[t]]

GrantSession(a) ==
    /\ attempts[a].pc = "finding"
    /\ attempts[a].id.user \in active
    /\ CreateSession(attempts[a].id.user, attempts[a].remember)
    /\ attempts' = [attempts EXCEPT ![a] = Idle]
    /\ GiveBack(LimiterKey(attempts[a].id))
    /\ UNCHANGED <<mode, now, failedAttempts, entries, wrong, active>>

\* Behind IIS a request without a valid session gets one of its own.
EnterFromProxy(u) ==
    /\ mode = "iis"
    /\ u \in active
    /\ CreateSession(u, FALSE)
    /\ UNCHANGED <<mode, now, signIn, active>>

\* userForSession(token): the session is dropped or refreshed before the user
\* lookup is awaited.
UseSession(t) ==
    /\ sessions' = IF Expired(sessions[t]) THEN Restrict(sessions, DOMAIN sessions \ {t})
                   ELSE [sessions EXCEPT ![t].lastAccessAt = now]
    /\ UNCHANGED <<mode, now, signIn, active, issued>>

\* deleteSession: POST /auth/logout
SignOut(t) ==
    /\ sessions' = Restrict(sessions, DOMAIN sessions \ {t})
    /\ UNCHANGED <<mode, now, signIn, active, issued>>

\* deleteOtherSessions: POST /auth/logout-others, from a session that may
\* have ended since it was authenticated.
SignOutElsewhere(t) ==
    /\ sessions' = Restrict(sessions,
           {s \in DOMAIN sessions : sessions[s].user = issued[t] => s = t})
    /\ UNCHANGED <<mode, now, signIn, active, issued>>

----------------------------------------------------------------------------
(* The process and its surroundings *)

\* A directory import lists or drops a user.
ImportUsers(u) ==
    /\ active' = IF u \in active THEN active \ {u} ELSE active \union {u}
    /\ UNCHANGED <<mode, now, signIn, sessions, issued>>

\* Sessions, failed attempts and limiter counts are in memory only.
Restart ==
    /\ sessions' = <<>>
    /\ failedAttempts' = <<>>
    /\ wrong' = [k \in Key |-> 0]
    /\ entries' = <<>>
    /\ hits' = [k \in Key |-> NoHits]
    /\ attempts' = [a \in Attempts |-> Idle]
    /\ UNCHANGED <<mode, now, active, issued>>

\* Time passes, and the limiter's store forgets the windows that have ended.
Tick ==
    /\ now < MaxNow[mode]
    /\ now' = now + 1
    /\ hits' = [k \in Key |-> IF hits[k].resetAt <= now' THEN NoHits ELSE hits[k]]
    /\ UNCHANGED <<mode, failedAttempts, entries, attempts, wrong, sessions, active, issued>>

Next ==
    \/ \E a \in Attempts, i \in Identifier, right \in BOOLEAN :
          \E remember \in IF right THEN BOOLEAN ELSE {FALSE} :   \* read only if right
             BeginAttempt(a, i, right, remember)
    \/ \E i \in Identifier : RefuseLockedName(i)
    \/ \E a \in Attempts :
          \/ RejectAttempt(a) \/ AcceptAttempt(a) \/ FailInDirectory(a)
          \/ DenyUnregistered(a) \/ GrantSession(a)
    \/ \E u \in Users : EnterFromProxy(u) \/ ImportUsers(u)
    \/ \E t \in DOMAIN sessions : UseSession(t) \/ SignOut(t)
    \/ \E t \in DOMAIN issued : SignOutElsewhere(t)
    \/ Restart
    \/ Tick

Spec == Init /\ [][Next]_vars

----------------------------------------------------------------------------
(* Properties *)

\* An attempt that begins while its account is locked is never let in, even
\* if the lock runs out, is evicted or is replaced while the password is
\* being compared.
RefusedWhileLocked ==
    \A a \in Attempts : attempts[a].pc = "finding" => ~attempts[a].lockedAtStart

\* However many comparisons overlap, a name is locked when and only when
\* MAX_ATTEMPTS wrong passwords have been counted for it.
LockedAfterMaxAttempts ==
    \A k \in Key :
        Locked(RefOf(failedAttempts, k)) <=> wrong[k] >= MaxAttempts

\* A sign-in leaves its user with at most MAX_SESSIONS_PER_USER sessions, and
\* ends a session that is still good only when the user has that many good
\* ones, the ended one being the oldest.
NewestSessionsSurvive ==
    [][Len(issued') > Len(issued) =>
          LET u     == issued'[Len(issued')]
              good  == {t \in Unexpired : sessions[t].user = u}
              ended == good \ DOMAIN sessions'
          IN  /\ Cardinality({t \in DOMAIN sessions' : sessions'[t].user = u})
                     <= MaxSessionsPerUser
              /\ ended # {} => Cardinality(good) >= MaxSessionsPerUser
              /\ \A t \in ended, s \in good \ ended : Older(t, s)
              /\ {t \in Unexpired : sessions[t].user # u} \subseteq DOMAIN sessions']_vars

\* The detailed service keeps the promise of SessionTable: no token is issued
\* twice or changes hands, and a session that has ended stays ended.
Table == INSTANCE SessionTable WITH live <- DOMAIN sessions

KeepsSessionTable == Table!TableSpec
=============================================================================
