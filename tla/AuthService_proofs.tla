------------------------ MODULE AuthService_proofs ------------------------
(* Theorems of AuthService, for any number of users, spellings and attempts. *)
EXTENDS AuthService, FiniteSetTheorems, SequenceTheorems, TLAPS

(***************************************************************************)
(* The service keeps the promise of SessionTable                           *)
(***************************************************************************)

\* Sessions are only created for known users.
UsersKnown ==
    /\ active \subseteq Users
    /\ issued \in Seq(Users)

LEMMA CreateSessionIssues ==
    ASSUME NEW u \in Users, NEW remember, CreateSession(u, remember), issued \in Seq(Users)
    PROVE  Table!TableNext /\ issued' \in Seq(Users)
<1> DEFINE ending == DOMAIN sessions \ KeptFor(u)
<1>1. KeptFor(u) \subseteq DOMAIN sessions
  BY DEF KeptFor, Unexpired
<1>2. DOMAIN sessions' = KeptFor(u) \union {Len(issued) + 1}
  BY DEF CreateSession, NewToken
<1>3. issued' = Append(issued, u)
  BY DEF CreateSession
<1>4. Table!Issue(u, ending)
  BY <1>1, <1>2, <1>3 DEF Table!Issue
<1>5. issued' \in Seq(Users)
  BY <1>3
<1>6. QED
  BY <1>4, <1>5 DEF Table!TableNext

\* Dropping sessions from the map ends them.
LEMMA DroppingEnds ==
    ASSUME NEW kept, kept \subseteq DOMAIN sessions,
           DOMAIN sessions' = kept, UNCHANGED issued
    PROVE  Table!TableNext
<1>1. Table!End(DOMAIN sessions \ kept)
  BY DEF Table!End
<1>2. QED
  BY <1>1 DEF Table!TableNext

LEMMA TableStep ==
    ASSUME UsersKnown, [Next]_vars
    PROVE  UsersKnown' /\ [Table!TableNext]_<<issued, DOMAIN sessions>>
<1> USE DEF UsersKnown
<1>1. CASE UNCHANGED vars
  BY <1>1 DEF vars
<1>2. CASE \E a \in Attempts, i \in Identifier, right \in BOOLEAN :
              \E remember \in IF right THEN BOOLEAN ELSE {FALSE} :
                 BeginAttempt(a, i, right, remember)
  BY <1>2 DEF BeginAttempt
<1>3. CASE \E i \in Identifier : RefuseLockedName(i)
  BY <1>3 DEF RefuseLockedName
<1>4. ASSUME NEW a \in Attempts, RejectAttempt(a)
      PROVE  UsersKnown' /\ [Table!TableNext]_<<issued, DOMAIN sessions>>
  BY <1>4 DEF RejectAttempt
<1>5. ASSUME NEW a \in Attempts, AcceptAttempt(a)
      PROVE  UsersKnown' /\ [Table!TableNext]_<<issued, DOMAIN sessions>>
  BY <1>5 DEF AcceptAttempt
<1>6. ASSUME NEW a \in Attempts, FailInDirectory(a)
      PROVE  UsersKnown' /\ [Table!TableNext]_<<issued, DOMAIN sessions>>
  BY <1>6 DEF FailInDirectory
<1>7. ASSUME NEW a \in Attempts, DenyUnregistered(a)
      PROVE  UsersKnown' /\ [Table!TableNext]_<<issued, DOMAIN sessions>>
  BY <1>7 DEF DenyUnregistered
<1>8. ASSUME NEW a \in Attempts, GrantSession(a)
      PROVE  UsersKnown' /\ [Table!TableNext]_<<issued, DOMAIN sessions>>
  <2>1. attempts[a].id.user \in Users /\ active' = active
    BY <1>8 DEF GrantSession
  <2>2. CreateSession(attempts[a].id.user, attempts[a].remember)
    BY <1>8 DEF GrantSession
  <2>3. QED
    BY <2>1, <2>2, CreateSessionIssues
<1>9. ASSUME NEW u \in Users, EnterFromProxy(u)
      PROVE  UsersKnown' /\ [Table!TableNext]_<<issued, DOMAIN sessions>>
  <2>1. CreateSession(u, FALSE) /\ active' = active
    BY <1>9 DEF EnterFromProxy
  <2>2. QED
    BY <2>1, CreateSessionIssues
<1>10. ASSUME NEW u \in Users, ImportUsers(u)
       PROVE  UsersKnown' /\ [Table!TableNext]_<<issued, DOMAIN sessions>>
  BY <1>10 DEF ImportUsers
<1>11. ASSUME NEW t \in DOMAIN sessions, UseSession(t)
       PROVE  UsersKnown' /\ [Table!TableNext]_<<issued, DOMAIN sessions>>
  <2>1. UNCHANGED <<active, issued>>
    BY <1>11 DEF UseSession
  <2>2. \/ DOMAIN sessions' = DOMAIN sessions \ {t}
        \/ DOMAIN sessions' = DOMAIN sessions
    BY <1>11 DEF UseSession, Restrict
  <2>3. QED
    BY <2>1, <2>2, DroppingEnds
<1>12. ASSUME NEW t \in DOMAIN sessions, SignOut(t)
       PROVE  UsersKnown' /\ [Table!TableNext]_<<issued, DOMAIN sessions>>
  <2>1. UNCHANGED <<active, issued>> /\ DOMAIN sessions' = DOMAIN sessions \ {t}
    BY <1>12 DEF SignOut, Restrict
  <2>2. QED
    BY <2>1, DroppingEnds
<1>13. ASSUME NEW t \in DOMAIN issued, SignOutElsewhere(t)
       PROVE  UsersKnown' /\ [Table!TableNext]_<<issued, DOMAIN sessions>>
  <2> DEFINE kept == {s \in DOMAIN sessions : sessions[s].user = issued[t] => s = t}
  <2>1. UNCHANGED <<active, issued>> /\ DOMAIN sessions' = kept
    BY <1>13 DEF SignOutElsewhere, Restrict
  <2>2. kept \subseteq DOMAIN sessions
    OBVIOUS
  <2>3. QED
    BY <2>1, <2>2, DroppingEnds
<1>14. CASE Restart
  <2>1. UNCHANGED <<active, issued>> /\ DOMAIN sessions' = {}
    BY <1>14 DEF Restart
  <2>2. QED
    BY <2>1, DroppingEnds
<1>15. CASE Tick
  BY <1>15 DEF Tick
<1>16. QED
  BY <1>1, <1>2, <1>3, <1>4, <1>5, <1>6, <1>7, <1>8, <1>9, <1>10, <1>11, <1>12,
     <1>13, <1>14, <1>15 DEF Next

\* The sign-in service implements the abstract session table: each token is
\* issued once, to one user, and a session that a sign-out, an expiry, an
\* eviction or a restart has ended is never live again.
THEOREM SessionsEndForGood == Spec => KeepsSessionTable
<1>1. Init => UsersKnown /\ Table!TableInit
  BY DEF Init, UsersKnown, Table!TableInit
<1>2. UsersKnown /\ [Next]_vars => UsersKnown' /\ [Table!TableNext]_<<issued, DOMAIN sessions>>
  BY TableStep
<1>3. QED
  BY <1>1, <1>2, PTL DEF Spec, KeepsSessionTable, Table!TableSpec

(***************************************************************************)
(* An attempt that begins during a lockout is refused                      *)
(***************************************************************************)

MapEntry == [key : Key, ref : Ref]

\* The attempts that must be refused still hold an entry that says so.
HeldLocksStay ==
    \A a \in Attempts :
        attempts[a].pc = "comparing" /\ attempts[a].lockedAtStart =>
            mode = "development" /\ Locked(attempts[a].failure)

LockInv ==
    /\ now \in Nat
    /\ failedAttempts \in Seq(MapEntry)
    /\ attempts \in [Attempts -> Attempt \union {Idle}]
    /\ HeldLocksStay
    /\ RefusedWhileLocked

LEMMA PlaceType ==
    ASSUME NEW s \in Seq(MapEntry), NEW k, Places(s, k) # {}
    PROVE  (CHOOSE i \in Places(s, k) : TRUE) \in 1..Len(s) /\ Len(s) >= 1
<1>1. Places(s, k) \subseteq 1..Len(s)
  BY DEF Places
<1>2. (CHOOSE i \in Places(s, k) : TRUE) \in Places(s, k)
  OBVIOUS
<1>3. QED
  BY <1>1, <1>2

LEMMA RefOfType ==
    ASSUME NEW s \in Seq(MapEntry), NEW k
    PROVE  RefOf(s, k) \in Ref \union {Nil}
<1>1. CASE Places(s, k) = {}
  BY <1>1 DEF RefOf
<1>2. CASE Places(s, k) # {}
  <2> DEFINE p == CHOOSE i \in Places(s, k) : TRUE
  <2>1. s[p] \in MapEntry
    BY <1>2, PlaceType
  <2>2. QED
    BY <1>2, <2>1 DEF RefOf, MapEntry
<1>3. QED
  BY <1>1, <1>2

LEMMA WithoutType ==
    ASSUME NEW s \in Seq(MapEntry), NEW k
    PROVE  Without(s, k) \in Seq(MapEntry)
<1>1. CASE Places(s, k) = {}
  BY <1>1 DEF Without
<1>2. CASE Places(s, k) # {}
  <2> DEFINE p == CHOOSE i \in Places(s, k) : TRUE
             n == Len(s) - 1
             rest == [i \in 1..n |-> IF i < p THEN s[i] ELSE s[i + 1]]
  <2>1. n \in Nat
    BY <1>2, PlaceType
  <2>2. \A i \in 1..n : rest[i] \in MapEntry
    <3> SUFFICES ASSUME NEW i \in 1..n PROVE rest[i] \in MapEntry
      OBVIOUS
    <3>1. i \in 1..Len(s) /\ i + 1 \in 1..Len(s)
      BY <2>1
    <3>2. s[i] \in MapEntry /\ s[i + 1] \in MapEntry
      BY <3>1
    <3>3. QED
      BY <3>2
  <2>3. rest \in [1..n -> MapEntry]
    BY <2>2
  <2>4. rest \in Seq(MapEntry)
    BY <2>1, <2>3, SeqDef
  <2>5. Without(s, k) = rest
    BY <1>2 DEF Without
  <2>6. QED
    BY <2>4, <2>5
<1>3. QED
  BY <1>1, <1>2

LEMMA ActiveType ==
    ASSUME NEW s \in Seq(MapEntry), NEW k
    PROVE  Active(s, k) \in Seq(MapEntry)
BY WithoutType DEF Active

\* The pool of references never runs out.
LEMMA FreshRefIsFresh ==
    ASSUME failedAttempts \in Seq(MapEntry)
    PROVE  FreshRef \in Ref /\ FreshRef \notin InUse
<1> DEFINE inMap == {failedAttempts[i].ref : i \in DOMAIN failedAttempts}
           comparing == {b \in Attempts : attempts[b].pc = "comparing"}
           inHand == {attempts[a].failure : a \in comparing}
           f == [i \in DOMAIN failedAttempts |-> failedAttempts[i].ref]
           g == [a \in comparing |-> attempts[a].failure]
           c == Cardinality(InUse)
<1>1. IsFiniteSet(inMap)
  <2>1. DOMAIN failedAttempts = 1..Len(failedAttempts) /\ Len(failedAttempts) \in Nat
    OBVIOUS
  <2>2. IsFiniteSet(DOMAIN failedAttempts)
    BY <2>1, FS_Interval
  <2>3. f \in Surjection(DOMAIN failedAttempts, inMap)
    BY DEF Surjection
  <2>4. QED
    BY <2>2, <2>3, FS_Surjection
<1>2. IsFiniteSet(inHand)
  <2>1. IsFiniteSet(comparing)
    BY AuthAssumption, FS_Subset
  <2>2. g \in Surjection(comparing, inHand)
    BY DEF Surjection
  <2>3. QED
    BY <2>1, <2>2, FS_Surjection
<1>3. IsFiniteSet(InUse)
  <2>1. IsFiniteSet(inMap \union inHand)
    BY <1>1, <1>2, FS_Union
  <2>2. InUse \subseteq inMap \union inHand
    BY DEF InUse
  <2>3. QED
    BY <2>1, <2>2, FS_Subset
<1>4. c \in Nat
  BY <1>3, FS_CardinalityType
<1>5. \E r \in 1..(c + 1) : r \notin InUse
  <2>1. SUFFICES ASSUME 1..(c + 1) \subseteq InUse PROVE FALSE
    OBVIOUS
  <2>2. Cardinality(1..(c + 1)) <= c
    BY <1>3, <2>1, FS_Subset
  <2>3. Cardinality(1..(c + 1)) = c + 1
    BY <1>4, FS_Interval
  <2>4. QED
    BY <1>4, <2>2, <2>3
<1>6. FreshRef \in 1..(c + 1) /\ FreshRef \notin InUse
  BY <1>5 DEF FreshRef
<1>7. QED
  BY <1>4, <1>6 DEF Ref

\* registerFailure keeps the map well formed, and leaves every lock that an
\* attempt still holds in its entry.
LEMMA RegisterFailureKeepsLocks ==
    ASSUME LockInv, NEW k \in Key, NEW held, RegisterFailure(k, held)
    PROVE  /\ failedAttempts' \in Seq(MapEntry)
           /\ \A r \in InUse \intersect InUse' :
                 entries[r].lockedUntil # Nil => entries'[r].lockedUntil # Nil
<1> DEFINE full    == RefOf(failedAttempts, k) = Nil /\ Len(failedAttempts) >= MaxFailureEntries
           room    == IF full THEN Tail(failedAttempts) ELSE failedAttempts
           current == Active(room, k)
           found   == RefOf(current, k)
           w       == IF found = Nil THEN FreshRef ELSE found
           entry   == IF found = Nil THEN NoEntry ELSE entries[found]
           lock    == IF entry.count + 1 >= MaxAttempts THEN now + Lockout ELSE entry.lockedUntil
           written == [count |-> entry.count + 1, lockedUntil |-> lock]
<1>1. room \in Seq(MapEntry)
  BY AuthAssumption DEF LockInv
<1>2. current \in Seq(MapEntry) /\ found \in Ref \union {Nil}
  BY <1>1, ActiveType, RefOfType
<1>3. FreshRef \in Ref /\ FreshRef \notin InUse
  BY FreshRefIsFresh DEF LockInv
<1>4. failedAttempts' = IF found = Nil THEN Append(current, [key |-> k, ref |-> w]) ELSE current
  BY DEF RegisterFailure, KeepEntries
<1>5. entries' = [q \in InUse' |-> IF q = w THEN written ELSE entries[q]]
  BY DEF RegisterFailure, WriteEntry
<1>6. failedAttempts' \in Seq(MapEntry)
  <2>1. [key |-> k, ref |-> w] \in MapEntry
    BY <1>2, <1>3 DEF MapEntry
  <2>2. QED
    BY <1>2, <1>4, <2>1
<1>7. ASSUME NEW r \in InUse, r \in InUse', entries[r].lockedUntil # Nil
      PROVE  entries'[r].lockedUntil # Nil
  <2>1. CASE r # w
    BY <1>5, <1>7, <2>1
  <2>2. CASE r = w
    <3>1. found = r
      BY <1>3, <1>7, <2>2
    <3>2. found # Nil
      BY <3>1, <1>7 DEF InUse
    <3>3. entry = entries[r]
      BY <3>1, <3>2
    <3>4. now + Lockout \in Int
      BY AuthAssumption DEF LockInv
    <3>5. lock # Nil
      BY <1>7, <3>3, <3>4, AuthAssumption
    <3>6. entries'[r] = written
      BY <1>5, <1>7, <2>2
    <3>7. QED
      BY <3>5, <3>6
  <2>3. QED
    BY <2>1, <2>2
<1>8. QED
  BY <1>6, <1>7

\* Dropping what nobody refers to does not touch what is referred to.
LEMMA CollectingKeepsLocks ==
    ASSUME CollectEntries
    PROVE  \A r \in InUse \intersect InUse' :
              entries[r].lockedUntil # Nil => entries'[r].lockedUntil # Nil
BY DEF CollectEntries

\* If the entries keep their locks, so do the attempts that hold them.
LEMMA HeldLocksFollow ==
    ASSUME LockInv, UNCHANGED mode, attempts' \in [Attempts -> Attempt \union {Idle}],
           \A r \in InUse \intersect InUse' :
              entries[r].lockedUntil # Nil => entries'[r].lockedUntil # Nil,
           NEW a \in Attempts, attempts'[a] = attempts[a],
           attempts[a].pc = "comparing", attempts[a].lockedAtStart
    PROVE  mode' = "development" /\ Locked(attempts[a].failure)'
<1> DEFINE r == attempts[a].failure
<1>1. mode = "development" /\ Locked(r)
  BY DEF LockInv, HeldLocksStay
<1>2. r \in InUse
  BY <1>1 DEF InUse, Locked
<1>3. r \in InUse'
  <2>1. attempts'[a].failure = r /\ attempts'[a].pc = "comparing" /\ r # Nil
    BY <1>1 DEF Locked
  <2>2. QED
    BY <2>1 DEF InUse
<1>4. entries'[r].lockedUntil # Nil
  BY <1>1, <1>2, <1>3 DEF Locked
<1>5. QED
  BY <1>1, <1>4 DEF Locked

LEMMA KeysAreTyped ==
    ASSUME NEW i \in Identifier
    PROVE  LockKey(i) \in Key
BY DEF LockKey, Key, Identifier

LEMMA AttemptTypes ==
    ASSUME LockInv, NEW a \in Attempts, attempts[a].pc # "idle"
    PROVE  /\ attempts[a] \in Attempt
           /\ attempts[a].id \in Identifier
           /\ LockKey(attempts[a].id) \in Key
<1>1. attempts[a] \in Attempt \union {Idle}
  BY DEF LockInv
<1>2. Idle.pc = "idle"
  BY DEF Idle
<1>3. attempts[a] \in Attempt
  BY <1>1, <1>2
<1>4. attempts[a].id \in Identifier
  BY <1>3 DEF Attempt
<1>5. QED
  BY <1>3, <1>4, KeysAreTyped

\* What a step of one attempt must establish for that attempt.
LEMMA OneAttemptStep ==
    ASSUME LockInv, UNCHANGED <<mode, now>>,
           failedAttempts' \in Seq(MapEntry),
           \A r \in InUse \intersect InUse' :
              entries[r].lockedUntil # Nil => entries'[r].lockedUntil # Nil,
           NEW b \in Attempts, NEW next \in Attempt \union {Idle},
           attempts' = [attempts EXCEPT ![b] = next],
           next.pc = "comparing" /\ next.lockedAtStart =>
              /\ mode = "development" /\ next.failure # Nil
              /\ entries'[next.failure].lockedUntil # Nil,
           next.pc = "finding" => ~next.lockedAtStart
    PROVE  LockInv'
<1>1. attempts' \in [Attempts -> Attempt \union {Idle}]
  BY DEF LockInv
<1>2. attempts'[b] = next /\ \A a \in Attempts \ {b} : attempts'[a] = attempts[a]
  BY DEF LockInv
<1>3. HeldLocksStay'
  <2> SUFFICES ASSUME NEW a \in Attempts,
                      attempts'[a].pc = "comparing", attempts'[a].lockedAtStart
               PROVE  /\ mode' = "development"
                      /\ attempts'[a].failure # Nil
                      /\ entries'[attempts'[a].failure].lockedUntil # Nil
    BY DEF HeldLocksStay, Locked
  <2>1. CASE a = b
    BY <1>2, <2>1
  <2>2. CASE a # b
    <3>1. attempts'[a] = attempts[a]
      BY <1>2, <2>2
    <3>2. attempts[a].pc = "comparing" /\ attempts[a].lockedAtStart
      BY <3>1
    <3>3. mode' = "development" /\ Locked(attempts[a].failure)'
      BY <1>1, <3>1, <3>2, HeldLocksFollow
    <3>4. QED
      BY <3>1, <3>3 DEF Locked
  <2>3. QED
    BY <2>1, <2>2
<1>4. RefusedWhileLocked'
  BY <1>2 DEF LockInv, RefusedWhileLocked
<1>5. QED
  BY <1>1, <1>3, <1>4 DEF LockInv

\* A step that leaves the attempts alone keeps the invariant.
LEMMA OtherStep ==
    ASSUME LockInv, UNCHANGED <<mode, failedAttempts, entries, attempts>>, now' \in Nat
    PROVE  LockInv'
<1>1. HeldLocksStay'
  BY DEF LockInv, HeldLocksStay, Locked
<1>2. QED
  BY <1>1 DEF LockInv, RefusedWhileLocked

LEMMA IdleIsQuiet ==
    /\ Idle.pc # "comparing" /\ Idle.pc # "finding"
    /\ Idle \in Attempt \union {Idle}
BY DEF Idle

LEMMA LockStep ==
    ASSUME LockInv, [Next]_vars
    PROVE  LockInv'
<1>1. CASE UNCHANGED vars
  BY <1>1, OtherStep DEF vars, signIn, LockInv
<1>2. ASSUME NEW b \in Attempts, NEW i \in Identifier, NEW right \in BOOLEAN,
             NEW remember \in BOOLEAN, BeginAttempt(b, i, right, remember)
      PROVE  LockInv'
  <2> DEFINE map  == Active(failedAttempts, LockKey(i))
             held == RefOf(map, LockKey(i))
             next == [pc |-> "comparing", id |-> i, right |-> right, remember |-> remember,
                      failure |-> held, lockedAtStart |-> Locked(held)]
  <2>1. map \in Seq(MapEntry) /\ held \in Ref \union {Nil}
    BY ActiveType, RefOfType DEF LockInv
  <2>2. Locked(held) \in BOOLEAN
    BY DEF Locked
  <2>3. next \in Attempt
    BY <2>1, <2>2 DEF Attempt
  <2>4. /\ UNCHANGED <<mode, now>>
        /\ failedAttempts' = map
        /\ CollectEntries
        /\ attempts' = [attempts EXCEPT ![b] = next]
        /\ mode \in {"development", "ldap"}
        /\ mode = "ldap" => ~Locked(held)
    BY <1>2 DEF BeginAttempt, KeepEntries, PasswordLogin
  <2>5. ASSUME Locked(held)
        PROVE  mode = "development" /\ held # Nil /\ entries'[held].lockedUntil # Nil
    <3>1. attempts'[b] = next
      BY <2>4 DEF LockInv
    <3>2. held \in InUse'
      BY <2>5, <3>1 DEF InUse, Locked
    <3>3. entries'[held] = entries[held]
      BY <2>4, <3>2 DEF CollectEntries
    <3>4. QED
      BY <2>4, <2>5, <3>3 DEF Locked
  <2>6. next.pc = "comparing" /\ next.failure = held /\ next.lockedAtStart = Locked(held)
    OBVIOUS
  <2> HIDE DEF next, map, held
  <2>7. QED
    BY <2>1, <2>3, <2>4, <2>5, <2>6, CollectingKeepsLocks, OneAttemptStep
<1>3. ASSUME NEW i \in Identifier, RefuseLockedName(i)
      PROVE  LockInv'
  BY <1>3, OtherStep DEF RefuseLockedName, LockInv
<1>4. ASSUME NEW b \in Attempts, RejectAttempt(b)
      PROVE  LockInv'
  <2> DEFINE k == LockKey(attempts[b].id)
  <2>1. /\ attempts[b].pc = "comparing"
        /\ attempts' = [attempts EXCEPT ![b] = Idle]
        /\ UNCHANGED <<mode, now>>
    BY <1>4 DEF RejectAttempt
  <2>2. k \in Key
    BY <2>1, AttemptTypes
  <2>3. /\ failedAttempts' \in Seq(MapEntry)
        /\ \A r \in InUse \intersect InUse' :
              entries[r].lockedUntil # Nil => entries'[r].lockedUntil # Nil
    <3>1. CASE RefusedByEntry(b)
      <4>1. failedAttempts' = failedAttempts /\ CollectEntries
        BY <1>4, <3>1 DEF RejectAttempt, KeepEntries
      <4>2. QED
        BY <4>1, CollectingKeepsLocks DEF LockInv
    <3>2. CASE ~RefusedByEntry(b)
      <4>1. RegisterFailure(k, attempts[b].failure)
        BY <1>4, <3>2 DEF RejectAttempt
      <4>2. QED
        BY <2>2, <4>1, RegisterFailureKeepsLocks
    <3>3. QED
      BY <3>1, <3>2
  <2>4. QED
    BY <2>1, <2>3, IdleIsQuiet, OneAttemptStep
<1>5. ASSUME NEW b \in Attempts, AcceptAttempt(b)
      PROVE  LockInv'
  <2> DEFINE next == [attempts[b] EXCEPT !.pc = "finding"]
  <2>1. /\ attempts[b].pc = "comparing"
        /\ ~RefusedByEntry(b)
        /\ attempts' = [attempts EXCEPT ![b] = next]
        /\ UNCHANGED <<mode, now>>
        /\ failedAttempts' = Without(failedAttempts, LockKey(attempts[b].id))
        /\ CollectEntries
    BY <1>5 DEF AcceptAttempt, KeepEntries
  <2>2. attempts[b] \in Attempt
    BY <2>1, AttemptTypes
  <2>3. next \in Attempt /\ next.pc = "finding"
        /\ next.lockedAtStart = attempts[b].lockedAtStart
    BY <2>2 DEF Attempt
  <2>4. ~attempts[b].lockedAtStart
    BY <2>1 DEF LockInv, HeldLocksStay, RefusedByEntry
  <2>5. failedAttempts' \in Seq(MapEntry)
    BY <2>1, WithoutType DEF LockInv
  <2> HIDE DEF next
  <2>6. QED
    BY <2>1, <2>3, <2>4, <2>5, CollectingKeepsLocks, OneAttemptStep
<1>6. ASSUME NEW b \in Attempts, FailInDirectory(b)
      PROVE  LockInv'
  <2>1. /\ attempts' = [attempts EXCEPT ![b] = Idle]
        /\ UNCHANGED <<mode, now>>
        /\ failedAttempts' = failedAttempts
        /\ CollectEntries
    BY <1>6 DEF FailInDirectory, KeepEntries
  <2>2. failedAttempts' \in Seq(MapEntry)
    BY <2>1 DEF LockInv
  <2>3. QED
    BY <2>1, <2>2, CollectingKeepsLocks, IdleIsQuiet, OneAttemptStep
<1>7. ASSUME NEW b \in Attempts,
             attempts' = [attempts EXCEPT ![b] = Idle],
             UNCHANGED <<mode, now, failedAttempts, entries>>
      PROVE  LockInv'
  <2>1. failedAttempts' \in Seq(MapEntry)
    BY <1>7 DEF LockInv
  <2>2. QED
    BY <1>7, <2>1, IdleIsQuiet, OneAttemptStep
<1>8. ASSUME NEW b \in Attempts, DenyUnregistered(b)
      PROVE  LockInv'
  BY <1>7, <1>8 DEF DenyUnregistered
<1>9. ASSUME NEW b \in Attempts, GrantSession(b)
      PROVE  LockInv'
  BY <1>7, <1>9 DEF GrantSession
<1>10. ASSUME UNCHANGED <<mode, now, signIn>>
       PROVE  LockInv'
  BY <1>10, OtherStep DEF signIn, LockInv
<1>11. ASSUME NEW u \in Users, EnterFromProxy(u) \/ ImportUsers(u)
       PROVE  LockInv'
  BY <1>10, <1>11 DEF EnterFromProxy, ImportUsers
<1>12. ASSUME NEW t \in DOMAIN sessions, UseSession(t) \/ SignOut(t)
       PROVE  LockInv'
  BY <1>10, <1>12 DEF UseSession, SignOut
<1>13. ASSUME NEW t \in DOMAIN issued, SignOutElsewhere(t)
       PROVE  LockInv'
  BY <1>10, <1>13 DEF SignOutElsewhere
<1>14. CASE Restart
  <2>1. failedAttempts' = <<>> /\ attempts' = [a \in Attempts |-> Idle] /\ now' = now
    BY <1>14 DEF Restart
  <2>2. QED
    BY <2>1, IdleIsQuiet DEF LockInv, HeldLocksStay, RefusedWhileLocked
<1>15. CASE Tick
  BY <1>15, OtherStep DEF Tick, LockInv
<1>16. QED
  BY <1>1, <1>2, <1>3, <1>4, <1>5, <1>6, <1>8, <1>9, <1>11, <1>12, <1>13, <1>14,
     <1>15 DEF Next

\* An attempt that begins while its account is locked is never let in,
\* whatever the other attempts, the clock and a restart do in between.
THEOREM LockedAttemptsAreRefused == Spec => []RefusedWhileLocked
<1>1. Init => LockInv
  BY IdleIsQuiet DEF Init, LockInv, HeldLocksStay, RefusedWhileLocked
<1>2. LockInv /\ [Next]_vars => LockInv'
  BY LockStep
<1>3. LockInv => RefusedWhileLocked
  BY DEF LockInv
<1>4. QED
  BY <1>1, <1>2, <1>3, PTL DEF Spec

(***************************************************************************)
(* A lock and the wrong passwords it stands for                            *)
(***************************************************************************)

\* The references that a map and the attempts in flight hold.
Used(map, att) ==
    ({map[i].ref : i \in DOMAIN map}
     \union {att[a].failure : a \in {b \in Attempts : att[b].pc = "comparing"}}) \ {Nil}

\* A map holds a key once, and no two keys share an entry.
Distinct(s) ==
    \A i, j \in DOMAIN s : s[i].key = s[j].key \/ s[i].ref = s[j].ref => i = j

Within(s, t) == \A i \in DOMAIN s : \E j \in DOMAIN t : s[i] = t[j]

\* An entry has counted n failures, and is locked if these are enough.
Tells(entry, n) ==
    /\ entry.count = n
    /\ entry.lockedUntil # Nil <=> n >= MaxAttempts

\* Every entry of the map tells how many wrong passwords its key has seen, and
\* a key without an entry has seen none.
EntriesGood(map, att, ent, seen) ==
    /\ map \in Seq(MapEntry) /\ Len(map) <= MaxFailureEntries /\ Distinct(map)
    /\ att \in [Attempts -> Attempt \union {Idle}]
    /\ seen \in [Key -> Nat]
    /\ DOMAIN ent = Used(map, att)
    /\ \A r \in Used(map, att) : ent[r] \in FailureEntry
    /\ \A i \in DOMAIN map : Tells(ent[map[i].ref], seen[map[i].key])
    /\ \A k \in Key : Places(map, k) = {} => seen[k] = 0

LEMMA UsedType ==
    ASSUME NEW map \in Seq(MapEntry), NEW att \in [Attempts -> Attempt \union {Idle}]
    PROVE  /\ Used(map, att) \subseteq Ref
           /\ \A i \in DOMAIN map : map[i].ref \in Used(map, att)
<1>1. \A i \in DOMAIN map : map[i].ref \in Ref
  <2>1. \A i \in DOMAIN map : map[i] \in MapEntry
    OBVIOUS
  <2>2. QED
    BY <2>1 DEF MapEntry
<1>2. Nil \notin Ref
  BY AuthAssumption DEF Ref
<1>3. \A a \in Attempts : att[a].pc = "comparing" => att[a].failure \in Ref \union {Nil}
  BY DEF Attempt, Idle
<1>4. QED
  BY <1>1, <1>2, <1>3 DEF Used

LEMMA NoPlaceNoRef ==
    ASSUME NEW s \in Seq(MapEntry), NEW k
    PROVE  RefOf(s, k) = Nil <=> Places(s, k) = {}
<1>1. CASE Places(s, k) = {}
  BY <1>1 DEF RefOf
<1>2. CASE Places(s, k) # {}
  <2> DEFINE p == CHOOSE i \in Places(s, k) : TRUE
  <2>1. s[p] \in MapEntry
    BY <1>2, PlaceType
  <2>2. s[p].ref \in Ref
    BY <2>1 DEF MapEntry
  <2>3. RefOf(s, k) = s[p].ref
    BY <1>2 DEF RefOf
  <2>4. QED
    BY <1>2, <2>2, <2>3, AuthAssumption DEF Ref
<1>3. QED
  BY <1>1, <1>2

LEMMA RefAt ==
    ASSUME NEW s \in Seq(MapEntry), Distinct(s), NEW i \in DOMAIN s
    PROVE  RefOf(s, s[i].key) = s[i].ref
<1> DEFINE k == s[i].key
           p == CHOOSE j \in Places(s, k) : TRUE
<1>1. i \in Places(s, k)
  BY DEF Places
<1>2. p \in Places(s, k)
  BY <1>1
<1>3. p = i
  BY <1>2 DEF Places, Distinct
<1>4. QED
  BY <1>1, <1>3 DEF RefOf

LEMMA RefFrom ==
    ASSUME NEW s \in Seq(MapEntry), NEW k, RefOf(s, k) # Nil
    PROVE  \E i \in DOMAIN s : s[i].key = k /\ s[i].ref = RefOf(s, k)
<1> DEFINE p == CHOOSE j \in Places(s, k) : TRUE
<1>1. Places(s, k) # {}
  BY NoPlaceNoRef
<1>2. p \in Places(s, k)
  BY <1>1
<1>3. RefOf(s, k) = s[p].ref
  BY <1>1 DEF RefOf
<1>4. QED
  BY <1>2, <1>3 DEF Places

\* What deleting a key leaves.
LEMMA WithoutShrinks ==
    ASSUME NEW s \in Seq(MapEntry), Distinct(s), NEW k
    PROVE  /\ Without(s, k) \in Seq(MapEntry) /\ Distinct(Without(s, k))
           /\ Within(Without(s, k), s) /\ Places(Without(s, k), k) = {}
           /\ Len(Without(s, k)) <= Len(s)
           /\ Places(s, k) # {} => Len(Without(s, k)) = Len(s) - 1
<1>1. CASE Places(s, k) = {}
  <2>1. Without(s, k) = s
    BY <1>1 DEF Without
  <2>2. Within(s, s)
    BY DEF Within
  <2>3. QED
    BY <1>1, <2>1, <2>2
<1>2. CASE Places(s, k) # {}
  <2> DEFINE p == CHOOSE i \in Places(s, k) : TRUE
             n == Len(s) - 1
             t == [i \in 1..n |-> IF i < p THEN s[i] ELSE s[i + 1]]
  <2>1. p \in 1..Len(s) /\ n \in Nat /\ n + 1 = Len(s)
    BY <1>2, PlaceType
  <2>2. p \in Places(s, k)
    BY <1>2
  <2>3. s[p].key = k
    BY <2>2 DEF Places
  <2>4. Without(s, k) = t
    BY <1>2 DEF Without
  <2>5. t \in Seq(MapEntry)
    BY <2>4, WithoutType
  <2>6. DOMAIN t = 1..n /\ \A i \in 1..n : t[i] = IF i < p THEN s[i] ELSE s[i + 1]
    OBVIOUS
  <2>7. Len(t) = n
    BY <2>1, <2>5, <2>6, LenProperties
  <2> HIDE DEF p, t
  <2>8. DOMAIN s = 1..(n + 1)
    BY <2>1
  <2> HIDE DEF n
  <2> DEFINE from(i) == IF i < p THEN i ELSE i + 1
  <2>9. \A i \in 1..n : from(i) \in 1..(n + 1) /\ from(i) # p /\ t[i] = s[from(i)]
    BY <2>1, <2>6
  <2>10. \A i, j \in 1..n : from(i) = from(j) => i = j
    BY <2>1
  <2> HIDE DEF from
  <2>11. Distinct(t)
    BY <2>6, <2>8, <2>9, <2>10 DEF Distinct
  <2>12. Within(t, s)
    BY <2>6, <2>8, <2>9 DEF Within
  <2>13. Places(t, k) = {}
    <3>1. \A i \in 1..n : t[i].key # k
      BY <2>1, <2>3, <2>8, <2>9 DEF Distinct
    <3>2. QED
      BY <2>6, <3>1 DEF Places
  <2>14. QED
    BY <2>1, <2>4, <2>5, <2>7, <2>11, <2>12, <2>13
<1>3. QED
  BY <1>1, <1>2

\* The same of looking an entry up, which drops it when its lock has run out.
LEMMA ActiveShrinks ==
    ASSUME NEW s \in Seq(MapEntry), Distinct(s), NEW k
    PROVE  /\ Active(s, k) \in Seq(MapEntry) /\ Distinct(Active(s, k))
           /\ Within(Active(s, k), s) /\ Len(Active(s, k)) <= Len(s)
           /\ Places(s, k) # {} /\ Places(Active(s, k), k) = {} =>
                 Len(Active(s, k)) = Len(s) - 1
<1>1. Active(s, k) = s \/ Active(s, k) = Without(s, k)
  BY DEF Active
<1>2. Within(s, s)
  BY DEF Within
<1>3. QED
  BY <1>1, <1>2, WithoutShrinks

LEMMA TailShrinks ==
    ASSUME NEW s \in Seq(MapEntry), Distinct(s), Len(s) >= 1
    PROVE  /\ Tail(s) \in Seq(MapEntry) /\ Distinct(Tail(s)) /\ Within(Tail(s), s)
           /\ Len(Tail(s)) = Len(s) - 1
<1>1. /\ Tail(s) \in Seq(MapEntry) /\ Len(Tail(s)) = Len(s) - 1
      /\ DOMAIN s = 1..Len(s) /\ Len(s) \in Nat
      /\ \A i \in 1..(Len(s) - 1) : i + 1 \in DOMAIN s /\ Tail(s)[i] = s[i + 1]
  OBVIOUS
<1>2. DOMAIN Tail(s) = 1..(Len(s) - 1)
  BY <1>1
<1>3. Distinct(Tail(s))
  BY <1>1, <1>2 DEF Distinct
<1>4. Within(Tail(s), s)
  BY <1>1, <1>2 DEF Within
<1>5. QED
  BY <1>1, <1>3, <1>4

LEMMA PlacesWithin ==
    ASSUME NEW s, NEW t, Within(s, t), NEW k, Places(t, k) = {}
    PROVE  Places(s, k) = {}
BY DEF Within, Places

LEMMA WithinTrans ==
    ASSUME NEW s, NEW t, NEW u, Within(s, t), Within(t, u)
    PROVE  Within(s, u)
BY DEF Within

\* Dropping keys, and letting attempts go, keeps the rest as it is.
LEMMA ShrinkingIsGood ==
    ASSUME NEW map, NEW att, NEW ent, NEW seen, EntriesGood(map, att, ent, seen),
           NEW map2 \in Seq(MapEntry), Distinct(map2), Within(map2, map), Len(map2) <= Len(map),
           NEW att2 \in [Attempts -> Attempt \union {Idle}],
           \A a \in Attempts : att2[a].pc = "comparing" =>
                                  att2[a].failure \in Used(map, att) \union {Nil},
           NEW ent2, ent2 = [q \in Used(map2, att2) |-> ent[q]],
           NEW seen2, seen2 = [k \in Key |-> IF RefOf(map2, k) = Nil THEN 0 ELSE seen[k]]
    PROVE  EntriesGood(map2, att2, ent2, seen2)
<1>1. /\ map \in Seq(MapEntry) /\ Len(map) <= MaxFailureEntries /\ Distinct(map)
      /\ att \in [Attempts -> Attempt \union {Idle}] /\ seen \in [Key -> Nat]
      /\ \A r \in Used(map, att) : ent[r] \in FailureEntry
      /\ \A i \in DOMAIN map : Tells(ent[map[i].ref], seen[map[i].key])
  BY DEF EntriesGood
<1>2. Used(map2, att2) \subseteq Used(map, att)
  <2>1. \A i \in DOMAIN map : map[i].ref \in Used(map, att)
    BY <1>1, UsedType
  <2>2. \A i \in DOMAIN map2 : map2[i].ref \in Used(map, att)
    BY <2>1 DEF Within
  <2> SUFFICES ASSUME NEW r \in Used(map2, att2) PROVE r \in Used(map, att)
    OBVIOUS
  <2>3. r # Nil /\ ((\E i \in DOMAIN map2 : r = map2[i].ref)
                    \/ \E a \in Attempts : att2[a].pc = "comparing" /\ r = att2[a].failure)
    BY DEF Used
  <2>4. QED
    BY <2>2, <2>3
<1>3. Len(map2) <= MaxFailureEntries
  BY <1>1, AuthAssumption
<1>4. seen2 \in [Key -> Nat]
  BY <1>1
<1>5. ASSUME NEW i \in DOMAIN map2
      PROVE  Tells(ent2[map2[i].ref], seen2[map2[i].key])
  <2>1. PICK j \in DOMAIN map : map2[i] = map[j]
    BY DEF Within
  <2>2. map2[i].ref \in Used(map2, att2)
    BY UsedType
  <2>3. ent2[map2[i].ref] = ent[map2[i].ref]
    BY <2>2
  <2>4. map2[i].key \in Key /\ map2[i].ref \in Ref
    <3>1. map2[i] \in MapEntry
      OBVIOUS
    <3>2. QED
      BY <3>1 DEF MapEntry
  <2>5. RefOf(map2, map2[i].key) # Nil
    BY <2>4, RefAt, AuthAssumption DEF Ref
  <2>6. seen2[map2[i].key] = seen[map2[i].key]
    BY <2>4, <2>5
  <2>7. QED
    BY <1>1, <2>1, <2>3, <2>6
<1>6. \A k \in Key : Places(map2, k) = {} => seen2[k] = 0
  BY NoPlaceNoRef
<1>7. DOMAIN ent2 = Used(map2, att2) /\ \A r \in Used(map2, att2) : ent2[r] \in FailureEntry
  BY <1>1, <1>2
<1>8. QED
  BY <1>3, <1>4, <1>5, <1>6, <1>7 DEF EntriesGood
\* registerFailure counts on the entry of its key, or on a new one.
LEMMA RegisteringIsGood ==
    ASSUME EntriesGood(failedAttempts, attempts, entries, wrong), now \in Nat,
           NEW k \in Key, NEW held, RegisterFailure(k, held),
           attempts' \in [Attempts -> Attempt \union {Idle}],
           \A a \in Attempts : attempts'[a].pc = "comparing" => attempts'[a] = attempts[a]
    PROVE  EntriesGood(failedAttempts', attempts', entries', wrong')
<1> DEFINE full    == RefOf(failedAttempts, k) = Nil /\ Len(failedAttempts) >= MaxFailureEntries
           room    == IF full THEN Tail(failedAttempts) ELSE failedAttempts
           current == Active(room, k)
           found   == RefOf(current, k)
           w       == IF found = Nil THEN FreshRef ELSE found
           entry   == IF found = Nil THEN NoEntry ELSE entries[found]
           lock    == IF entry.count + 1 >= MaxAttempts THEN now + Lockout ELSE entry.lockedUntil
           written == [count |-> entry.count + 1, lockedUntil |-> lock]
           before  == IF found = Nil THEN 0 ELSE wrong[k]
           counted == [wrong EXCEPT ![k] = before + 1]
<1>1. /\ failedAttempts \in Seq(MapEntry) /\ Len(failedAttempts) <= MaxFailureEntries
      /\ Distinct(failedAttempts) /\ wrong \in [Key -> Nat]
      /\ attempts \in [Attempts -> Attempt \union {Idle}]
      /\ \A r \in Used(failedAttempts, attempts) : entries[r] \in FailureEntry
      /\ \A i \in DOMAIN failedAttempts :
            Tells(entries[failedAttempts[i].ref], wrong[failedAttempts[i].key])
      /\ \A j \in Key : Places(failedAttempts, j) = {} => wrong[j] = 0
      /\ Len(failedAttempts) \in Nat /\ MaxFailureEntries \in Nat \ {0}
  BY AuthAssumption DEF EntriesGood
<1>2. /\ failedAttempts' = IF found = Nil THEN Append(current, [key |-> k, ref |-> w]) ELSE current
      /\ wrong' = [j \in Key |-> IF RefOf(failedAttempts', j) = Nil THEN 0 ELSE counted[j]]
  BY DEF RegisterFailure, KeepEntries
<1>3. entries' = [q \in Used(failedAttempts', attempts') |-> IF q = w THEN written ELSE entries[q]]
  BY DEF RegisterFailure, WriteEntry, InUse, Used
<1>4. FreshRef \in Ref /\ FreshRef \notin Used(failedAttempts, attempts)
  BY <1>1, FreshRefIsFresh DEF InUse, Used
<1>5. /\ room \in Seq(MapEntry) /\ Distinct(room) /\ Within(room, failedAttempts)
      /\ Len(room) \in Nat /\ Len(room) <= MaxFailureEntries
      /\ Places(failedAttempts, k) = {} => Len(room) < MaxFailureEntries
      /\ Places(failedAttempts, k) # {} => room = failedAttempts
  <2>1. RefOf(failedAttempts, k) = Nil <=> Places(failedAttempts, k) = {}
    BY <1>1, NoPlaceNoRef
  <2>2. CASE full
    BY <1>1, <2>1, <2>2, TailShrinks
  <2>3. CASE ~full
    <3>1. Within(failedAttempts, failedAttempts)
      BY DEF Within
    <3>2. QED
      BY <1>1, <2>1, <2>3, <3>1
  <2>4. QED
    BY <2>2, <2>3
<1> HIDE DEF room
<1>6. /\ current \in Seq(MapEntry) /\ Distinct(current) /\ Within(current, room)
      /\ Len(current) \in Nat /\ Len(current) <= Len(room)
      /\ Places(room, k) # {} /\ Places(current, k) = {} => Len(current) = Len(room) - 1
  BY <1>5, ActiveShrinks
<1> HIDE DEF current
<1>7. Within(current, failedAttempts)
  BY <1>5, <1>6, WithinTrans
<1>8. found = Nil <=> Places(current, k) = {}
  BY <1>6, NoPlaceNoRef
<1>9. found # Nil => \E i \in DOMAIN current : current[i].key = k /\ current[i].ref = found
  BY <1>6, RefFrom
<1>10. \A i \in DOMAIN current : /\ current[i] \in MapEntry
                                 /\ current[i].ref \in Used(failedAttempts, attempts)
  <2>1. \A i \in DOMAIN failedAttempts : failedAttempts[i].ref \in Used(failedAttempts, attempts)
    BY <1>1, UsedType
  <2>2. \A i \in DOMAIN current : current[i] \in MapEntry
    BY <1>6
  <2>3. QED
    BY <1>7, <2>1, <2>2 DEF Within
<1> HIDE DEF found
<1>11. w \in Ref
  BY <1>4, <1>9, <1>10 DEF MapEntry
<1>12. /\ Tells(written, before + 1) /\ written \in FailureEntry
       /\ before \in Nat /\ counted[k] = before + 1
       /\ \A j \in Key \ {k} : counted[j] = wrong[j]
  <2>1. before \in Nat /\ Tells(entry, before) /\ entry \in FailureEntry
    <3>1. CASE found = Nil
      BY <3>1, AuthAssumption DEF NoEntry, Tells, FailureEntry
    <3>2. CASE found # Nil
      <4>1. PICK i \in DOMAIN current : current[i].key = k /\ current[i].ref = found
        BY <1>9, <3>2
      <4>2. PICK j \in DOMAIN failedAttempts : current[i] = failedAttempts[j]
        BY <1>7 DEF Within
      <4>3. Tells(entries[found], wrong[k])
        BY <1>1, <4>1, <4>2
      <4>4. entries[found] \in FailureEntry
        BY <1>1, <1>10, <4>1
      <4>5. QED
        BY <1>1, <3>2, <4>3, <4>4
    <3>3. QED
      BY <3>1, <3>2
  <2> HIDE DEF entry, before
  <2>2. entry.count = before /\ entry.lockedUntil \in Int \union {Nil}
        /\ (entry.lockedUntil # Nil <=> before >= MaxAttempts)
    BY <2>1 DEF Tells, FailureEntry
  <2>3. now + Lockout \in Int /\ Nil \notin Int /\ MaxAttempts \in Nat
    BY AuthAssumption
  <2>4. lock \in Int \union {Nil} /\ (lock # Nil <=> before + 1 >= MaxAttempts)
    BY <2>1, <2>2, <2>3
  <2>5. written.count = before + 1 /\ written.lockedUntil = lock
    BY <2>2
  <2>6. written \in FailureEntry
    BY <2>1, <2>2, <2>4 DEF FailureEntry
  <2>7. counted[k] = before + 1 /\ \A j \in Key \ {k} : counted[j] = wrong[j]
    BY <1>1
  <2>8. QED
    BY <2>1, <2>4, <2>5, <2>6, <2>7 DEF Tells
<1>13. counted \in [Key -> Nat]
  BY <1>1, <1>12
<1> HIDE DEF written, before, counted
<1> DEFINE map == failedAttempts'
<1>14. /\ map \in Seq(MapEntry) /\ Len(map) <= MaxFailureEntries /\ Distinct(map)
       /\ \E i \in DOMAIN map : map[i].key = k
       /\ \A i \in DOMAIN map :
             \/ map[i].key = k /\ map[i].ref = w
             \/ /\ map[i].key # k /\ map[i].ref # w
                /\ \E j \in DOMAIN failedAttempts : map[i] = failedAttempts[j]
  <2>1. CASE found = Nil
    <3> DEFINE x == [key |-> k, ref |-> w]
               n == Len(current)
    <3>1. map = Append(current, x) /\ w = FreshRef
      BY <1>2, <2>1
    <3>2. x \in MapEntry /\ x.key = k /\ x.ref = w
      BY <1>11 DEF MapEntry
    <3> HIDE DEF x, w
    <3>3. /\ map \in Seq(MapEntry) /\ DOMAIN map = 1..(n + 1) /\ Len(map) = n + 1 /\ n \in Nat
          /\ map[n + 1] = x /\ DOMAIN current = 1..n /\ \A i \in 1..n : map[i] = current[i]
      BY <1>6, <3>1, <3>2
    <3> HIDE DEF n
    <3>4. \A i \in 1..n : current[i].key # k /\ current[i].ref # w
      BY <1>4, <1>8, <1>10, <2>1, <3>1, <3>3 DEF Places
    <3>5. Distinct(map)
      <4> SUFFICES ASSUME NEW i \in 1..(n + 1), NEW j \in 1..(n + 1),
                          map[i].key = map[j].key \/ map[i].ref = map[j].ref
                   PROVE  i = j
        BY <3>3 DEF Distinct
      <4>1. CASE i \in 1..n /\ j \in 1..n
        BY <1>6, <3>3, <4>1 DEF Distinct
      <4>2. CASE i = n + 1 \/ j = n + 1
        BY <3>2, <3>3, <3>4, <4>2
      <4>3. QED
        BY <3>3, <4>1, <4>2
    <3>6. n < MaxFailureEntries
      <4>1. CASE Places(failedAttempts, k) = {}
        BY <1>1, <1>5, <1>6, <4>1 DEF n
      <4>2. CASE Places(failedAttempts, k) # {}
        BY <1>1, <1>5, <1>6, <1>8, <2>1, <4>2 DEF n
      <4>3. QED
        BY <4>1, <4>2
    <3>7. n + 1 <= MaxFailureEntries
      BY <1>1, <3>3, <3>6
    <3>8. \E i \in DOMAIN map : map[i].key = k
      BY <3>2, <3>3
    <3>9. ASSUME NEW i \in DOMAIN map
          PROVE  \/ map[i].key = k /\ map[i].ref = w
                 \/ /\ map[i].key # k /\ map[i].ref # w
                    /\ \E j \in DOMAIN failedAttempts : map[i] = failedAttempts[j]
      <4>1. CASE i = n + 1
        BY <3>2, <3>3, <4>1
      <4>2. CASE i \in 1..n
        BY <1>7, <3>3, <3>4, <4>2 DEF Within
      <4>3. QED
        BY <3>3, <4>1, <4>2
    <3>10. QED
      BY <3>3, <3>5, <3>7, <3>8, <3>9
  <2>2. CASE found # Nil
    <3>1. map = current /\ w = found
      BY <1>2, <2>2
    <3>2. PICK f \in DOMAIN current : current[f].key = k /\ current[f].ref = found
      BY <1>9, <2>2
    <3>3. \A i \in DOMAIN current : i = f \/ (current[i].key # k /\ current[i].ref # found)
      BY <1>6, <3>2 DEF Distinct
    <3>4. Len(current) <= MaxFailureEntries
      BY <1>1, <1>5, <1>6
    <3> HIDE DEF w
    <3>5. QED
      BY <1>6, <1>7, <3>1, <3>2, <3>3, <3>4 DEF Within
  <2>3. QED
    BY <2>1, <2>2
<1>15. /\ Used(map, attempts') \subseteq Used(failedAttempts, attempts) \union {w}
  <2> SUFFICES ASSUME NEW r \in Used(map, attempts'), r # w
               PROVE  r \in Used(failedAttempts, attempts)
    OBVIOUS
  <2> HIDE DEF w, map
  <2>1. \/ \E i \in DOMAIN map : r = map[i].ref
        \/ \E a \in Attempts : attempts'[a].pc = "comparing" /\ r = attempts'[a].failure
    BY DEF Used
  <2>2. r # Nil
    BY DEF Used
  <2>3. CASE \E i \in DOMAIN map : r = map[i].ref
    BY <1>14, <2>2, <2>3 DEF Used
  <2>4. CASE \E a \in Attempts : attempts'[a].pc = "comparing" /\ r = attempts'[a].failure
    BY <2>2, <2>4 DEF Used
  <2>5. QED
    BY <2>1, <2>3, <2>4
<1> HIDE DEF map, w
<1>16. wrong' \in [Key -> Nat] /\ \A j \in Key : Places(map, j) = {} => wrong'[j] = 0
  <2>1. \A j \in Key : RefOf(map, j) = Nil <=> Places(map, j) = {}
    BY <1>14, NoPlaceNoRef
  <2>2. QED
    BY <1>2, <1>13, <2>1 DEF map
<1>17. /\ DOMAIN entries' = Used(map, attempts')
       /\ \A r \in Used(map, attempts') : entries'[r] \in FailureEntry
  BY <1>1, <1>3, <1>12, <1>15 DEF map
<1>18. ASSUME NEW i \in DOMAIN map
       PROVE  Tells(entries'[map[i].ref], wrong'[map[i].key])
  <2>1. map[i] \in MapEntry /\ map[i].ref \in Used(map, attempts')
    BY <1>14, UsedType
  <2>2. map[i].key \in Key /\ map[i].ref \in Ref
    BY <2>1 DEF MapEntry
  <2>3. RefOf(map, map[i].key) # Nil
    BY <1>14, <2>2, RefAt, AuthAssumption DEF Ref
  <2>4. wrong'[map[i].key] = counted[map[i].key]
    BY <1>2, <2>2, <2>3 DEF map
  <2>5. entries'[map[i].ref] = IF map[i].ref = w THEN written ELSE entries[map[i].ref]
    BY <1>3, <2>1 DEF map
  <2>6. CASE map[i].key = k /\ map[i].ref = w
    BY <1>12, <2>4, <2>5, <2>6
  <2>7. CASE /\ map[i].key # k /\ map[i].ref # w
             /\ \E j \in DOMAIN failedAttempts : map[i] = failedAttempts[j]
    <3>1. counted[map[i].key] = wrong[map[i].key]
      BY <1>12, <2>2, <2>7
    <3>2. Tells(entries[map[i].ref], wrong[map[i].key])
      BY <1>1, <2>7
    <3>3. QED
      BY <2>4, <2>5, <2>7, <3>1, <3>2
  <2>8. QED
    BY <1>14, <2>6, <2>7
<1>19. QED
  BY <1>14, <1>16, <1>17, <1>18 DEF EntriesGood, map
LEMMA EntriesInUse == InUse = Used(failedAttempts, attempts)
BY DEF InUse, Used

LEMMA EntriesInUseNext == InUse' = Used(failedAttempts', attempts')
BY DEF InUse, Used

\* A step that drops keys from the map, or none, and counts nothing.
LEMMA DroppingIsGood ==
    ASSUME EntriesGood(failedAttempts, attempts, entries, wrong),
           NEW map \in Seq(MapEntry), Distinct(map), Within(map, failedAttempts),
           Len(map) <= Len(failedAttempts), KeepEntries(map, wrong), CollectEntries,
           attempts' \in [Attempts -> Attempt \union {Idle}],
           \A a \in Attempts : attempts'[a].pc = "comparing" =>
                                  \/ attempts'[a] = attempts[a]
                                  \/ attempts'[a].failure \in Used(failedAttempts, attempts) \union {Nil}
    PROVE  EntriesGood(failedAttempts', attempts', entries', wrong')
<1>1. /\ failedAttempts' = map
      /\ wrong' = [k \in Key |-> IF RefOf(map, k) = Nil THEN 0 ELSE wrong[k]]
  BY DEF KeepEntries
<1>2. entries' = [q \in Used(map, attempts') |-> entries[q]]
  BY <1>1, EntriesInUseNext DEF CollectEntries
<1>3. \A a \in Attempts : attempts'[a].pc = "comparing" =>
         attempts'[a].failure \in Used(failedAttempts, attempts) \union {Nil}
  BY DEF Used
<1>4. QED
  BY <1>1, <1>2, <1>3, ShrinkingIsGood

\* A step that leaves the map and the comparing attempts alone.
LEMMA StayingIsGood ==
    ASSUME EntriesGood(failedAttempts, attempts, entries, wrong),
           UNCHANGED <<failedAttempts, entries, wrong>>,
           attempts' \in [Attempts -> Attempt \union {Idle}],
           \A a \in Attempts : /\ attempts'[a].pc = "comparing" <=> attempts[a].pc = "comparing"
                               /\ attempts[a].pc = "comparing" => attempts'[a] = attempts[a]
    PROVE  EntriesGood(failedAttempts', attempts', entries', wrong')
<1>1. Used(failedAttempts, attempts') = Used(failedAttempts, attempts)
  BY DEF Used
<1>2. QED
  BY <1>1 DEF EntriesGood

\* One attempt ends or goes on; the others are as they were.
LEMMA OneAttempt ==
    ASSUME EntriesGood(failedAttempts, attempts, entries, wrong), NEW b \in Attempts,
           NEW next \in Attempt \union {Idle}, attempts' = [attempts EXCEPT ![b] = next]
    PROVE  /\ attempts' \in [Attempts -> Attempt \union {Idle}] /\ attempts'[b] = next
           /\ \A a \in Attempts \ {b} : attempts'[a] = attempts[a]
BY DEF EntriesGood

\* After a start nobody has an entry.
LEMMA NothingCounted ==
    ASSUME NEW map, map = <<>>, NEW att, att = [a \in Attempts |-> Idle],
           NEW ent, ent = <<>>, NEW seen, seen = [k \in Key |-> 0]
    PROVE  EntriesGood(map, att, ent, seen)
<1>1. map \in Seq(MapEntry) /\ Len(map) = 0 /\ DOMAIN map = {} /\ DOMAIN ent = {}
  OBVIOUS
<1>2. Used(map, att) = {}
  BY <1>1, IdleIsQuiet DEF Used
<1>3. att \in [Attempts -> Attempt \union {Idle}] /\ seen \in [Key -> Nat]
  OBVIOUS
<1>4. QED
  BY <1>1, <1>2, <1>3, AuthAssumption DEF EntriesGood, Distinct

LEMMA EntriesStep ==
    ASSUME EntriesGood(failedAttempts, attempts, entries, wrong), now \in Nat, [Next]_vars
    PROVE  EntriesGood(failedAttempts', attempts', entries', wrong')
<1>1. /\ failedAttempts \in Seq(MapEntry) /\ Distinct(failedAttempts)
      /\ Within(failedAttempts, failedAttempts) /\ Len(failedAttempts) <= Len(failedAttempts)
      /\ attempts \in [Attempts -> Attempt \union {Idle}]
  BY DEF EntriesGood, Within
<1>2. ASSUME UNCHANGED signIn
      PROVE  EntriesGood(failedAttempts', attempts', entries', wrong')
  BY <1>2 DEF signIn
<1>3. ASSUME NEW b \in Attempts, attempts[b].pc # "idle"
      PROVE  attempts[b] \in Attempt /\ LockKey(attempts[b].id) \in Key
  <2>1. attempts[b] \in Attempt
    BY <1>1, <1>3 DEF Idle
  <2>2. QED
    BY <2>1, KeysAreTyped DEF Attempt
<1>4. ASSUME NEW b \in Attempts, NEW i \in Identifier, NEW right \in BOOLEAN,
             NEW remember \in BOOLEAN, BeginAttempt(b, i, right, remember)
      PROVE  EntriesGood(failedAttempts', attempts', entries', wrong')
  <2> DEFINE map  == Active(failedAttempts, LockKey(i))
             held == RefOf(map, LockKey(i))
             next == [pc |-> "comparing", id |-> i, right |-> right, remember |-> remember,
                      failure |-> held, lockedAtStart |-> Locked(held)]
  <2>1. /\ map \in Seq(MapEntry) /\ Distinct(map) /\ Within(map, failedAttempts)
        /\ Len(map) <= Len(failedAttempts)
    BY <1>1, ActiveShrinks
  <2>2. held \in Used(failedAttempts, attempts) \union {Nil}
    <3>1. CASE held = Nil
      BY <3>1
    <3>2. CASE held # Nil
      <4>1. \E j \in DOMAIN map : map[j].ref = held
        BY <2>1, <3>2, RefFrom
      <4>2. \E j \in DOMAIN failedAttempts : failedAttempts[j].ref = held
        BY <2>1, <4>1 DEF Within
      <4>3. QED
        BY <1>1, <4>2, UsedType
    <3>3. QED
      BY <3>1, <3>2
  <2>3. next \in Attempt /\ next.failure = held
    <3>1. held \in Ref \union {Nil} /\ Locked(held) \in BOOLEAN
      BY <2>1, RefOfType DEF Locked
    <3>2. QED
      BY <3>1 DEF Attempt
  <2>4. KeepEntries(map, wrong) /\ CollectEntries /\ attempts' = [attempts EXCEPT ![b] = next]
    BY <1>4 DEF BeginAttempt
  <2> HIDE DEF map, held, next
  <2>5. /\ attempts' \in [Attempts -> Attempt \union {Idle}] /\ attempts'[b] = next
        /\ \A a \in Attempts \ {b} : attempts'[a] = attempts[a]
    BY <2>3, <2>4, OneAttempt
  <2>6. \A a \in Attempts : attempts'[a].pc = "comparing" =>
                               \/ attempts'[a] = attempts[a]
                               \/ attempts'[a].failure \in Used(failedAttempts, attempts) \union {Nil}
    BY <2>2, <2>3, <2>5
  <2>7. QED
    BY <2>1, <2>4, <2>5, <2>6, DroppingIsGood
<1>5. ASSUME NEW b \in Attempts, NEW next \in Attempt \union {Idle}, next.pc # "comparing",
             attempts' = [attempts EXCEPT ![b] = next]
      PROVE  /\ attempts' \in [Attempts -> Attempt \union {Idle}]
             /\ \A a \in Attempts : attempts'[a].pc = "comparing" => attempts'[a] = attempts[a]
             /\ attempts[b].pc # "comparing" =>
                   \A a \in Attempts : /\ attempts'[a].pc = "comparing" <=> attempts[a].pc = "comparing"
                                       /\ attempts[a].pc = "comparing" => attempts'[a] = attempts[a]
  <2>1. /\ attempts' \in [Attempts -> Attempt \union {Idle}] /\ attempts'[b] = next
        /\ \A a \in Attempts \ {b} : attempts'[a] = attempts[a]
    BY <1>5, OneAttempt
  <2>2. QED
    BY <1>5, <2>1
<1>6. ASSUME NEW b \in Attempts, RejectAttempt(b)
      PROVE  EntriesGood(failedAttempts', attempts', entries', wrong')
  <2>1. attempts[b].pc = "comparing" /\ attempts' = [attempts EXCEPT ![b] = Idle]
    BY <1>6 DEF RejectAttempt
  <2>2. /\ attempts' \in [Attempts -> Attempt \union {Idle}]
        /\ \A a \in Attempts : attempts'[a].pc = "comparing" => attempts'[a] = attempts[a]
    BY <1>5, <2>1, IdleIsQuiet
  <2>3. CASE RefusedByEntry(b)
    <3>1. KeepEntries(failedAttempts, wrong) /\ CollectEntries
      BY <1>6, <2>3 DEF RejectAttempt
    <3>2. QED
      BY <1>1, <2>2, <3>1, DroppingIsGood
  <2>4. CASE ~RefusedByEntry(b)
    <3>1. RegisterFailure(LockKey(attempts[b].id), attempts[b].failure)
      BY <1>6, <2>4 DEF RejectAttempt
    <3>2. LockKey(attempts[b].id) \in Key
      BY <1>3, <2>1
    <3>3. QED
      BY <2>2, <3>1, <3>2, RegisteringIsGood
  <2>5. QED
    BY <2>3, <2>4
<1>7. ASSUME NEW b \in Attempts, AcceptAttempt(b)
      PROVE  EntriesGood(failedAttempts', attempts', entries', wrong')
  <2> DEFINE next == [attempts[b] EXCEPT !.pc = "finding"]
             map  == Without(failedAttempts, LockKey(attempts[b].id))
  <2>1. /\ attempts[b].pc = "comparing" /\ attempts' = [attempts EXCEPT ![b] = next]
        /\ KeepEntries(map, wrong) /\ CollectEntries
    BY <1>7 DEF AcceptAttempt
  <2>2. next \in Attempt /\ next.pc # "comparing"
    BY <1>3, <2>1 DEF Attempt
  <2>3. /\ map \in Seq(MapEntry) /\ Distinct(map) /\ Within(map, failedAttempts)
        /\ Len(map) <= Len(failedAttempts)
    BY <1>1, WithoutShrinks
  <2> HIDE DEF next, map
  <2>4. /\ attempts' \in [Attempts -> Attempt \union {Idle}]
        /\ \A a \in Attempts : attempts'[a].pc = "comparing" => attempts'[a] = attempts[a]
    BY <1>5, <2>1, <2>2
  <2>5. QED
    BY <2>1, <2>3, <2>4, DroppingIsGood
<1>8. ASSUME NEW b \in Attempts, FailInDirectory(b)
      PROVE  EntriesGood(failedAttempts', attempts', entries', wrong')
  <2>1. /\ attempts' = [attempts EXCEPT ![b] = Idle]
        /\ KeepEntries(failedAttempts, wrong) /\ CollectEntries
    BY <1>8 DEF FailInDirectory
  <2>2. /\ attempts' \in [Attempts -> Attempt \union {Idle}]
        /\ \A a \in Attempts : attempts'[a].pc = "comparing" => attempts'[a] = attempts[a]
    BY <1>5, <2>1, IdleIsQuiet
  <2>3. QED
    BY <1>1, <2>1, <2>2, DroppingIsGood
<1>9. ASSUME NEW b \in Attempts, attempts[b].pc = "finding",
             attempts' = [attempts EXCEPT ![b] = Idle],
             UNCHANGED <<failedAttempts, entries, wrong>>
      PROVE  EntriesGood(failedAttempts', attempts', entries', wrong')
  BY <1>5, <1>9, IdleIsQuiet, StayingIsGood
<1>10. ASSUME NEW b \in Attempts, DenyUnregistered(b) \/ GrantSession(b)
       PROVE  EntriesGood(failedAttempts', attempts', entries', wrong')
  BY <1>9, <1>10 DEF DenyUnregistered, GrantSession
<1>11. ASSUME NEW i \in Identifier, RefuseLockedName(i)
       PROVE  EntriesGood(failedAttempts', attempts', entries', wrong')
  BY <1>11 DEF RefuseLockedName
<1>12. ASSUME NEW u \in Users, EnterFromProxy(u) \/ ImportUsers(u)
       PROVE  EntriesGood(failedAttempts', attempts', entries', wrong')
  BY <1>2, <1>12 DEF EnterFromProxy, ImportUsers
<1>13. ASSUME NEW t \in DOMAIN sessions, UseSession(t) \/ SignOut(t)
       PROVE  EntriesGood(failedAttempts', attempts', entries', wrong')
  BY <1>2, <1>13 DEF UseSession, SignOut
<1>14. ASSUME NEW t \in DOMAIN issued, SignOutElsewhere(t)
       PROVE  EntriesGood(failedAttempts', attempts', entries', wrong')
  BY <1>2, <1>14 DEF SignOutElsewhere
<1>15. CASE Restart
  <2>1. /\ failedAttempts' = <<>> /\ attempts' = [a \in Attempts |-> Idle] /\ entries' = <<>>
        /\ wrong' = [k \in Key |-> 0]
    BY <1>15 DEF Restart
  <2>2. QED
    BY <2>1, NothingCounted
<1>16. CASE Tick
  BY <1>16 DEF Tick
<1>17. CASE UNCHANGED vars
  BY <1>2, <1>17 DEF vars
<1>18. QED
  BY <1>4, <1>6, <1>7, <1>8, <1>10, <1>11, <1>12, <1>13, <1>14, <1>15, <1>16, <1>17 DEF Next
(***************************************************************************)
(* The clock, the limiter and the sessions                                 *)
(***************************************************************************)

Hits == [count : 0..LoginLimit, resetAt : Int]

RestTyped ==
    /\ mode \in Mode
    /\ now \in 0..MaxNow[mode]
    /\ hits \in [Key -> Hits]
    /\ issued \in Seq(Users)
    /\ DOMAIN sessions \subseteq DOMAIN issued
    /\ \A t \in DOMAIN sessions : sessions[t] \in Session
    /\ active \subseteq Users

AuthInv == EntriesGood(failedAttempts, attempts, entries, wrong) /\ RestTyped

LEMMA Clock ==
    ASSUME RestTyped
    PROVE  MaxNow[mode] \in Nat /\ now \in Nat /\ now \in Int
BY AuthAssumption DEF RestTyped

LEMMA NoHitsType == NoHits \in Hits
BY AuthAssumption DEF NoHits, Hits

\* The limiter never counts beyond its limit.
LEMMA HitType ==
    ASSUME RestTyped, NEW i \in Identifier, Admitted(LimiterKey(i)), Hit(LimiterKey(i))
    PROVE  hits' \in [Key -> Hits]
<1> DEFINE k == LimiterKey(i)
           new == [count |-> 1, resetAt |-> now + LoginWindow]
           more == OneMore(hits[k])
<1>1. k \in Key
  BY DEF LimiterKey, Identifier, Key
<1>2. hits[k] \in Hits /\ hits \in [Key -> Hits]
  BY <1>1 DEF RestTyped
<1>3. new \in Hits
  <2>1. 1 \in 0..LoginLimit /\ now + LoginWindow \in Int
    BY Clock, AuthAssumption
  <2>2. QED
    BY <2>1 DEF Hits
<1>4. WindowEnded(k) \/ more \in Hits
  <2>1. CASE hits[k].count < LoginLimit
    <3>1. hits[k].count + 1 \in 0..LoginLimit /\ hits[k].resetAt \in Int
      BY <1>2, <2>1, AuthAssumption DEF Hits
    <3>2. QED
      BY <1>2, <3>1 DEF Hits, OneMore
  <2>2. QED
    BY <2>1 DEF Admitted
<1>5. /\ WindowEnded(k) => hits' = [hits EXCEPT ![k] = new]
      /\ ~WindowEnded(k) => hits' = [hits EXCEPT ![k] = more]
  BY DEF Hit, WindowEnded
<1> HIDE DEF k, new, more
<1>6. QED
  BY <1>2, <1>3, <1>4, <1>5

LEMMA GiveBackType ==
    ASSUME RestTyped, NEW k, GiveBack(k)
    PROVE  hits' \in [Key -> Hits]
<1>1. hits \in [Key -> Hits] /\ LoginLimit \in Nat
  BY AuthAssumption DEF RestTyped
<1>2. ASSUME k \in Key
      PROVE  hits' \in [Key -> Hits]
  <2> DEFINE less == [hits[k] EXCEPT !.count = IF @ > 0 THEN @ - 1 ELSE 0]
  <2>1. hits[k] \in Hits
    BY <1>1, <1>2
  <2>2. less \in Hits
    BY <1>1, <2>1 DEF Hits
  <2>3. hits' = [hits EXCEPT ![k] = less]
    BY DEF GiveBack
  <2> HIDE DEF less
  <2>4. QED
    BY <1>1, <2>2, <2>3
<1>3. CASE k \notin Key
  BY <1>1, <1>3 DEF GiveBack
<1>4. QED
  BY <1>2, <1>3

LEMMA CreateSessionType ==
    ASSUME RestTyped, NEW u \in Users, NEW remember, CreateSession(u, remember)
    PROVE  /\ issued' \in Seq(Users) /\ DOMAIN sessions' \subseteq DOMAIN issued'
           /\ \A t \in DOMAIN sessions' : sessions'[t] \in Session
<1> DEFINE token == NewToken
           ends == now + (IF remember THEN RememberDuration ELSE ShortSession)
           x == [user |-> u, expiresAt |-> ends, lastAccessAt |-> now, createdAt |-> now]
<1>1. issued \in Seq(Users) /\ DOMAIN sessions \subseteq DOMAIN issued
      /\ \A t \in DOMAIN sessions : sessions[t] \in Session
  BY DEF RestTyped
<1>2. KeptFor(u) \subseteq DOMAIN sessions
  BY DEF KeptFor, Unexpired
<1>3. issued' = Append(issued, u) /\ token = Len(issued) + 1
  BY DEF CreateSession, NewToken
<1>4. issued' \in Seq(Users) /\ DOMAIN issued' = DOMAIN issued \union {token}
  BY <1>1, <1>3
<1>5. x \in Session
  BY Clock, AuthAssumption DEF Session
<1>6. sessions' = [t \in KeptFor(u) \union {token} |-> IF t = token THEN x ELSE sessions[t]]
  BY DEF CreateSession
<1> HIDE DEF x, token
<1>7. QED
  BY <1>1, <1>2, <1>4, <1>5, <1>6

\* Sessions that are dropped are gone; those that stay, stay typed.
LEMMA RestrictingSessions ==
    ASSUME RestTyped, NEW kept, kept \subseteq DOMAIN sessions, sessions' = Restrict(sessions, kept),
           UNCHANGED <<mode, now, hits, active, issued>>
    PROVE  RestTyped'
BY DEF RestTyped, Restrict

LEMMA RestStep ==
    ASSUME AuthInv, [Next]_vars
    PROVE  RestTyped'
<1>1. RestTyped /\ EntriesGood(failedAttempts, attempts, entries, wrong)
  BY DEF AuthInv
<1>2. ASSUME NEW b \in Attempts, attempts[b].pc # "idle"
      PROVE  attempts[b].id \in Identifier /\ attempts[b].remember \in BOOLEAN
  <2>1. attempts[b] \in Attempt
    BY <1>1, <1>2 DEF EntriesGood, Idle
  <2>2. QED
    BY <2>1 DEF Attempt
<1>3. ASSUME UNCHANGED <<mode, now, sessions, active, issued>>, hits' \in [Key -> Hits]
      PROVE  RestTyped'
  BY <1>1, <1>3 DEF RestTyped
<1>4. ASSUME UNCHANGED hits PROVE hits' \in [Key -> Hits]
  BY <1>1, <1>4 DEF RestTyped
<1>5. ASSUME NEW b \in Attempts, NEW i \in Identifier, NEW right \in BOOLEAN,
             NEW remember \in BOOLEAN, BeginAttempt(b, i, right, remember)
      PROVE  RestTyped'
  <2>1. /\ Admitted(LimiterKey(i)) /\ Hit(LimiterKey(i))
        /\ UNCHANGED <<mode, now, sessions, active, issued>>
    BY <1>5 DEF BeginAttempt
  <2>2. QED
    BY <1>1, <1>3, <2>1, HitType
<1>6. ASSUME NEW i \in Identifier, RefuseLockedName(i)
      PROVE  RestTyped'
  <2>1. /\ Admitted(LimiterKey(i)) /\ Hit(LimiterKey(i))
        /\ UNCHANGED <<mode, now, sessions, active, issued>>
    BY <1>6 DEF RefuseLockedName
  <2>2. QED
    BY <1>1, <1>3, <2>1, HitType
<1>7. ASSUME NEW b \in Attempts, RejectAttempt(b) \/ AcceptAttempt(b)
      PROVE  RestTyped'
  BY <1>3, <1>4, <1>7 DEF RejectAttempt, AcceptAttempt
<1>8. ASSUME NEW b \in Attempts, FailInDirectory(b)
      PROVE  RestTyped'
  <2>1. /\ GiveBack(LimiterKey(attempts[b].id))
        /\ UNCHANGED <<mode, now, sessions, active, issued>>
    BY <1>8 DEF FailInDirectory
  <2>2. QED
    BY <1>1, <1>3, <2>1, GiveBackType
<1>9. ASSUME NEW b \in Attempts, DenyUnregistered(b)
      PROVE  RestTyped'
  <2>1. /\ GiveBack(LimiterKey(attempts[b].id)) \/ UNCHANGED hits
        /\ UNCHANGED <<mode, now, sessions, active, issued>>
    BY <1>9 DEF DenyUnregistered
  <2>2. QED
    BY <1>1, <1>3, <1>4, <2>1, GiveBackType
<1>10. ASSUME NEW b \in Attempts, GrantSession(b)
       PROVE  RestTyped'
  <2>1. /\ CreateSession(attempts[b].id.user, attempts[b].remember)
        /\ GiveBack(LimiterKey(attempts[b].id)) /\ UNCHANGED <<mode, now, active>>
        /\ attempts[b].pc = "finding"
    BY <1>10 DEF GrantSession
  <2>2. attempts[b].id.user \in Users
    BY <1>2, <2>1 DEF Identifier
  <2>3. hits' \in [Key -> Hits]
    BY <1>1, <2>1, GiveBackType
  <2>4. /\ issued' \in Seq(Users) /\ DOMAIN sessions' \subseteq DOMAIN issued'
        /\ \A t \in DOMAIN sessions' : sessions'[t] \in Session
    BY <1>1, <2>1, <2>2, CreateSessionType
  <2>5. QED
    BY <1>1, <2>1, <2>3, <2>4 DEF RestTyped
<1>11. ASSUME NEW u \in Users, EnterFromProxy(u)
       PROVE  RestTyped'
  <2>1. CreateSession(u, FALSE) /\ UNCHANGED <<mode, now, active, hits>>
    BY <1>11 DEF EnterFromProxy, signIn
  <2>2. /\ issued' \in Seq(Users) /\ DOMAIN sessions' \subseteq DOMAIN issued'
        /\ \A t \in DOMAIN sessions' : sessions'[t] \in Session
    BY <1>1, <2>1, CreateSessionType
  <2>3. QED
    BY <1>1, <2>1, <2>2 DEF RestTyped
<1>12. ASSUME NEW u \in Users, ImportUsers(u)
       PROVE  RestTyped'
  BY <1>1, <1>12 DEF ImportUsers, RestTyped, signIn
<1>13. ASSUME NEW t \in DOMAIN sessions, UseSession(t)
       PROVE  RestTyped'
  <2> DEFINE x == [sessions[t] EXCEPT !.lastAccessAt = now]
  <2>1. UNCHANGED <<mode, now, hits, active, issued>>
    BY <1>13 DEF UseSession, signIn
  <2>2. CASE sessions' = Restrict(sessions, DOMAIN sessions \ {t})
    BY <1>1, <2>1, <2>2, RestrictingSessions
  <2>3. CASE sessions' = [sessions EXCEPT ![t].lastAccessAt = now]
    <3>1. x \in Session
      <4>1. sessions[t] \in Session
        BY <1>1 DEF RestTyped
      <4>2. QED
        BY <1>1, <4>1, Clock DEF Session
    <3>2. sessions' = [sessions EXCEPT ![t] = x]
      BY <2>3
    <3> HIDE DEF x
    <3>3. QED
      BY <1>1, <2>1, <3>1, <3>2 DEF RestTyped
  <2>4. QED
    BY <1>13, <2>2, <2>3 DEF UseSession
<1>14. ASSUME NEW t \in DOMAIN sessions, SignOut(t)
       PROVE  RestTyped'
  BY <1>1, <1>14, RestrictingSessions DEF SignOut, signIn
<1>15. ASSUME NEW t \in DOMAIN issued, SignOutElsewhere(t)
       PROVE  RestTyped'
  BY <1>1, <1>15, RestrictingSessions DEF SignOutElsewhere, signIn
<1>16. CASE Restart
  <2>1. /\ sessions' = <<>> /\ hits' = [k \in Key |-> NoHits]
        /\ UNCHANGED <<mode, now, active, issued>>
    BY <1>16 DEF Restart
  <2>2. DOMAIN sessions' = {} /\ hits' \in [Key -> Hits]
    BY <2>1, NoHitsType
  <2>3. QED
    BY <1>1, <2>1, <2>2 DEF RestTyped
<1>17. CASE Tick
  <2>1. /\ now' = now + 1 /\ now < MaxNow[mode]
        /\ hits' = [k \in Key |-> IF hits[k].resetAt <= now' THEN NoHits ELSE hits[k]]
        /\ UNCHANGED <<mode, sessions, active, issued>>
    BY <1>17 DEF Tick
  <2>2. hits' \in [Key -> Hits]
    BY <1>1, <2>1, NoHitsType DEF RestTyped
  <2>3. now' \in 0..MaxNow[mode]
    BY <1>1, <2>1, Clock
  <2>4. QED
    BY <1>1, <2>1, <2>2, <2>3 DEF RestTyped
<1>18. CASE UNCHANGED vars
  BY <1>3, <1>4, <1>18 DEF vars, signIn
<1>19. QED
  BY <1>5, <1>6, <1>7, <1>8, <1>9, <1>10, <1>11, <1>12, <1>13, <1>14, <1>15, <1>16,
     <1>17, <1>18 DEF Next

\* The invariant of the sign-in service: what it keeps is typed, no key and no
\* entry is in the map twice, and each entry has counted its key's failures.
THEOREM SpecAuthInv == Spec => []AuthInv
<1>1. Init => AuthInv
  <2> SUFFICES ASSUME Init PROVE AuthInv
    OBVIOUS
  <2>1. EntriesGood(failedAttempts, attempts, entries, wrong)
    BY NothingCounted DEF Init
  <2>2. /\ mode \in Mode /\ now = 0 /\ issued = <<>> /\ sessions = <<>> /\ active = Users
        /\ hits = [k \in Key |-> NoHits]
    BY DEF Init
  <2>3. MaxNow[mode] \in Nat
    BY <2>2, AuthAssumption
  <2>4. RestTyped
    BY <2>2, <2>3, NoHitsType DEF RestTyped
  <2>5. QED
    BY <2>1, <2>4 DEF AuthInv
<1>2. AuthInv /\ [Next]_vars => AuthInv'
  <2> SUFFICES ASSUME AuthInv, [Next]_vars PROVE AuthInv'
    OBVIOUS
  <2>1. EntriesGood(failedAttempts', attempts', entries', wrong')
    BY EntriesStep, Clock DEF AuthInv
  <2>2. QED
    BY <2>1, RestStep DEF AuthInv
<1>3. QED
  BY <1>1, <1>2, PTL DEF Spec

\* The service keeps to its types: the map of failures never grows beyond
\* MAX_FAILURE_ENTRIES, the limiter never counts beyond its limit, and every
\* entry that an attempt or the map refers to exists.
THEOREM TypeCorrect == Spec => []TypeOK
<1>1. AuthInv => TypeOK
  <2> SUFFICES ASSUME AuthInv PROVE TypeOK
    OBVIOUS
  <2>1. /\ failedAttempts \in Seq([key : Key, ref : Ref])
        /\ Len(failedAttempts) <= MaxFailureEntries
        /\ attempts \in [Attempts -> Attempt \union {Idle}] /\ wrong \in [Key -> Nat]
        /\ DOMAIN entries = InUse /\ \A r \in InUse : entries[r] \in FailureEntry
    BY EntriesInUse DEF AuthInv, EntriesGood, MapEntry
  <2>2. InUse \subseteq Ref
    BY <2>1, EntriesInUse, UsedType DEF MapEntry
  <2>3. RestTyped
    BY DEF AuthInv
  <2>4. QED
    BY <2>1, <2>2, <2>3 DEF TypeOK, RestTyped, Hits
<1>2. QED
  BY <1>1, SpecAuthInv, PTL

\* However the comparisons of several attempts overlap, whatever is evicted
\* from the map and whenever a lock runs out, a name is locked exactly when
\* MAX_ATTEMPTS wrong passwords have been counted for it.
THEOREM LocksCountFailures == Spec => []LockedAfterMaxAttempts
<1>1. AuthInv => LockedAfterMaxAttempts
  <2> SUFFICES ASSUME AuthInv, NEW k \in Key
               PROVE  Locked(RefOf(failedAttempts, k)) <=> wrong[k] >= MaxAttempts
    BY DEF LockedAfterMaxAttempts
  <2>1. /\ failedAttempts \in Seq(MapEntry)
        /\ \A i \in DOMAIN failedAttempts :
              Tells(entries[failedAttempts[i].ref], wrong[failedAttempts[i].key])
        /\ Places(failedAttempts, k) = {} => wrong[k] = 0
    BY DEF AuthInv, EntriesGood
  <2>2. CASE RefOf(failedAttempts, k) = Nil
    <3>1. wrong[k] = 0
      BY <2>1, <2>2, NoPlaceNoRef
    <3>2. QED
      BY <2>2, <3>1, AuthAssumption DEF Locked
  <2>3. CASE RefOf(failedAttempts, k) # Nil
    <3>1. PICK i \in DOMAIN failedAttempts :
             failedAttempts[i].key = k /\ failedAttempts[i].ref = RefOf(failedAttempts, k)
      BY <2>1, <2>3, RefFrom
    <3>2. Tells(entries[RefOf(failedAttempts, k)], wrong[k])
      BY <2>1, <3>1
    <3>3. QED
      BY <2>3, <3>2 DEF Tells, Locked
  <2>4. QED
    BY <2>2, <2>3
<1>2. QED
  BY <1>1, SpecAuthInv, PTL
(***************************************************************************)
(* A sign-in ends the oldest sessions only                                 *)
(***************************************************************************)

Good(u) == {t \in Unexpired : sessions[t].user = u}

Newer(u, t) == {s \in Good(u) : Older(t, s)}

\* The age of sessions is a strict total order: tokens tell those apart that
\* were created at the same moment.
LEMMA OlderOrders ==
    ASSUME RestTyped, NEW r \in DOMAIN sessions, NEW s \in DOMAIN sessions, NEW t \in DOMAIN sessions
    PROVE  /\ ~Older(t, t)
           /\ Older(r, s) /\ Older(s, t) => Older(r, t)
           /\ s # t => Older(s, t) \/ Older(t, s)
<1>1. r \in Nat /\ s \in Nat /\ t \in Nat
  BY DEF RestTyped
<1>2. sessions[r].createdAt \in Int /\ sessions[s].createdAt \in Int /\ sessions[t].createdAt \in Int
  BY DEF RestTyped, Session
<1>3. QED
  BY <1>1, <1>2 DEF Older

LEMMA NewerFinite ==
    ASSUME RestTyped, NEW u, NEW t
    PROVE  /\ IsFiniteSet(DOMAIN sessions)
           /\ IsFiniteSet(Good(u)) /\ Cardinality(Good(u)) \in Nat
           /\ IsFiniteSet(Newer(u, t)) /\ Cardinality(Newer(u, t)) \in Nat
<1>1. DOMAIN issued = 1..Len(issued) /\ Len(issued) \in Nat
  BY DEF RestTyped
<1>2. IsFiniteSet(DOMAIN sessions)
  <2>1. IsFiniteSet(DOMAIN issued)
    BY <1>1, FS_Interval
  <2>2. DOMAIN sessions \in SUBSET DOMAIN issued
    BY DEF RestTyped
  <2>3. QED
    BY <2>1, <2>2, FS_Subset
<1>3. Good(u) \subseteq DOMAIN sessions /\ Newer(u, t) \subseteq DOMAIN sessions
  BY DEF Good, Newer, Unexpired
<1>4. IsFiniteSet(Good(u)) /\ IsFiniteSet(Newer(u, t))
  BY <1>2, <1>3, FS_Subset
<1>5. QED
  BY <1>2, <1>4, FS_CardinalityType

\* The older of two sessions has more newer ones.
LEMMA OlderRanksHigher ==
    ASSUME RestTyped, NEW u, NEW s \in Good(u), NEW t \in Good(u), Older(s, t)
    PROVE  Cardinality(Newer(u, t)) < Cardinality(Newer(u, s))
<1>1. Good(u) \subseteq DOMAIN sessions
  BY DEF Good, Unexpired
<1>2. Newer(u, t) \subseteq Newer(u, s)
  BY <1>1, OlderOrders DEF Newer
<1>3. t \in Newer(u, s) /\ t \notin Newer(u, t)
  BY <1>1, OlderOrders DEF Newer
<1>4. /\ Cardinality(Newer(u, t)) <= Cardinality(Newer(u, s))
      /\ Cardinality(Newer(u, t)) # Cardinality(Newer(u, s))
  BY <1>2, <1>3, NewerFinite, FS_Subset
<1>5. QED
  BY <1>4, NewerFinite

\* What createSession does to the table.
LEMMA CreatingKeepsTheNewest ==
    ASSUME RestTyped, NEW u \in Users, NEW remember, CreateSession(u, remember)
    PROVE  LET ended == Good(u) \ DOMAIN sessions'
           IN  /\ issued'[Len(issued')] = u
               /\ Cardinality({t \in DOMAIN sessions' : sessions'[t].user = u}) <= MaxSessionsPerUser
               /\ ended # {} => Cardinality(Good(u)) >= MaxSessionsPerUser
               /\ \A t \in ended, s \in Good(u) \ ended : Older(t, s)
               /\ {t \in Unexpired : sessions[t].user # u} \subseteq DOMAIN sessions'
<1> DEFINE token == NewToken
           ends == now + (IF remember THEN RememberDuration ELSE ShortSession)
           x == [user |-> u, expiresAt |-> ends, lastAccessAt |-> now, createdAt |-> now]
           kept == {t \in Good(u) : Cardinality(Newer(u, t)) < MaxSessionsPerUser - 1}
           ended == Good(u) \ DOMAIN sessions'
<1>1. /\ issued \in Seq(Users) /\ issued' = Append(issued, u) /\ token = Len(issued) + 1
      /\ sessions' = [t \in KeptFor(u) \union {token} |-> IF t = token THEN x ELSE sessions[t]]
  BY DEF CreateSession, NewToken, RestTyped
<1>2. issued'[Len(issued')] = u /\ token \notin DOMAIN sessions /\ x.user = u
  BY <1>1 DEF RestTyped
<1>3. Unexpired \subseteq DOMAIN sessions /\ Good(u) \subseteq DOMAIN sessions
  BY DEF Good, Unexpired
<1>4. \A t \in Unexpired : {s \in Unexpired : sessions[s].user = u /\ Older(t, s)} = Newer(u, t)
  BY DEF Newer, Good
<1>5. KeptFor(u) = kept \union {t \in Unexpired : sessions[t].user # u}
  BY <1>4 DEF KeptFor, Good
<1>6. DOMAIN sessions' = KeptFor(u) \union {token}
  BY <1>1
<1> HIDE DEF x, token
<1>7. {t \in DOMAIN sessions' : sessions'[t].user = u} = kept \union {token}
  BY <1>1, <1>2, <1>3, <1>5, <1>6 DEF Good
<1>8. ended = Good(u) \ kept
  BY <1>2, <1>3, <1>5, <1>6 DEF Good
<1>9. MaxSessionsPerUser \in Nat \ {0}
  BY AuthAssumption
<1>10. IsFiniteSet(kept) /\ Cardinality(kept) <= MaxSessionsPerUser - 1
  <2> DEFINE Rank == 0..(MaxSessionsPerUser - 2)
             f == [t \in kept |-> Cardinality(Newer(u, t))]
  <2>1. \A t \in kept : f[t] \in Rank
    BY <1>9, NewerFinite
  <2>2. \A s, t \in kept : f[s] = f[t] => s = t
    <3> SUFFICES ASSUME NEW s \in kept, NEW t \in kept, s # t PROVE f[s] # f[t]
      OBVIOUS
    <3>1. s \in Good(u) /\ t \in Good(u) /\ (Older(s, t) \/ Older(t, s))
      BY <1>3, OlderOrders
    <3>2. /\ Cardinality(Newer(u, s)) \in Nat /\ Cardinality(Newer(u, t)) \in Nat
          /\ Cardinality(Newer(u, s)) # Cardinality(Newer(u, t))
      BY <3>1, NewerFinite, OlderRanksHigher
    <3>3. QED
      BY <3>2
  <2>3. f \in Injection(kept, Rank)
    BY <2>1, <2>2 DEF Injection, IsInjective
  <2>4. IsFiniteSet(Rank) /\ Cardinality(Rank) = MaxSessionsPerUser - 1
    <3>1. 0 \in Int /\ MaxSessionsPerUser - 2 \in Int
      BY <1>9
    <3>2. /\ IsFiniteSet(Rank)
          /\ Cardinality(Rank) = IF 0 > MaxSessionsPerUser - 2 THEN 0
                                 ELSE MaxSessionsPerUser - 2 - 0 + 1
      BY <3>1, FS_Interval
    <3>3. QED
      BY <1>9, <3>2
  <2> HIDE DEF f, Rank
  <2>5. QED
    BY <2>3, <2>4, FS_Injection
<1>11. Cardinality(kept \union {token}) <= MaxSessionsPerUser
  <2> HIDE DEF kept
  <2>1. Cardinality(kept) \in Nat
    BY <1>10, FS_CardinalityType
  <2>2. Cardinality(kept \union {token}) = IF token \in kept THEN Cardinality(kept)
                                            ELSE Cardinality(kept) + 1
    BY <1>10, FS_AddElement
  <2>3. QED
    BY <1>9, <1>10, <2>1, <2>2
<1>12. ASSUME ended # {}
       PROVE  Cardinality(Good(u)) >= MaxSessionsPerUser
  <2>1. PICK t \in Good(u) : Cardinality(Newer(u, t)) >= MaxSessionsPerUser - 1
    BY <1>8, <1>9, <1>12, NewerFinite
  <2>2. t \notin Newer(u, t) /\ Newer(u, t) \union {t} \subseteq Good(u)
    BY <1>3, OlderOrders DEF Newer
  <2>3. Cardinality(Newer(u, t) \union {t}) = Cardinality(Newer(u, t)) + 1
    BY <2>2, NewerFinite, FS_AddElement
  <2>4. Cardinality(Newer(u, t) \union {t}) <= Cardinality(Good(u))
    BY <2>2, NewerFinite, FS_Subset
  <2>5. QED
    BY <1>9, <2>1, <2>3, <2>4, NewerFinite
<1>13. ASSUME NEW t \in ended, NEW s \in Good(u) \ ended
       PROVE  Older(t, s)
  <2>1. /\ t \in Good(u) /\ Cardinality(Newer(u, t)) >= MaxSessionsPerUser - 1
        /\ s \in Good(u) /\ Cardinality(Newer(u, s)) < MaxSessionsPerUser - 1
    BY <1>8, <1>9, NewerFinite
  <2>2. Cardinality(Newer(u, t)) \in Nat /\ Cardinality(Newer(u, s)) \in Nat
    BY NewerFinite
  <2>3. s # t
    BY <1>9, <2>1, <2>2
  <2>4. ~Older(s, t)
    <3>1. Older(s, t) => Cardinality(Newer(u, t)) < Cardinality(Newer(u, s))
      BY <2>1, OlderRanksHigher
    <3>2. QED
      BY <1>9, <2>1, <2>2, <3>1
  <2>5. QED
    BY <1>3, <2>1, <2>3, <2>4, OlderOrders
<1>14. {t \in Unexpired : sessions[t].user # u} \subseteq DOMAIN sessions'
  BY <1>5, <1>6
<1>15. QED
  BY <1>2, <1>7, <1>11, <1>12, <1>13, <1>14

\* Only createSession issues a token.
LEMMA OnlyCreationIssues ==
    ASSUME AuthInv, [Next]_vars, Len(issued') > Len(issued)
    PROVE  \E u \in Users, remember \in BOOLEAN : CreateSession(u, remember)
<1>1. Len(issued) \in Nat /\ active \subseteq Users
  BY DEF AuthInv, RestTyped
<1>2. issued' # issued
  BY <1>1
<1>3. ASSUME NEW b \in Attempts, GrantSession(b)
      PROVE  \E u \in Users, remember \in BOOLEAN : CreateSession(u, remember)
  <2>1. attempts[b].pc = "finding" /\ attempts[b].id.user \in active
        /\ CreateSession(attempts[b].id.user, attempts[b].remember)
    BY <1>3 DEF GrantSession
  <2>2. attempts[b] \in Attempt
    BY <2>1 DEF AuthInv, EntriesGood, Idle
  <2>3. attempts[b].remember \in BOOLEAN
    BY <2>2 DEF Attempt
  <2>4. QED
    BY <1>1, <2>1, <2>3
<1>4. ASSUME NEW u \in Users, EnterFromProxy(u)
      PROVE  \E v \in Users, remember \in BOOLEAN : CreateSession(v, remember)
  BY <1>4 DEF EnterFromProxy
<1>5. /\ \A a \in Attempts, i \in Identifier, right \in BOOLEAN :
            \A remember \in BOOLEAN : ~BeginAttempt(a, i, right, remember)
      /\ \A i \in Identifier : ~RefuseLockedName(i)
      /\ \A a \in Attempts : ~RejectAttempt(a) /\ ~AcceptAttempt(a) /\ ~FailInDirectory(a)
                             /\ ~DenyUnregistered(a)
      /\ \A u \in Users : ~ImportUsers(u)
      /\ \A t \in DOMAIN sessions : ~UseSession(t) /\ ~SignOut(t)
      /\ \A t \in DOMAIN issued : ~SignOutElsewhere(t)
      /\ ~Restart /\ ~Tick /\ ~UNCHANGED vars
  BY <1>2 DEF BeginAttempt, RefuseLockedName, RejectAttempt, AcceptAttempt, FailInDirectory,
              DenyUnregistered, ImportUsers, UseSession, SignOut, SignOutElsewhere, Restart,
              Tick, vars
<1>6. QED
  BY <1>3, <1>4, <1>5 DEF Next

\* A sign-in leaves its user with at most MAX_SESSIONS_PER_USER sessions, ends
\* a good one only when the user has that many, the oldest first, and nobody
\* else's: for any cap, any number of sessions and any order of their tokens.
THEOREM OldestSessionsEnd == Spec => NewestSessionsSurvive
<1> DEFINE A == Len(issued') > Len(issued) =>
          LET u     == issued'[Len(issued')]
              good  == {t \in Unexpired : sessions[t].user = u}
              ended == good \ DOMAIN sessions'
          IN  /\ Cardinality({t \in DOMAIN sessions' : sessions'[t].user = u})
                     <= MaxSessionsPerUser
              /\ ended # {} => Cardinality(good) >= MaxSessionsPerUser
              /\ \A t \in ended, s \in good \ ended : Older(t, s)
              /\ {t \in Unexpired : sessions[t].user # u} \subseteq DOMAIN sessions'
<1>1. AuthInv /\ [Next]_vars => A
  <2> SUFFICES ASSUME AuthInv, [Next]_vars, Len(issued') > Len(issued) PROVE A
    OBVIOUS
  <2>1. PICK u \in Users, remember \in BOOLEAN : CreateSession(u, remember)
    BY OnlyCreationIssues
  <2>2. RestTyped
    BY DEF AuthInv
  <2>3. QED
    BY <2>1, <2>2, CreatingKeepsTheNewest DEF Good
<1>2. QED
  BY <1>1, SpecAuthInv, PTL DEF Spec, NewestSessionsSurvive
=============================================================================
