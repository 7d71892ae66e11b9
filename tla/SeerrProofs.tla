---------------------------- MODULE SeerrProofs ----------------------------
(***************************************************************************)
(* Whoever asks and however their requests interleave, fail and are        *)
(* cancelled: nobody gets a second Seerr user, nobody ever acts with       *)
(* another person's session, and a cached session has the permissions it   *)
(* is cached with.  For any number of people and requests.                 *)
(***************************************************************************)
EXTENDS SeerrSso, FiniteSetTheorems, SequenceTheorems,
        WellFoundedInduction, TLAPS

\* The parts of make_session, all under the lock.
Section == {"list", "import", "create", "perms", "login", "me", "logout"}
HasSid == {"me", "logout", "forward"}

Real == 2..Len(users)

\* The lock: at most one request is in make_session.
Locked == \A r \in Request : req[r].pc \in Section => establish = r

\* What is true of a request x at each point: whose it is and which user it found
\* or is right not to have found, whose session it holds, and that neither a new
\* session nor one being signed out is in the cache.
Own(p, u) == u \in Real /\ Mine(p, u)
Uncached(s) == \A p \in Person : sessions[p] # None => sessions[p].sid # s
Fits(x) ==
    /\ x.pc # "done" => x.who \in Person
    /\ x.pc \in {"perms", "login"} => Own(x.who, x.uid)
    /\ x.pc \in {"import", "create"} => \A u \in Real : ~Mine(x.who, u)
    /\ x.pc \in HasSid <=> x.sid # 0
    /\ x.pc # "logout" => x.old = 0
    /\ x.pc \in HasSid => sids[x.sid] = 0 \/ Own(x.who, sids[x.sid])
    /\ x.pc \in {"me", "logout"} => Uncached(x.sid)
    /\ x.pc = "logout" => x.sid # x.old /\ Uncached(x.old)
AllFit == \A r \in Request : Fits(req[r])

Single == \A p \in Person : \A u, v \in Real : Mine(p, u) /\ Mine(p, v) => u = v

\* A session is the cached one of one person at most.
Apart ==
    \A p, q \in Person :
        sessions[p] # None /\ sessions[q] # None /\ p # q => sessions[p].sid # sessions[q].sid
Cached ==
    \A p \in Person :
        sessions[p] # None =>
            \/ sessions[p].wiped /\ sids[sessions[p].sid] = 0
            \/ Own(p, sids[sessions[p].sid])

IInv == TypeOK /\ Locked /\ AllFit /\ Single /\ Apart /\ Cached

-----------------------------------------------------------------------------
\* The least element of a set of numbers.
LEMMA LeastExists ==
    ASSUME NEW S \in SUBSET Nat, S # {}
    PROVE  \E u \in S : \A v \in S : u <= v
<1>1. PICK u \in S : \A v \in S : ~(<<v, u>> \in OpToRel(<, Nat))
  <2>1. IsWellFoundedOn(OpToRel(<, Nat), Nat)
    BY NatLessThanWellFounded
  <2> QED
    BY <2>1, WFMin
<1>2. \A v \in S : ~(v < u)
  BY <1>1 DEF OpToRel
<1> QED
  BY <1>2

\* find_user returns a user of the person's own, or says rightly that there is none.
LEMMA FindUser ==
    ASSUME NEW p
    PROVE  \/ find_user(p) \in Real /\ Mine(p, find_user(p)) /\ find_user(p) # 0
           \/ find_user(p) = 0 /\ \A u \in Real : ~Mine(p, u)
<1> DEFINE byEmail == {u \in 2..Len(users) : users[u].email = p}
           byName == {u \in 2..Len(users) : users[u].jellyfinUsername = p}
<1>1. find_user(p) = IF byEmail # {} THEN First(byEmail) ELSE IF byName # {} THEN First(byName) ELSE 0
  BY DEF find_user
<1>2. \A S \in SUBSET Nat : S # {} => First(S) \in S
  BY LeastExists DEF First
<1>3. byEmail \in SUBSET Nat /\ byName \in SUBSET Nat
  OBVIOUS
<1>4. \A u \in Real : u # 0
  BY DEF Real
<1>5. CASE byEmail # {}
  <2>1. find_user(p) = First(byEmail)
    BY <1>1, <1>5
  <2>2. First(byEmail) \in byEmail
    BY <1>2, <1>3, <1>5
  <2> QED
    BY <2>1, <2>2, <1>4 DEF Real, Mine
<1>6. CASE byEmail = {} /\ byName # {}
  <2>1. find_user(p) = First(byName)
    BY <1>1, <1>6
  <2>2. First(byName) \in byName
    BY <1>2, <1>3, <1>6
  <2> QED
    BY <2>1, <2>2, <1>4 DEF Real, Mine
<1>7. CASE byEmail = {} /\ byName = {}
  <2>1. find_user(p) = 0
    BY <1>1, <1>7
  <2> QED
    BY <2>1, <1>7 DEF Real, Mine
<1> QED
  BY <1>5, <1>6, <1>7

\* As many values as arguments at most.
LEMMA ImageBound ==
    ASSUME NEW S, IsFiniteSet(S), NEW f
    PROVE  /\ IsFiniteSet({f[x] : x \in S})
           /\ Cardinality({f[x] : x \in S}) <= Cardinality(S)
<1> DEFINE T == {f[x] : x \in S}
           g == [x \in S |-> f[x]]
<1>1. g \in Surjection(S, T)
  BY DEF Surjection
<1> QED
  BY <1>1, FS_Surjection

\* A login finds a session id nobody holds: the cache and the other requests hold
\* fewer than there are.
LEMMA NewSidIsNew ==
    ASSUME NEW r \in Request, req[r].sid = 0, req[r].old = 0
    PROVE  NewSid \in Sid /\ NewSid \notin Held(Request)
<1> DEFINE Others == Request \ {r}
           Owners == {q \in Person : sessions[q] # None}
           fA == [x \in Others |-> req[x].sid]
           fB == [x \in Others |-> req[x].old]
           fC == [x \in Owners |-> sessions[x].sid]
           A == {fA[x] : x \in Others}
           B == {fB[x] : x \in Others}
           C == {fC[x] : x \in Owners}
           n == Cardinality(Request)
           m == Cardinality(Person)
<1>1. IsFiniteSet(Request) /\ IsFiniteSet(Person) /\ n \in Nat /\ m \in Nat
  BY PeopleAssumption, FS_CardinalityType
<1>2. IsFiniteSet(Others) /\ Cardinality(Others) = n - 1
  BY <1>1, FS_RemoveElement
<1>3. IsFiniteSet(Owners) /\ Cardinality(Owners) <= m
  BY <1>1, FS_Subset
<1>4. /\ IsFiniteSet(A) /\ Cardinality(A) <= n - 1
      /\ IsFiniteSet(B) /\ Cardinality(B) <= n - 1
      /\ IsFiniteSet(C) /\ Cardinality(C) <= m
  <2>1. IsFiniteSet(A) /\ Cardinality(A) <= Cardinality(Others)
    BY <1>2, ImageBound
  <2>2. IsFiniteSet(B) /\ Cardinality(B) <= Cardinality(Others)
    BY <1>2, ImageBound
  <2>3. IsFiniteSet(C) /\ Cardinality(C) <= Cardinality(Owners)
    BY <1>3, ImageBound
  <2>4. Cardinality(C) \in Nat /\ Cardinality(Owners) \in Nat
    BY <2>3, <1>3, FS_CardinalityType
  <2> HIDE DEF A, B, C, n, m, Owners, Others
  <2> QED
    BY <2>1, <2>2, <2>3, <2>4, <1>1, <1>2, <1>3
<1>5. Held(Request) \cap Sid \subseteq A \cup B \cup C
  BY DEF Held, Sid
<1>6. IsFiniteSet(A \cup B \cup C) /\ Cardinality(A \cup B \cup C) <= 2 * n + m - 2
  <2> HIDE DEF A, B, C, n, m
  <2>1. IsFiniteSet(A \cup B) /\ Cardinality(A \cup B) = Cardinality(A) + Cardinality(B) - Cardinality(A \cap B)
    BY <1>4, FS_Union
  <2>2. IsFiniteSet(A \cup B \cup C)
        /\ Cardinality(A \cup B \cup C) = Cardinality(A \cup B) + Cardinality(C) - Cardinality((A \cup B) \cap C)
    BY <1>4, <2>1, FS_Union
  <2>3. Cardinality(A \cap B) \in Nat /\ Cardinality((A \cup B) \cap C) \in Nat
    BY <1>4, <2>1, FS_Intersection, FS_CardinalityType
  <2>4. Cardinality(A) \in Nat /\ Cardinality(B) \in Nat /\ Cardinality(C) \in Nat
        /\ Cardinality(A \cup B) \in Nat
    BY <1>4, <2>1, FS_CardinalityType
  <2> QED
    BY <1>1, <1>4, <2>1, <2>2, <2>3, <2>4
<1>7. IsFiniteSet(Sid) /\ Cardinality(Sid) = 2 * n + m
  <2>1. n >= 1
    <3>1. Request # {}
      OBVIOUS
    <3> QED
      BY <3>1, <1>1, FS_EmptySet
  <2> DEFINE k == 2 * n + m
  <2>2. k \in Nat /\ k >= 1
    BY <1>1, <2>1
  <2>3. Sid = 1..k
    BY DEF Sid
  <2> HIDE DEF k
  <2>4. IsFiniteSet(1..k) /\ Cardinality(1..k) = k
    BY <2>2, FS_Interval
  <2> QED
    BY <2>3, <2>4 DEF k
<1>8. \E s \in Sid : s \notin Held(Request)
  <2> SUFFICES ASSUME \A s \in Sid : s \in Held(Request) PROVE FALSE
    OBVIOUS
  <2>1. Sid \in SUBSET (A \cup B \cup C)
    BY <1>5
  <2>2. Cardinality(Sid) <= Cardinality(A \cup B \cup C)
    BY <2>1, <1>6, FS_Subset
  <2>3. Cardinality(A \cup B \cup C) \in Nat
    BY <1>6, FS_CardinalityType
  <2> HIDE DEF A, B, C, n, m
  <2> QED
    BY <1>1, <1>6, <1>7, <2>2, <2>3
<1> QED
  BY <1>8 DEF NewSid

-----------------------------------------------------------------------------
\* What every session id is.
LEMMA SidIsPositive == Sid \subseteq Nat /\ 0 \notin Sid
BY DEF Sid

\* A request that moves on and changes nothing the others look at.
LEMMA RequestMoves ==
    ASSUME IInv, NEW r \in Request, NEW x \in Serving, Fits(x),
           req' = [req EXCEPT ![r] = x], UNCHANGED <<groups, users, sids, sessions>>,
           ids' \in [Person -> Groups \cup {None}], Locked'
    PROVE  IInv'
<1> USE DEF IInv
<1>1. TypeOK'
  BY DEF TypeOK
<1>2. AllFit'
  <2> SUFFICES ASSUME NEW s \in Request PROVE Fits(req[s])'
    BY DEF AllFit
  <2>1. req'[s] \in {x, req[s]}
    BY DEF TypeOK
  <2>2. Fits(x) /\ Fits(req[s])
    BY DEF AllFit
  <2> QED
    BY <2>1, <2>2 DEF Fits, Own, Uncached, Real, Mine
<1>3. Single'
  BY DEF Single, Real, Mine
<1>4. Apart'
  BY DEF Apart
<1>5. Cached'
  BY DEF Cached, Own, Real, Mine
<1> QED
  BY <1>1, <1>2, <1>3, <1>4, <1>5

\* A request that ends lets go of its session ids and of the lock.
LEMMA FinishKeeps ==
    ASSUME IInv, NEW r \in Request, Finish(r), UNCHANGED <<groups, users, ids, sessions>>,
           \A s \in Request \ {r} : req[s].pc \in Section => establish' = s
    PROVE  IInv'
<1> USE SidIsPositive DEF IInv
<1>1. Done \in Serving
  BY DEF Done, Serving, Pcs, Groups
<1>2. req' \in [Request -> Serving] /\ req'[r] = Done /\ \A s \in Request \ {r} : req'[s] = req[s]
  BY <1>1 DEF Finish, TypeOK
<1>3. sids' \in [Sid -> Nat] /\ \A s \in Sid : sids'[s] \in {0, sids[s]}
  BY DEF Finish, Forget, TypeOK
<1>4. \A p \in Person : sessions[p] # None => sessions[p].sid \in Sid /\ sids'[sessions[p].sid] = sids[sessions[p].sid]
  BY DEF Finish, Forget, Held, TypeOK, Session
<1>5. TypeOK'
  BY <1>2, <1>3 DEF TypeOK
<1>6. Locked'
  BY <1>2 DEF Locked, Section, Done
<1>7. AllFit'
  <2> SUFFICES ASSUME NEW s \in Request PROVE Fits(req[s])'
    BY DEF AllFit
  <2>1. CASE s = r
    BY <1>2, <2>1 DEF Fits, Done, HasSid
  <2>2. CASE s # r
    <3>1. Fits(req[s]) /\ req'[s] = req[s]
      BY <1>2, <2>2 DEF AllFit
    <3>2. req[s].pc \in HasSid => req[s].sid \in Sid
      BY <3>1 DEF Fits, TypeOK, Serving
    <3> QED
      BY <3>1, <3>2, <1>3 DEF Fits, Own, Uncached, Real, Mine
  <2> QED
    BY <2>1, <2>2
<1>8. Single'
  BY DEF Single, Real, Mine
<1>9. Apart'
  BY DEF Apart
<1>10. Cached'
  BY <1>4 DEF Cached, Own, Real, Mine
<1> QED
  BY <1>5, <1>6, <1>7, <1>8, <1>9, <1>10

\* A request arrives: a cached identity, or a call to oauth2-proxy.
LEMMA ArriveKeeps ==
    ASSUME IInv, NEW r \in Request, NEW p \in Person, Arrive(r, p)
    PROVE  IInv'
<1> DEFINE x == [Done EXCEPT !.who = p, !.pc = IF ids[p] = None THEN "auth" ELSE "serve",
                             !.id = IF ids[p] = None THEN "none" ELSE ids[p]]
<1>1. req' = [req EXCEPT ![r] = x] /\ UNCHANGED <<groups, users, sids, sessions, ids, establish>>
  BY DEF Arrive, server
<1>2. x \in Serving
  BY DEF Done, Serving, Pcs, Groups, IInv, TypeOK
<1>3. Fits(x)
  BY DEF Fits, Done, HasSid
<1>4. Locked'
  BY <1>1 DEF IInv, Locked, TypeOK, Section
<1>5. ids' \in [Person -> Groups \cup {None}]
  BY <1>1 DEF IInv, TypeOK
<1> HIDE DEF x
<1> QED
  BY <1>1, <1>2, <1>3, <1>4, <1>5, RequestMoves

\* oauth2-proxy's answer is on its way.
LEMMA AnswerKeeps ==
    ASSUME IInv, NEW r \in Request, Answer(r)
    PROVE  IInv'
<1> DEFINE x == [req[r] EXCEPT !.pc = "identify", !.id = groups[req[r].who]]
<1>0. req[r] \in Serving /\ Fits(req[r]) /\ req[r].pc = "auth" /\ req[r].who \in Person
  BY DEF IInv, TypeOK, AllFit, Fits, Answer
<1>1. req' = [req EXCEPT ![r] = x] /\ UNCHANGED <<groups, users, sids, sessions, ids, establish>>
  BY DEF Answer, server, IInv, TypeOK
<1>2. x \in Serving
  BY <1>0 DEF Serving, Pcs, IInv, TypeOK
<1>3. Fits(x)
  BY <1>0 DEF Fits, HasSid, Serving
<1>4. Locked'
  BY <1>0, <1>1 DEF IInv, Locked, TypeOK, Section, Serving
<1>5. ids' \in [Person -> Groups \cup {None}]
  BY <1>1 DEF IInv, TypeOK
<1> HIDE DEF x
<1> QED
  BY <1>1, <1>2, <1>3, <1>4, <1>5, RequestMoves

\* The answer is cached.
LEMMA IdentifyKeeps ==
    ASSUME IInv, NEW r \in Request, Identify(r)
    PROVE  IInv'
<1> DEFINE x == [req[r] EXCEPT !.pc = "serve"]
<1>0. req[r] \in Serving /\ Fits(req[r]) /\ req[r].pc = "identify" /\ req[r].who \in Person
  BY DEF IInv, TypeOK, AllFit, Fits, Identify
<1>1. req' = [req EXCEPT ![r] = x] /\ UNCHANGED <<groups, users, sids, sessions, establish>>
  BY DEF Identify, Go, server, IInv, TypeOK
<1>2. x \in Serving
  BY <1>0 DEF Serving, Pcs
<1>3. Fits(x)
  BY <1>0 DEF Fits, HasSid, Serving
<1>4. Locked'
  BY <1>0, <1>1 DEF IInv, Locked, TypeOK, Section, Serving
<1>5. ids' \in [Person -> Groups \cup {None}]
  BY <1>0 DEF IInv, TypeOK, Identify, Serving
<1> HIDE DEF x
<1> QED
  BY <1>1, <1>2, <1>3, <1>4, <1>5, RequestMoves

\* No other request is in make_session while this one is.
LEMMA OnlyHolder ==
    ASSUME Locked, NEW r \in Request, req[r].pc \in Section
    PROVE  establish = r /\ \A s \in Request \ {r} : req[s].pc \notin Section
BY DEF Locked

\* serve answers, forwards with the cached session, or goes for the lock.
LEMMA ServeKeeps ==
    ASSUME IInv, NEW r \in Request, Serve(r)
    PROVE  IInv'
<1> DEFINE p == req[r].who
           perms == permissions(req[r].id)
           x == [req[r] EXCEPT !.pc = "forward", !.sid = sessions[p].sid]
           y == [req[r] EXCEPT !.pc = "lock"]
<1>0. /\ req[r] \in Serving /\ Fits(req[r]) /\ req[r].pc = "serve" /\ p \in Person
      /\ UNCHANGED <<groups, users, ids, sessions, establish>>
  BY DEF IInv, TypeOK, AllFit, Fits, Serve
<1>1. ids' \in [Person -> Groups \cup {None}]
  BY <1>0 DEF IInv, TypeOK
<1>2. CASE Finish(r)
  BY <1>0, <1>2, FinishKeeps DEF IInv, Locked
<1>3. CASE /\ Fresh(p, perms, FALSE)
           /\ req' = [req EXCEPT ![r].pc = "forward", ![r].sid = sessions[p].sid]
           /\ UNCHANGED sids
  <2>1. req' = [req EXCEPT ![r] = x]
    BY <1>3 DEF IInv, TypeOK
  <2>2. sessions[p] \in Session
    BY <1>0, <1>3 DEF Fresh, IInv, TypeOK
  <2>3. x \in Serving
    BY <1>0, <2>2 DEF Serving, Session, Pcs
  <2>4. Fits(x)
    <3>1. sids[sessions[p].sid] = 0 \/ Own(p, sids[sessions[p].sid])
      BY <1>0, <1>3 DEF Fresh, IInv, Cached
    <3>2. sessions[p].sid # 0
      BY <2>2, SidIsPositive DEF Session
    <3> QED
      BY <1>0, <3>1, <3>2 DEF Fits, HasSid, Serving
  <2>5. Locked'
    BY <1>0, <2>1 DEF IInv, Locked, TypeOK, Section, Serving
  <2> HIDE DEF x
  <2> QED
    BY <1>0, <1>1, <1>3, <2>1, <2>3, <2>4, <2>5, RequestMoves
<1>4. CASE Go(r, "lock") /\ UNCHANGED sids
  <2>1. req' = [req EXCEPT ![r] = y]
    BY <1>4 DEF Go, IInv, TypeOK
  <2>3. y \in Serving
    BY <1>0 DEF Serving, Pcs
  <2>4. Fits(y)
    BY <1>0 DEF Fits, HasSid, Serving
  <2>5. Locked'
    BY <1>0, <2>1 DEF IInv, Locked, TypeOK, Section, Serving
  <2> HIDE DEF y
  <2> QED
    BY <1>0, <1>1, <1>4, <2>1, <2>3, <2>4, <2>5, RequestMoves
<1> QED
  BY <1>2, <1>3, <1>4 DEF Serve

\* The second look at the cache, under the lock.
LEMMA LockKeeps ==
    ASSUME IInv, NEW r \in Request, Lock(r)
    PROVE  IInv'
<1> DEFINE p == req[r].who
           fresh == Fresh(p, permissions(req[r].id), req[r].forced)
           x == [req[r] EXCEPT !.pc = "forward", !.sid = sessions[p].sid]
           y == [req[r] EXCEPT !.pc = "list"]
<1>0. /\ req[r] \in Serving /\ Fits(req[r]) /\ req[r].pc = "lock" /\ p \in Person
      /\ UNCHANGED <<groups, users, sids, ids, sessions>>
      /\ establish = None
  BY DEF IInv, TypeOK, AllFit, Fits, Lock, Free, server
<1>1. ids' \in [Person -> Groups \cup {None}]
  BY <1>0 DEF IInv, TypeOK
<1>2. \A s \in Request : req[s].pc \notin Section
  BY <1>0, PeopleAssumption DEF IInv, Locked
<1>3. CASE fresh
  <2>1. req' = [req EXCEPT ![r] = x] /\ UNCHANGED establish
    BY <1>3 DEF Lock, IInv, TypeOK
  <2>2. sessions[p] \in Session
    BY <1>0, <1>3 DEF Fresh, IInv, TypeOK
  <2>3. x \in Serving
    BY <1>0, <2>2 DEF Serving, Session, Pcs
  <2>4. Fits(x)
    <3>1. sids[sessions[p].sid] = 0 \/ Own(p, sids[sessions[p].sid])
      BY <1>0, <1>3 DEF Fresh, IInv, Cached
    <3>2. sessions[p].sid # 0
      BY <2>2, SidIsPositive DEF Session
    <3> QED
      BY <1>0, <3>1, <3>2 DEF Fits, HasSid, Serving
  <2>5. Locked'
    BY <1>0, <1>2, <2>1 DEF IInv, Locked, TypeOK, Section, Serving
  <2> HIDE DEF x
  <2> QED
    BY <1>0, <1>1, <2>1, <2>3, <2>4, <2>5, RequestMoves
<1>4. CASE ~fresh
  <2>1. req' = [req EXCEPT ![r] = y] /\ establish' = r
    BY <1>4 DEF Lock, Go, IInv, TypeOK
  <2>3. y \in Serving
    BY <1>0 DEF Serving, Pcs
  <2>4. Fits(y)
    BY <1>0 DEF Fits, HasSid, Serving
  <2>5. Locked'
    BY <1>0, <1>2, <2>1 DEF IInv, Locked, TypeOK
  <2> HIDE DEF y
  <2> QED
    BY <1>0, <1>1, <2>1, <2>3, <2>4, <2>5, RequestMoves
<1> QED
  BY <1>3, <1>4

\* ensure_user looks for the person's user.
LEMMA ListUsersKeeps ==
    ASSUME IInv, NEW r \in Request, ListUsers(r)
    PROVE  IInv'
<1> DEFINE p == req[r].who
           found == find_user(p)
           pc == IF found # 0 THEN "perms" ELSE IF p \in jellyfin THEN "import" ELSE "create"
           x == [req[r] EXCEPT !.uid = found, !.pc = pc]
<1>0. /\ req[r] \in Serving /\ Fits(req[r]) /\ req[r].pc = "list" /\ p \in Person
      /\ UNCHANGED <<groups, users, sids, ids, sessions, establish>>
  BY DEF IInv, TypeOK, AllFit, Fits, ListUsers, server
<1>1. ids' \in [Person -> Groups \cup {None}]
  BY <1>0 DEF IInv, TypeOK
<1>2. req' = [req EXCEPT ![r] = x]
  BY DEF ListUsers, IInv, TypeOK
<1>3. \/ found \in Real /\ Mine(p, found) /\ found # 0
      \/ found = 0 /\ \A u \in Real : ~Mine(p, u)
  BY FindUser
<1>4. found \in Nat
  BY <1>3 DEF Real
<1> HIDE DEF found
<1>5. x \in Serving
  BY <1>0, <1>4 DEF Serving, Pcs
<1>6. Fits(x)
  BY <1>0, <1>3 DEF Fits, HasSid, Serving, Own
<1>7. Locked'
  BY <1>0, <1>2 DEF IInv, Locked, TypeOK, Section, Serving
<1> HIDE DEF x
<1> QED
  BY <1>0, <1>1, <1>2, <1>5, <1>6, <1>7, RequestMoves

\* Seerr's users changed in nothing that says whose they are.
LEMMA UsersKeepOwners ==
    ASSUME TypeOK, users' \in Seq(User), Len(users') = Len(users),
           \A u \in Real : /\ users'[u].email = users[u].email
                           /\ users'[u].jellyfinUsername = users[u].jellyfinUsername
    PROVE  /\ Len(users') >= 2
           /\ Real' = Real
           /\ \A p : \A u \in Real : Mine(p, u)' = Mine(p, u)
           /\ \A p, u : Own(p, u)' = Own(p, u)
<1>1. Len(users') >= 2 /\ Real' = Real
  BY DEF TypeOK, Real
<1>2. \A p : \A u \in Real : Mine(p, u)' = Mine(p, u)
  BY DEF Mine
<1> QED
  BY <1>1, <1>2 DEF Own

\* One user replaced by a record that says as much of whose it is.
LEMMA ReplaceUser ==
    ASSUME TypeOK, NEW k \in 1..Len(users), NEW v \in User, users' = [users EXCEPT ![k] = v]
    PROVE  /\ users' \in Seq(User) /\ Len(users') = Len(users) /\ users'[k] = v
           /\ \A u \in 1..Len(users) : u # k => users'[u] = users[u]
<1>1. users \in Seq(User)
  BY DEF TypeOK
<1> QED
  BY <1>1, ExceptSeq

\* Break-glass changes its email.
LEMMA MoveGlassKeeps ==
    ASSUME IInv, MoveGlass
    PROVE  IInv'
<1> USE DEF IInv
<1>1. UNCHANGED <<groups, sids, ids, sessions, establish, req>>
  BY DEF MoveGlass
<1>2. /\ users' \in Seq(User) /\ Len(users') = Len(users)
      /\ \A u \in Real : users'[u] = users[u]
  <2> DEFINE v == [users[1] EXCEPT !.email = Glass]
  <2>1. 1 \in 1..Len(users) /\ users[1] \in User
    BY DEF TypeOK
  <2>2. v \in User
    BY <2>1 DEF User
  <2>3. users' = [users EXCEPT ![1] = v]
    BY <2>1 DEF MoveGlass, TypeOK
  <2> HIDE DEF v
  <2>4. /\ users' \in Seq(User) /\ Len(users') = Len(users)
        /\ \A u \in 1..Len(users) : u # 1 => users'[u] = users[u]
    BY <2>1, <2>2, <2>3, ReplaceUser
  <2>5. \A u \in Real : u \in 1..Len(users) /\ u # 1
    BY DEF Real
  <2> QED
    BY <2>4, <2>5
<1>3. /\ Len(users') >= 2 /\ Real' = Real
      /\ \A p : \A u \in Real : Mine(p, u)' = Mine(p, u)
      /\ \A p, u : Own(p, u)' = Own(p, u)
  BY <1>2, UsersKeepOwners
<1>4. TypeOK'
  BY <1>1, <1>2, <1>3 DEF TypeOK
<1>5. Locked' /\ Apart'
  BY <1>1 DEF Locked, Apart
<1>6. AllFit'
  BY <1>1, <1>3 DEF AllFit, Fits, Uncached
<1>7. Single'
  BY <1>3 DEF Single
<1>8. Cached'
  BY <1>1, <1>3 DEF Cached
<1> QED
  BY <1>4, <1>5, <1>6, <1>7, <1>8

\* make_session sets what the groups give.
LEMMA SetPermissionsKeeps ==
    ASSUME IInv, NEW r \in Request, SetPermissions(r)
    PROVE  IInv'
<1> DEFINE x == [req[r] EXCEPT !.pc = "login"]
<1>0. /\ req[r] \in Serving /\ Fits(req[r]) /\ req[r].pc = "perms"
      /\ req[r].uid \in Real /\ req[r].uid \notin {0, 1}
  BY DEF IInv, TypeOK, AllFit, Fits, SetPermissions, Own, Real
<1>1. /\ users' = [users EXCEPT ![req[r].uid].perms = req[r].id]
      /\ Go(r, "login")
      /\ UNCHANGED <<groups, sids, ids, sessions, establish>>
  BY <1>0 DEF SetPermissions, Apply
<1>2. /\ users' \in Seq(User) /\ Len(users') = Len(users)
      /\ \A u \in Real : /\ users'[u].email = users[u].email
                         /\ users'[u].jellyfinUsername = users[u].jellyfinUsername
  <2>1. req[r].uid \in 1..Len(users) /\ req[r].id \in Groups
    BY <1>0 DEF Real, Serving
  <2> DEFINE k == req[r].uid
             v == [users[k] EXCEPT !.perms = req[r].id]
  <2>2. users[k] \in User
    BY <2>1 DEF IInv, TypeOK
  <2>3. /\ v \in User /\ v.email = users[k].email
        /\ v.jellyfinUsername = users[k].jellyfinUsername
    BY <2>1, <2>2 DEF User
  <2>4. users' = [users EXCEPT ![k] = v]
    BY <1>1, <2>1 DEF IInv, TypeOK
  <2> HIDE DEF v, k
  <2>5. /\ users' \in Seq(User) /\ Len(users') = Len(users) /\ users'[k] = v
        /\ \A u \in 1..Len(users) : u # k => users'[u] = users[u]
    BY <2>1, <2>3, <2>4, ReplaceUser DEF IInv, k
  <2> QED
    BY <2>3, <2>5 DEF Real
<1>3. /\ Len(users') >= 2 /\ Real' = Real
      /\ \A p : \A u \in Real : Mine(p, u)' = Mine(p, u)
      /\ \A p, u : Own(p, u)' = Own(p, u)
  BY <1>2, UsersKeepOwners DEF IInv
<1>4. req' = [req EXCEPT ![r] = x]
  BY <1>1 DEF Go, IInv, TypeOK
<1>5. x \in Serving
  BY <1>0 DEF Serving, Pcs
<1>6. Fits(x)
  BY <1>0 DEF Fits, HasSid, Serving
<1>7. x.pc = "login" /\ req[r].pc \in Section
  BY <1>0 DEF Serving, Section
<1> HIDE DEF x
<1>8. TypeOK'
  BY <1>1, <1>2, <1>3, <1>4, <1>5 DEF TypeOK, IInv
<1>9. Locked' /\ Apart'
  BY <1>1, <1>4, <1>5, <1>7 DEF Locked, Apart, IInv, TypeOK
<1>10. AllFit'
  <2> SUFFICES ASSUME NEW s \in Request PROVE Fits(req[s])'
    BY DEF AllFit
  <2>1. req'[s] \in {x, req[s]} /\ Fits(req[s])
    BY <1>4 DEF IInv, TypeOK, AllFit
  <2> QED
    BY <2>1, <1>1, <1>3, <1>6 DEF Fits, Uncached
<1>11. Single'
  BY <1>3 DEF Single, IInv
<1>12. Cached'
  BY <1>1, <1>3 DEF Cached, IInv
<1> QED
  BY <1>8, <1>9, <1>10, <1>11, <1>12 DEF IInv

\* ensure_user makes the user: the lock is what keeps another from having made it.
LEMMA MakeUserKeeps ==
    ASSUME IInv, NEW r \in Request, MakeUser(r)
    PROVE  IInv'
<1>p. PICK p : p = req[r].who
  OBVIOUS
<1>n. PICK n : n = Len(users) + 1
  OBVIOUS
<1> DEFINE imported == req[r].pc = "import"
           taken == ~imported /\ \E u \in 1..Len(users) : users[u].email = p
           new == [email |-> IF imported THEN None ELSE p,
                   jellyfinUsername |-> IF imported THEN p ELSE None,
                   perms |-> "family", password |-> ~imported]
           x == [req[r] EXCEPT !.pc = "perms", !.uid = n]
<1>0. /\ req[r] \in Serving /\ Fits(req[r]) /\ req[r].pc \in {"import", "create"} /\ p \in Person
      /\ \A u \in Real : ~Mine(p, u)
      /\ UNCHANGED <<groups, ids, sessions>>
  BY <1>p DEF IInv, TypeOK, AllFit, Fits, MakeUser
<1>1. establish = r /\ \A s \in Request \ {r} : req[s].pc \notin Section
  <2>1. req[r].pc \in Section
    BY <1>0 DEF Section
  <2> QED
    BY <2>1, OnlyHolder DEF IInv
<1>2. CASE taken
  <2>1. Finish(r) /\ establish' = None /\ UNCHANGED users
    BY <1>p, <1>2 DEF MakeUser
  <2> QED
    BY <1>0, <1>1, <2>1, FinishKeeps
<1>3. CASE ~taken
  <2>1. /\ users' = Append(users, new)
        /\ req' = [req EXCEPT ![r] = x]
        /\ UNCHANGED <<establish, sids>>
    BY <1>p, <1>n, <1>3 DEF MakeUser, IInv, TypeOK
  <2>2. new \in User
    BY <1>0 DEF User, Groups
  <2>3. /\ users' \in Seq(User) /\ Len(users') = n /\ n >= 3 /\ n \in Nat /\ users'[n] = new
        /\ \A u \in 1..Len(users) : users'[u] = users[u]
    <3> HIDE DEF new
    <3> QED
      BY <1>n, <2>1, <2>2 DEF IInv, TypeOK
  <2>4. Real' = Real \cup {n} /\ n \notin Real
    BY <1>n, <2>3 DEF Real, IInv, TypeOK
  <2>5. \A q : \A u \in Real : Mine(q, u)' = Mine(q, u)
    BY <2>3 DEF Mine, Real
  <2>6. \A q \in Person : Mine(q, n)' <=> q = p
    BY <1>p, <1>0, <2>3, PeopleAssumption DEF Mine
  <2>7. \A q, u : Own(q, u) => Own(q, u)'
    BY <2>4, <2>5 DEF Own
  <2>8. x \in Serving
    BY <1>0, <2>3 DEF Serving, Pcs
  <2>9. x.pc = "perms" /\ x.who = p /\ x.uid = n /\ x.sid = req[r].sid /\ x.old = req[r].old
    BY <1>0, <1>p DEF Serving
  <2> HIDE DEF x, new
  <2>10. TypeOK'
    BY <1>0, <2>1, <2>3, <2>8 DEF TypeOK, IInv
  <2>11. Locked' /\ Apart'
    BY <1>0, <1>1, <2>1 DEF Locked, Apart, IInv, TypeOK
  <2>12. AllFit'
    <3> SUFFICES ASSUME NEW s \in Request PROVE Fits(req[s])'
      BY DEF AllFit
    <3>1. CASE s = r
      <4>1. req'[s] = x
        BY <2>1, <3>1 DEF IInv, TypeOK
      <4>2. Own(p, n)'
        BY <1>0, <2>4, <2>6 DEF Own
      <4> QED
        BY <1>0, <2>9, <4>1, <4>2 DEF Fits, HasSid, Uncached
    <3>2. CASE s # r
      <4>1. req'[s] = req[s] /\ Fits(req[s]) /\ req[s].pc \notin {"import", "create"}
        BY <2>1, <1>1, <3>2 DEF IInv, TypeOK, AllFit, Section
      <4> QED
        BY <4>1, <1>0, <2>1, <2>7 DEF Fits, Uncached
    <3> QED
      BY <3>1, <3>2
  <2>13. Single'
    <3> SUFFICES ASSUME NEW q \in Person, NEW u \in Real', NEW v \in Real', Mine(q, u)', Mine(q, v)'
                 PROVE  u = v
      BY DEF Single
    <3> QED
      BY <1>0, <2>4, <2>5, <2>6 DEF IInv, Single
  <2>14. Cached'
    BY <1>0, <2>1, <2>7 DEF Cached, IInv
  <2> QED
    BY <2>10, <2>11, <2>12, <2>13, <2>14 DEF IInv
<1> QED
  BY <1>2, <1>3

\* A login's session is new: no request and no cached session had its id.
LEMMA LoginKeeps ==
    ASSUME IInv, NEW r \in Request, Login(r)
    PROVE  IInv'
<1>k. PICK k : k = req[r].uid
  OBVIOUS
<1>n. PICK n : n = NewSid
  OBVIOUS
<1>w. PICK p : p = req[r].who
  OBVIOUS
<1> DEFINE x == [req[r] EXCEPT !.pc = "me", !.sid = n, !.uid = 0]
           v == [users[k] EXCEPT !.password = TRUE]
<1>0. /\ req[r] \in Serving /\ Fits(req[r]) /\ req[r].pc = "login" /\ p \in Person
      /\ Own(p, k) /\ req[r].sid = 0 /\ req[r].old = 0
  BY <1>k, <1>w DEF IInv, TypeOK, AllFit, Fits, Login, HasSid
<1>1. n \in Sid /\ n \notin Held(Request)
  BY <1>n, <1>0, NewSidIsNew
<1>2. /\ users' = [users EXCEPT ![k].password = TRUE]
      /\ sids' = [sids EXCEPT ![n] = k]
      /\ req' = [req EXCEPT ![r] = x]
      /\ UNCHANGED <<groups, ids, sessions, establish>>
  BY <1>k, <1>n DEF Login, IInv, TypeOK
<1>3. k \in Nat /\ k \in 1..Len(users) /\ users[k] \in User
  BY <1>0 DEF Own, Real, IInv, TypeOK
<1>4. /\ users' \in Seq(User) /\ Len(users') = Len(users)
      /\ \A u \in Real : /\ users'[u].email = users[u].email
                         /\ users'[u].jellyfinUsername = users[u].jellyfinUsername
  <2>1. /\ v \in User /\ v.email = users[k].email
        /\ v.jellyfinUsername = users[k].jellyfinUsername
    BY <1>3 DEF User
  <2>2. users' = [users EXCEPT ![k] = v]
    BY <1>2, <1>3 DEF IInv, TypeOK
  <2> HIDE DEF v
  <2>3. /\ users' \in Seq(User) /\ Len(users') = Len(users) /\ users'[k] = v
        /\ \A u \in 1..Len(users) : u # k => users'[u] = users[u]
    BY <1>3, <2>1, <2>2, ReplaceUser DEF IInv
  <2> QED
    BY <2>1, <2>3 DEF Real
<1>5. /\ Len(users') >= 2 /\ Real' = Real
      /\ \A q : \A u \in Real : Mine(q, u)' = Mine(q, u)
      /\ \A q, u : Own(q, u)' = Own(q, u)
  BY <1>4, UsersKeepOwners DEF IInv
<1>6. sids' \in [Sid -> Nat] /\ sids'[n] = k /\ \A s \in Sid : s # n => sids'[s] = sids[s]
  BY <1>1, <1>2, <1>3 DEF IInv, TypeOK
<1>7. x \in Serving
  BY <1>0, <1>1 DEF Serving, Pcs
<1>8. x.pc = "me" /\ x.who = p /\ x.sid = n /\ x.old = 0
  BY <1>0, <1>w DEF Serving
<1>9. req[r].pc \in Section
  BY <1>0 DEF Section
<1> HIDE DEF x, v
<1>10. TypeOK'
  BY <1>2, <1>4, <1>5, <1>6, <1>7 DEF TypeOK, IInv
<1>11. Locked' /\ Apart'
  BY <1>2, <1>9 DEF Locked, Apart, IInv, TypeOK
<1>12. Uncached(n)
  BY <1>1 DEF Uncached, Held
<1>13. AllFit'
  <2> SUFFICES ASSUME NEW s \in Request PROVE Fits(req[s])'
    BY DEF AllFit
  <2>1. CASE s = r
    <3>1. req'[s] = x
      BY <1>2, <2>1 DEF IInv, TypeOK
    <3>2. n # 0
      BY <1>1, SidIsPositive
    <3>3. Own(p, sids[n])'
      BY <1>0, <1>5, <1>6
    <3>4. Uncached(n)'
      BY <1>2, <1>12 DEF Uncached
    <3> QED
      BY <1>0, <1>8, <3>1, <3>2, <3>3, <3>4 DEF Fits, HasSid
  <2>2. CASE s # r
    <3>1. req'[s] = req[s] /\ Fits(req[s]) /\ req[s] \in Serving
      BY <1>2, <2>2 DEF IInv, TypeOK, AllFit
    <3>2. req[s].sid # n
      BY <1>1 DEF Held
    <3>3. req[s].pc \in HasSid => req[s].sid \in Sid
      BY <3>1 DEF Fits, Serving
    <3>4. req[s].pc \in HasSid => sids'[req[s].sid] = sids[req[s].sid]
      BY <3>2, <3>3, <1>6
    <3> QED
      BY <3>1, <3>4, <1>2, <1>5 DEF Fits, Uncached
  <2> QED
    BY <2>1, <2>2
<1>14. Single'
  BY <1>5 DEF Single, IInv
<1>15. Cached'
  <2> SUFFICES ASSUME NEW q \in Person, sessions[q] # None
               PROVE  /\ sids'[sessions[q].sid] = sids[sessions[q].sid]
    BY <1>2, <1>5 DEF Cached, IInv
  <2>1. sessions[q].sid # n /\ sessions[q].sid \in Sid
    BY <1>12 DEF Uncached, IInv, TypeOK, Session
  <2> QED
    BY <2>1, <1>6
<1> QED
  BY <1>10, <1>11, <1>13, <1>14, <1>15 DEF IInv

\* drop_session takes the old session out of the cache.
LEMMA AuthMeKeeps ==
    ASSUME IInv, NEW r \in Request, AuthMe(r)
    PROVE  IInv'
<1>w. PICK p : p = req[r].who
  OBVIOUS
<1>o. PICK old : old = IF sessions[p] = None THEN 0 ELSE sessions[p].sid
  OBVIOUS
<1> DEFINE x == [req[r] EXCEPT !.pc = "logout", !.old = old]
<1>0. /\ req[r] \in Serving /\ Fits(req[r]) /\ req[r].pc = "me" /\ p \in Person
      /\ req[r].sid # 0 /\ Uncached(req[r].sid)
      /\ UNCHANGED <<groups, users, ids>>
  BY <1>w DEF IInv, TypeOK, AllFit, Fits, AuthMe, HasSid
<1>1. establish = r /\ (\A s \in Request \ {r} : req[s].pc \notin Section) /\ req[r].pc \in Section
  <2>1. req[r].pc \in Section
    BY <1>0 DEF Section
  <2> QED
    BY <2>1, OnlyHolder DEF IInv
<1>2. CASE sids[req[r].sid] = 0
  <2>1. Finish(r) /\ establish' = None /\ UNCHANGED sessions
    BY <1>2 DEF AuthMe
  <2> QED
    BY <1>0, <1>1, <2>1, FinishKeeps
<1>3. CASE sids[req[r].sid] # 0
  <2>1. /\ req' = [req EXCEPT ![r] = x]
        /\ sessions' = [sessions EXCEPT ![p] = None]
        /\ UNCHANGED <<establish, sids>>
    BY <1>w, <1>o, <1>3 DEF AuthMe, IInv, TypeOK
  <2>2. old \in Sid \cup {0} /\ old # req[r].sid
    BY <1>0, <1>o DEF Uncached, IInv, TypeOK, Session
  <2>3. /\ sessions' \in [Person -> Session \cup {None}] /\ sessions'[p] = None
        /\ \A q \in Person : sessions'[q] # None => sessions'[q] = sessions[q] /\ q # p
    BY <1>0, <2>1 DEF IInv, TypeOK
  <2>4. Uncached(old)'
    <3> SUFFICES ASSUME NEW q \in Person, sessions'[q] # None PROVE sessions'[q].sid # old
      BY DEF Uncached
    <3>1. sessions'[q] = sessions[q] /\ q # p /\ sessions[q] \in Session
      BY <2>3 DEF IInv, TypeOK
    <3>2. CASE sessions[p] = None
      BY <3>1, <3>2, <1>o, SidIsPositive DEF Session
    <3>3. CASE sessions[p] # None
      BY <3>1, <3>3, <1>o, <1>0 DEF IInv, Apart
    <3> QED
      BY <3>2, <3>3
  <2>5. \A s : Uncached(s) => Uncached(s)'
    BY <2>3 DEF Uncached
  <2>6. x \in Serving
    BY <1>0, <2>2 DEF Serving, Pcs
  <2>7. x.pc = "logout" /\ x.who = p /\ x.sid = req[r].sid /\ x.old = old
    BY <1>0, <1>w DEF Serving
  <2> HIDE DEF x
  <2>8. TypeOK'
    BY <1>0, <2>1, <2>3, <2>6 DEF TypeOK, IInv
  <2>9. Locked'
    BY <1>1, <2>1 DEF Locked, IInv, TypeOK
  <2>10. AllFit'
    <3> SUFFICES ASSUME NEW s \in Request PROVE Fits(req[s])'
      BY DEF AllFit
    <3>1. CASE s = r
      <4>1. req'[s] = x
        BY <2>1, <3>1 DEF IInv, TypeOK
      <4>2. sids[x.sid] = 0 \/ Own(p, sids[x.sid])
        BY <1>0, <1>w, <2>7 DEF Fits, HasSid
      <4> QED
        BY <1>0, <2>1, <2>2, <2>4, <2>5, <2>7, <4>1, <4>2 DEF Fits, HasSid, Own, Real, Mine
    <3>2. CASE s # r
      <4>1. req'[s] = req[s] /\ Fits(req[s])
        BY <2>1, <3>2 DEF IInv, TypeOK, AllFit
      <4> QED
        BY <1>0, <2>1, <2>5, <4>1 DEF Fits, Own, Real, Mine
    <3> QED
      BY <3>1, <3>2
  <2>11. Single'
    BY <1>0 DEF Single, Real, Mine, IInv
  <2>12. Apart'
    BY <2>3 DEF Apart, IInv
  <2>13. Cached'
    BY <1>0, <2>1, <2>3 DEF Cached, IInv, Own, Real, Mine
  <2> QED
    BY <2>8, <2>9, <2>10, <2>11, <2>12, <2>13 DEF IInv
<1> QED
  BY <1>2, <1>3

\* The old session is signed out, and it is not the one that is cached.
LEMMA InsertSessionKeeps ==
    ASSUME IInv, NEW r \in Request, InsertSession(r)
    PROVE  IInv'
<1>w. PICK p : p = req[r].who
  OBVIOUS
<1>s. PICK sid, old : sid = req[r].sid /\ old = req[r].old
  OBVIOUS
<1> DEFINE x == [req[r] EXCEPT !.pc = "forward", !.old = 0]
           c == [sid |-> sid, perms |-> req[r].id, expired |-> FALSE, wiped |-> sids[sid] = 0]
<1>0. /\ req[r] \in Serving /\ Fits(req[r]) /\ req[r].pc = "logout" /\ p \in Person
      /\ sid # 0 /\ sid \in Sid /\ sid # old /\ Uncached(sid) /\ Uncached(old)
      /\ sids[sid] = 0 \/ Own(p, sids[sid])
      /\ UNCHANGED <<groups, users, ids>>
  BY <1>w, <1>s DEF IInv, TypeOK, AllFit, Fits, InsertSession, HasSid, Serving
<1>1. (\A s \in Request \ {r} : req[s].pc \notin Section) /\ req[r].pc \in Section
  <2>1. req[r].pc \in Section
    BY <1>0 DEF Section
  <2> QED
    BY <2>1, OnlyHolder DEF IInv
<1>2. /\ req' = [req EXCEPT ![r] = x]
      /\ sessions' = [sessions EXCEPT ![p] = c]
      /\ establish' = None
  BY <1>w, <1>s DEF InsertSession, IInv, TypeOK
<1>3. /\ sids' \in [Sid -> Nat] /\ sids'[sid] = sids[sid]
      /\ \A s \in Sid : sids'[s] \in {0, sids[s]}
      /\ \A q \in Person : sessions[q] # None => sids'[sessions[q].sid] = sids[sessions[q].sid]
  <2>1. \A q \in Person : sessions[q] # None => sessions[q].sid \in Sid /\ sessions[q].sid # old
    BY <1>0 DEF IInv, TypeOK, Session, Uncached
  <2>2. CASE sids' = [s \in Sid |-> IF s = LogoutOld(r) THEN 0 ELSE sids[s]]
    BY <1>0, <1>s, <2>1, <2>2 DEF LogoutOld, IInv, TypeOK
  <2>3. CASE sids' = [s \in Sid |-> IF s \in Held(Request \ {r}) \cup {req[r].sid}
                                     THEN sids[s] ELSE 0]
    BY <1>0, <1>s, <2>1, <2>3 DEF Held, IInv, TypeOK
  <2> QED
    BY <2>2, <2>3 DEF InsertSession
<1>4. x \in Serving
  BY <1>0 DEF Serving, Pcs
<1>5. x.pc = "forward" /\ x.who = p /\ x.sid = sid /\ x.old = 0
  BY <1>0, <1>w, <1>s DEF Serving
<1>7. c \in Session /\ c.sid = sid /\ (c.wiped <=> sids[sid] = 0)
  BY <1>0 DEF Session, Serving
<1> HIDE DEF x, c
<1>8. /\ sessions' \in [Person -> Session \cup {None}] /\ sessions'[p] = c
      /\ \A q \in Person \ {p} : sessions'[q] = sessions[q]
  BY <1>0, <1>2, <1>7 DEF IInv, TypeOK
<1>9. TypeOK'
  BY <1>0, <1>2, <1>3, <1>4, <1>8 DEF TypeOK, IInv
<1>10. Locked'
  BY <1>1, <1>2, <1>5 DEF Locked, IInv, TypeOK, Section
<1>11. \A q, u : Own(q, u)' = Own(q, u)
  BY <1>0 DEF Own, Real, Mine
<1>12. AllFit'
  <2> SUFFICES ASSUME NEW s \in Request PROVE Fits(req[s])'
    BY DEF AllFit
  <2>1. CASE s = r
    <3>1. req'[s] = x
      BY <1>2, <2>1 DEF IInv, TypeOK
    <3> QED
      BY <1>0, <1>3, <1>5, <1>11, <3>1 DEF Fits, HasSid
  <2>2. CASE s # r
    <3>1. req'[s] = req[s] /\ Fits(req[s]) /\ req[s] \in Serving /\ req[s].pc \notin Section
      BY <1>1, <1>2, <2>2 DEF IInv, TypeOK, AllFit
    <3>2. req[s].pc \notin {"me", "logout", "perms", "login", "import", "create"}
      BY <3>1 DEF Section
    <3>3. req[s].pc \in HasSid => req[s].sid \in Sid
      BY <3>1 DEF Fits, Serving
    <3> QED
      BY <1>3, <1>11, <3>1, <3>2, <3>3 DEF Fits
  <2> QED
    BY <2>1, <2>2
<1>13. Single'
  BY <1>0 DEF Single, Real, Mine, IInv
<1>14. Apart'
  BY <1>0, <1>7, <1>8 DEF Apart, Uncached, IInv
<1>15. Cached'
  <2> SUFFICES ASSUME NEW q \in Person, sessions'[q] # None
               PROVE  \/ sessions'[q].wiped /\ sids'[sessions'[q].sid] = 0
                      \/ Own(q, sids'[sessions'[q].sid])
    BY <1>11 DEF Cached
  <2>1. CASE q = p
    BY <1>0, <1>3, <1>7, <1>8, <2>1
  <2>2. CASE q # p
    BY <1>3, <1>8, <2>2 DEF IInv, Cached
  <2> QED
    BY <2>1, <2>2
<1> QED
  BY <1>9, <1>10, <1>12, <1>13, <1>14, <1>15 DEF IInv

\* forward: an answer, or one more try with a new session.
LEMMA ForwardKeeps ==
    ASSUME IInv, NEW r \in Request, Forward(r)
    PROVE  IInv'
<1> DEFINE x == [req[r] EXCEPT !.pc = "lock", !.forced = TRUE, !.sid = 0]
<1>0. /\ req[r] \in Serving /\ Fits(req[r]) /\ req[r].pc = "forward"
      /\ UNCHANGED <<groups, users, ids, sessions, establish>>
  BY DEF IInv, TypeOK, AllFit, Forward
<1>1. CASE Finish(r)
  BY <1>0, <1>1, FinishKeeps DEF IInv, Locked
<1>2. CASE /\ req' = [req EXCEPT ![r].pc = "lock", ![r].forced = TRUE, ![r].sid = 0]
           /\ UNCHANGED sids
  <2>1. req' = [req EXCEPT ![r] = x]
    BY <1>2 DEF IInv, TypeOK
  <2>2. x \in Serving
    BY <1>0 DEF Serving, Pcs
  <2>3. Fits(x)
    BY <1>0 DEF Fits, HasSid, Serving
  <2>4. Locked'
    BY <1>0, <2>1 DEF IInv, Locked, TypeOK, Section, Serving
  <2>5. ids' \in [Person -> Groups \cup {None}]
    BY <1>0 DEF IInv, TypeOK
  <2> HIDE DEF x
  <2> QED
    BY <1>0, <1>2, <2>1, <2>2, <2>3, <2>4, <2>5, RequestMoves
<1> QED
  BY <1>1, <1>2 DEF Forward

\* A request ends where it is, and frees the lock if it holds it.
LEMMA AbandonKeeps ==
    ASSUME IInv, NEW r \in Request, Abandon(r)
    PROVE  IInv'
<1>1. Finish(r) /\ UNCHANGED <<groups, users, ids, sessions>>
  BY DEF Abandon
<1>2. \A s \in Request \ {r} : req[s].pc \in Section => establish' = s
  BY DEF Abandon, Unlock, IInv, Locked
<1> QED
  BY <1>1, <1>2, FinishKeeps

\* The sidecar restarts with empty caches.
LEMMA RestartKeeps ==
    ASSUME IInv, Restart
    PROVE  IInv'
<1>0. /\ \A p \in Person : sessions'[p] = None
      /\ \A r \in Request : req'[r] = Done
      /\ UNCHANGED <<groups, users>>
  BY DEF Restart
<1>1. TypeOK'
  <2>1. Done \in Serving
    BY DEF Done, Serving, Pcs, Groups
  <2> HIDE DEF Done
  <2> QED
    BY <2>1 DEF Restart, TypeOK, IInv
<1>2. Locked'
  BY <1>0 DEF Locked, Done, Section
<1>3. AllFit'
  BY <1>0 DEF AllFit, Fits, Done, HasSid
<1>4. Single'
  BY <1>0 DEF Single, Real, Mine, IInv
<1>5. Apart' /\ Cached'
  BY <1>0 DEF Apart, Cached
<1> QED
  BY <1>1, <1>2, <1>3, <1>4, <1>5 DEF IInv

\* Sessions change in their age only, or Seerr forgets every one of them.
LEMMA SameSessions ==
    ASSUME IInv, UNCHANGED <<users, establish, req>>,
           groups' \in [Person -> Groups], ids' \in [Person -> Groups \cup {None}],
           sids' \in [Sid -> Nat], sessions' \in [Person -> Session \cup {None}],
           \A s \in Sid : sids'[s] \in {0, sids[s]},
           \A p \in Person : sessions'[p] = None <=> sessions[p] = None,
           \A p \in Person : sessions[p] # None => sessions'[p].sid = sessions[p].sid,
           Cached'
    PROVE  IInv'
<1>1. TypeOK'
  BY DEF IInv, TypeOK
<1>2. Locked' /\ Single'
  BY DEF IInv, Locked, Single, Real, Mine
<1>3. AllFit'
  <2> SUFFICES ASSUME NEW s \in Request PROVE Fits(req[s])'
    BY DEF AllFit
  <2>1. req'[s] = req[s] /\ Fits(req[s]) /\ req[s] \in Serving
    BY DEF IInv, TypeOK, AllFit
  <2>2. req[s].pc \in HasSid => req[s].sid \in Sid
    BY <2>1 DEF Fits, Serving
  <2>3. \A q : Uncached(q) => Uncached(q)'
    BY DEF Uncached
  <2>4. \A q, u : Own(q, u)' = Own(q, u)
    BY DEF Own, Real, Mine
  <2>5. (\A u \in Real : ~Mine(req[s].who, u)) => (\A u \in Real : ~Mine(req[s].who, u))'
    BY <2>1 DEF Real, Mine
  <2> QED
    BY <2>1, <2>2, <2>3, <2>4, <2>5 DEF Fits
<1>4. Apart'
  BY DEF IInv, Apart
<1> QED
  BY <1>1, <1>2, <1>3, <1>4 DEF IInv

\* Seerr's session store is cleared.
LEMMA WipeStoreKeeps ==
    ASSUME IInv, WipeStore
    PROVE  IInv'
<1>0. /\ UNCHANGED <<groups, users, ids, establish, req>>
      /\ sids' = [s \in Sid |-> 0]
      /\ sessions' = [p \in Person |-> IF sessions[p] = None THEN None
                                       ELSE [sessions[p] EXCEPT !.wiped = TRUE]]
  BY DEF WipeStore
<1>1. \A p \in Person : sessions[p] # None =>
          /\ [sessions[p] EXCEPT !.wiped = TRUE] \in Session
          /\ [sessions[p] EXCEPT !.wiped = TRUE].sid = sessions[p].sid
          /\ [sessions[p] EXCEPT !.wiped = TRUE].wiped
          /\ [sessions[p] EXCEPT !.wiped = TRUE] # None
  <2> SUFFICES ASSUME NEW p \in Person, sessions[p] # None
               PROVE  /\ [sessions[p] EXCEPT !.wiped = TRUE] \in Session
                      /\ [sessions[p] EXCEPT !.wiped = TRUE].sid = sessions[p].sid
                      /\ [sessions[p] EXCEPT !.wiped = TRUE].wiped
    BY PeopleAssumption
  <2>1. sessions[p] \in Session
    BY DEF IInv, TypeOK
  <2> QED
    BY <2>1 DEF Session
<1>2. sessions' \in [Person -> Session \cup {None}]
  BY <1>0, <1>1
<1>3. \A p \in Person : /\ sessions'[p] = None <=> sessions[p] = None
                        /\ sessions[p] # None => sessions'[p].sid = sessions[p].sid /\ sessions'[p].wiped
  BY <1>0, <1>1
<1>4. Cached'
  BY <1>0, <1>2, <1>3 DEF Cached, Session
<1> QED
  BY <1>0, <1>2, <1>3, <1>4, SameSessions DEF IInv, TypeOK

\* A cached session reaches its TTL.
LEMMA ExpireSessionKeeps ==
    ASSUME IInv, NEW p \in Person, ExpireSession(p)
    PROVE  IInv'
<1> DEFINE c == [sessions[p] EXCEPT !.expired = TRUE]
<1>0. /\ UNCHANGED <<groups, users, sids, ids, establish, req>>
      /\ sessions[p] \in Session
      /\ sessions' = [sessions EXCEPT ![p] = c]
  BY DEF ExpireSession, server, IInv, TypeOK
<1>1. c \in Session /\ c.sid = sessions[p].sid /\ c.wiped = sessions[p].wiped /\ c # None
  <2>1. c \in Session /\ c.sid = sessions[p].sid /\ c.wiped = sessions[p].wiped
    BY <1>0 DEF Session
  <2> QED
    BY <2>1, PeopleAssumption
<1> HIDE DEF c
<1>2. sessions' \in [Person -> Session \cup {None}] /\ sessions'[p] = c
      /\ \A q \in Person \ {p} : sessions'[q] = sessions[q]
  BY <1>0, <1>1 DEF IInv, TypeOK
<1>3. \A q \in Person : /\ sessions'[q] = None <=> sessions[q] = None
                        /\ sessions[q] # None => /\ sessions'[q].sid = sessions[q].sid
                                                 /\ sessions'[q].wiped = sessions[q].wiped
  BY <1>1, <1>2 DEF ExpireSession
<1>4. Cached'
  BY <1>0, <1>3 DEF IInv, Cached, Own, Real, Mine
<1> QED
  BY <1>0, <1>2, <1>3, <1>4, SameSessions DEF IInv, TypeOK

\* Groups change, or a cached identity is too old.
LEMMA OutsideKeeps ==
    ASSUME IInv, NEW p \in Person, ChangeGroups(p) \/ ExpireIdentity(p)
    PROVE  IInv'
<1>0. UNCHANGED <<users, sids, sessions, establish, req>>
  BY DEF ChangeGroups, ExpireIdentity, server
<1>1. groups' \in [Person -> Groups] /\ ids' \in [Person -> Groups \cup {None}]
  BY DEF ChangeGroups, ExpireIdentity, server, IInv, TypeOK
<1>2. Cached'
  BY <1>0 DEF IInv, Cached, Own, Real, Mine
<1> QED
  BY <1>0, <1>1, <1>2, SameSessions DEF IInv, TypeOK

-----------------------------------------------------------------------------
\* The invariant holds at the start.
LEMMA InitFits == Init => IInv
<1> SUFFICES ASSUME Init PROVE IInv
  OBVIOUS
<1> DEFINE a(e) == [email |-> e, jellyfinUsername |-> None, perms |-> "admin", password |-> FALSE]
           b == [email |-> Other, jellyfinUsername |-> None, perms |-> "family", password |-> TRUE]
<1>1. PICK e \in Person \cup {Glass} : users = <<a(e), b>>
  BY DEF Init
<1>2. users \in Seq(User) /\ Len(users) = 2 /\ users[2] = b
  <2>1. a(e) \in User /\ b \in User
    BY DEF User, Groups
  <2> HIDE DEF a, b
  <2> QED
    BY <1>1, <2>1
<1>3. Real = {2} /\ \A p \in Person : ~Mine(p, 2)
  BY <1>2, PeopleAssumption DEF Real, Mine
<1>4. \A p \in Person : sessions[p] = None
  BY DEF Init
<1>5. TypeOK
  <2>1. Done \in Serving
    BY DEF Done, Serving, Pcs, Groups
  <2>2. "admin" \in Groups
    BY DEF Groups
  <2> HIDE DEF Done, a, b
  <2> QED
    BY <1>2, <2>1, <2>2 DEF TypeOK, Init
<1>6. \A r \in Request : req[r] = Done
  BY DEF Init
<1>7. Locked
  BY <1>6 DEF Locked, Done, Section
<1>8. AllFit
  BY <1>6 DEF AllFit, Fits, Done, HasSid
<1>9. Single /\ Apart /\ Cached
  BY <1>3, <1>4 DEF Single, Apart, Cached
<1> QED
  BY <1>5, <1>7, <1>8, <1>9 DEF IInv

\* A step of nothing.
LEMMA StutterKeeps == IInv /\ UNCHANGED vars => IInv'
BY DEF IInv, TypeOK, Locked, AllFit, Fits, Own, Uncached, Real, Mine, Single, Apart, Cached, vars

\* Every step keeps the invariant.
LEMMA NextKeeps == IInv /\ [Next]_vars => IInv'
<1> SUFFICES ASSUME IInv, [Next]_vars PROVE IInv'
  OBVIOUS
<1>1. CASE UNCHANGED vars
  BY <1>1, StutterKeeps
<1>2. ASSUME NEW r \in Request, NEW p \in Person, Arrive(r, p) PROVE IInv'
  BY <1>2, ArriveKeeps
<1>3. ASSUME NEW r \in Request, Work(r) PROVE IInv'
  BY <1>3, AnswerKeeps, IdentifyKeeps, ServeKeeps, LockKeeps, ListUsersKeeps, MakeUserKeeps,
     SetPermissionsKeeps, LoginKeeps, AuthMeKeeps, InsertSessionKeeps, ForwardKeeps DEF Work
<1>4. ASSUME NEW r \in Request, Abandon(r) PROVE IInv'
  BY <1>4, AbandonKeeps
<1>5. ASSUME NEW p \in Person, ChangeGroups(p) \/ ExpireIdentity(p) \/ ExpireSession(p) PROVE IInv'
  BY <1>5, OutsideKeeps, ExpireSessionKeeps
<1>6. CASE Restart \/ WipeStore \/ MoveGlass
  BY <1>6, RestartKeeps, WipeStoreKeeps, MoveGlassKeeps
<1> QED
  BY <1>1, <1>2, <1>3, <1>4, <1>5, <1>6 DEF Next

\* Every variable of the sidecar and of Seerr keeps its type.
THEOREM TypeCorrect == Spec => []TypeOK
<1>1. IInv => TypeOK
  BY DEF IInv
<1> QED
  BY <1>1, InitFits, NextKeeps, PTL DEF Spec

\* "so two first requests do not both create the user": for any number of people
\* and requests, whatever fails, is cancelled, restarts or is forgotten, nobody
\* has a second Seerr user.
THEOREM NoSecondUser == Spec => []OneUser
<1>1. IInv => OneUser
  <2> SUFFICES ASSUME IInv, NEW p \in Person
               PROVE  Cardinality({u \in 2..Len(users) : Mine(p, u)}) <= 1
    BY DEF OneUser
  <2> DEFINE U == {u \in 2..Len(users) : Mine(p, u)}
  <2>1. CASE U = {}
    BY <2>1, FS_EmptySet
  <2>2. CASE U # {}
    <3>1. PICK u : u \in U
      BY <2>2
    <3>2. U = {u}
      BY <3>1 DEF IInv, Single, Real
    <3>3. Cardinality({u}) = 1
      BY FS_Singleton
    <3> QED
      BY <3>2, <3>3
  <2> QED
    BY <2>1, <2>2
<1> QED
  BY <1>1, InitFits, NextKeeps, PTL DEF Spec

\* Nobody acts as somebody else: the session cached for a person, and the session
\* a request is forwarded with, is one of that person's own user or one Seerr has
\* forgotten.
THEOREM NobodyElse == Spec => []OwnSession
<1>1. IInv => OwnSession
  <2> SUFFICES ASSUME IInv PROVE OwnSession
    OBVIOUS
  <2>1. \A p, u : Own(p, u) => u > 1 /\ Mine(p, u)
    BY DEF Own, Real
  <2>2. \A p \in Person : sessions[p] # None =>
            \/ sessions[p].wiped
            \/ sids[sessions[p].sid] > 1 /\ Mine(p, sids[sessions[p].sid])
    BY <2>1 DEF IInv, Cached
  <2>3. \A r \in Request : req[r].pc = "forward" =>
            \/ sids[req[r].sid] = 0
            \/ sids[req[r].sid] > 1 /\ Mine(req[r].who, sids[req[r].sid])
    BY <2>1 DEF IInv, AllFit, Fits, HasSid
  <2> QED
    BY <2>2, <2>3 DEF OwnSession
<1> QED
  BY <1>1, InitFits, NextKeeps, PTL DEF Spec

-----------------------------------------------------------------------------
(* The permissions of a session.                                           *)

\* From the moment make_session sets them until it has cached the session.
Making == {"login", "me", "logout"}

\* A user is one person's; while a session is being made its person counts as torn
\* and Seerr has the permissions the request found.
OneOwner == \A u \in Real : \A p, q \in Person : Mine(p, u) /\ Mine(q, u) => p = q
MakerFits(x) ==
    x.pc \in Making =>
        /\ x.who \in torn
        /\ x.pc = "login" => users[x.uid].perms = x.id
        /\ x.pc # "login" => sids[x.sid] = 0 \/ users[sids[x.sid]].perms = x.id
Powers == OneOwner /\ (\A r \in Request : MakerFits(req[r])) /\ RightPowers

\* What a step leaves of a request that is making a session, and of a cached session.
SameMaker(r) ==
    req'[r].pc \in Making =>
        /\ req[r].pc \in Making /\ (req'[r].pc = "login" <=> req[r].pc = "login")
        /\ req'[r].who = req[r].who /\ req'[r].uid = req[r].uid
        /\ req'[r].sid = req[r].sid /\ req'[r].id = req[r].id
        /\ req[r].pc # "login" => sids'[req[r].sid] \in {0, sids[req[r].sid]}
SameCached(p) ==
    sessions'[p] # None /\ ~sessions'[p].wiped =>
        /\ sessions[p] # None /\ ~sessions[p].wiped
        /\ sessions'[p].sid = sessions[p].sid /\ sessions'[p].perms = sessions[p].perms
        /\ sids'[sessions[p].sid] = sids[sessions[p].sid]

\* A request that makes a session goes on knowing its permissions.
LEMMA MakerStays ==
    ASSUME IInv, NEW r \in Request, MakerFits(req[r]), SameMaker(r), torn \subseteq torn',
           \A u \in Real : users'[u].perms = users[u].perms
    PROVE  MakerFits(req[r])'
<1> SUFFICES ASSUME req'[r].pc \in Making PROVE MakerFits(req[r])'
  BY DEF MakerFits
<1>1. Fits(req[r])
  BY DEF IInv, AllFit
<1>2. CASE req[r].pc = "login"
  BY <1>1, <1>2 DEF MakerFits, SameMaker, Fits, Own
<1>3. CASE req[r].pc \in {"me", "logout"}
  BY <1>1, <1>3 DEF MakerFits, SameMaker, Fits, HasSid, Own
<1> QED
  BY <1>2, <1>3 DEF SameMaker, Making

\* A cached session goes on having the permissions cached with it.
LEMMA CachedStays ==
    ASSUME IInv, RightPowers, \A p \in Person : SameCached(p), torn \subseteq torn',
           \A u \in Real : users'[u].perms = users[u].perms
    PROVE  RightPowers'
<1> SUFFICES ASSUME NEW p \in Person, sessions'[p] # None, ~sessions'[p].wiped, p \notin torn'
             PROVE  users'[sids'[sessions'[p].sid]].perms = sessions'[p].perms
  BY DEF RightPowers
<1>1. sids[sessions[p].sid] \in Real
  BY DEF SameCached, IInv, Cached, Own
<1>2. users[sids[sessions[p].sid]].perms = sessions[p].perms
  BY DEF SameCached, RightPowers
<1> QED
  BY <1>1, <1>2 DEF SameCached

\* Whose users are, kept.
LEMMA OwnerStays ==
    ASSUME OneOwner, Real' = Real,
           \A u \in Real : /\ users'[u].email = users[u].email
                           /\ users'[u].jellyfinUsername = users[u].jellyfinUsername
    PROVE  OneOwner'
BY DEF OneOwner, Mine

\* A step that touches neither users nor who is torn.
LEMMA QuietPowers ==
    ASSUME IInv, Powers, UNCHANGED <<users, torn>>,
           \A r \in Request : SameMaker(r), \A p \in Person : SameCached(p)
    PROVE  Powers'
<1>1. OneOwner'
  BY OwnerStays DEF Powers, Real
<1>2. RightPowers'
  BY CachedStays DEF Powers
<1>3. \A r \in Request : MakerFits(req[r])'
  BY MakerStays DEF Powers
<1> QED
  BY <1>1, <1>2, <1>3 DEF Powers

\* A request that ends leaves the sessions of the others alone.
LEMMA FinishPowers ==
    ASSUME IInv, Powers, NEW r \in Request, Finish(r), UNCHANGED <<users, torn, sessions>>
    PROVE  Powers'
<1>1. req'[r] = Done /\ \A s \in Request \ {r} : req'[s] = req[s]
  BY DEF Finish, IInv, TypeOK
<1>2. \A s \in Sid : sids'[s] \in {0, sids[s]}
  BY DEF Finish, Forget
<1>3. \A p \in Person : sessions[p] # None => sids'[sessions[p].sid] = sids[sessions[p].sid]
  BY DEF Finish, Forget, Held, IInv, TypeOK, Session
<1>4. \A s \in Request : SameMaker(s)
  <2> SUFFICES ASSUME NEW s \in Request, req'[s].pc \in Making PROVE SameMaker(s)
    BY DEF SameMaker
  <2>1. s # r /\ req'[s] = req[s]
    BY <1>1 DEF Done, Making
  <2>2. req[s] \in Serving /\ Fits(req[s])
    BY DEF IInv, TypeOK, AllFit
  <2>3. req[s].pc # "login" => req[s].sid \in Sid
    BY <2>1, <2>2 DEF Fits, Serving, HasSid, Making
  <2> QED
    BY <1>2, <2>1, <2>3 DEF SameMaker
<1>5. \A p \in Person : SameCached(p)
  BY <1>3 DEF SameCached
<1> QED
  BY <1>4, <1>5, QuietPowers

\* The person's permissions change under the lock; no other person has that user.
LEMMA SetPermissionsPowers ==
    ASSUME IInv, Powers, NEW r \in Request, SetPermissions(r)
    PROVE  Powers'
<1>k. PICK k, p, g : k = req[r].uid /\ p = req[r].who /\ g = req[r].id
  OBVIOUS
<1>0. /\ req[r] \in Serving /\ req[r].pc = "perms" /\ Own(p, k) /\ k \notin {0, 1} /\ p \in Person
      /\ g \in Groups
  BY <1>k DEF IInv, TypeOK, AllFit, Fits, SetPermissions, Own, Real, Serving
<1>1. /\ users' = [users EXCEPT ![k].perms = g] /\ torn' = torn \cup {p}
      /\ req' = [req EXCEPT ![r].pc = "login"]
      /\ UNCHANGED <<sids, sessions>>
  BY <1>0, <1>k DEF SetPermissions, Apply, Go
<1>2. /\ Real' = Real /\ users'[k].perms = g
      /\ \A u \in Real : /\ users'[u].email = users[u].email
                         /\ users'[u].jellyfinUsername = users[u].jellyfinUsername
                         /\ u # k => users'[u] = users[u]
  <2> DEFINE v == [users[k] EXCEPT !.perms = g]
  <2>1. k \in 1..Len(users) /\ users[k] \in User
    BY <1>0 DEF Own, Real, IInv, TypeOK
  <2>2. /\ v \in User /\ v.email = users[k].email /\ v.perms = g
        /\ v.jellyfinUsername = users[k].jellyfinUsername
    BY <1>0, <2>1 DEF User
  <2>3. users' = [users EXCEPT ![k] = v]
    BY <1>1, <2>1 DEF IInv, TypeOK
  <2> HIDE DEF v
  <2>4. /\ Len(users') = Len(users) /\ users'[k] = v
        /\ \A u \in 1..Len(users) : u # k => users'[u] = users[u]
    BY <2>1, <2>2, <2>3, ReplaceUser DEF IInv
  <2> QED
    BY <2>2, <2>4 DEF Real
<1>3. OneOwner'
  BY <1>2, OwnerStays DEF Powers
<1>4. RightPowers'
  <2> SUFFICES ASSUME NEW q \in Person, sessions[q] # None, ~sessions[q].wiped, q \notin torn \cup {p}
               PROVE  users'[sids[sessions[q].sid]].perms = sessions[q].perms
    BY <1>1 DEF RightPowers
  <2>1. Own(q, sids[sessions[q].sid]) /\ q # p
    BY DEF IInv, Cached
  <2>2. sids[sessions[q].sid] # k /\ sids[sessions[q].sid] \in Real
    BY <1>0, <2>1 DEF Powers, OneOwner, Own
  <2> QED
    BY <1>2, <2>2 DEF Powers, RightPowers
<1>5. ASSUME NEW s \in Request PROVE MakerFits(req[s])'
  <2>1. CASE s = r
    <3>1. req'[s].pc = "login" /\ req'[s].who = p /\ req'[s].uid = k /\ req'[s].id = g
      BY <1>0, <1>1, <1>k, <2>1 DEF IInv, TypeOK, Serving
    <3> QED
      BY <1>1, <1>2, <3>1 DEF MakerFits
  <2>2. CASE s # r
    <3>1. req'[s] = req[s] /\ req[s].pc \notin Section
      BY <1>0, <1>1, <2>2, OnlyHolder DEF IInv, TypeOK, Section
    <3> QED
      BY <3>1 DEF MakerFits, Section, Making
  <2> QED
    BY <2>1, <2>2
<1> QED
  BY <1>3, <1>4, <1>5 DEF Powers

\* A new user is the person's alone.
LEMMA MakeUserPowers ==
    ASSUME IInv, Powers, NEW r \in Request, MakeUser(r)
    PROVE  Powers'
<1>p. PICK p : p = req[r].who
  OBVIOUS
<1>n. PICK n : n = Len(users) + 1
  OBVIOUS
<1> DEFINE imported == req[r].pc = "import"
           taken == ~imported /\ \E u \in 1..Len(users) : users[u].email = p
           new == [email |-> IF imported THEN None ELSE p,
                   jellyfinUsername |-> IF imported THEN p ELSE None,
                   perms |-> "family", password |-> ~imported]
           x == [req[r] EXCEPT !.pc = "perms", !.uid = n]
<1>0. /\ req[r] \in Serving /\ req[r].pc \in {"import", "create"} /\ p \in Person
      /\ UNCHANGED <<sessions, torn>>
  BY <1>p DEF IInv, TypeOK, AllFit, Fits, MakeUser
<1>1. CASE taken
  BY <1>0, <1>1, <1>p, FinishPowers DEF MakeUser
<1>2. CASE ~taken
  <2>1. users' = Append(users, new) /\ req' = [req EXCEPT ![r] = x] /\ UNCHANGED sids
    BY <1>p, <1>n, <1>2 DEF MakeUser, IInv, TypeOK
  <2>2. new \in User
    BY <1>0 DEF User, Groups
  <2>3. /\ Len(users') = n /\ n \in Nat /\ users'[n] = new
        /\ \A u \in 1..Len(users) : users'[u] = users[u]
    <3> HIDE DEF new
    <3> QED
      BY <1>n, <2>1, <2>2 DEF IInv, TypeOK
  <2>4. Real' = Real \cup {n} /\ \A u \in Real : users'[u] = users[u]
    BY <1>n, <2>3 DEF Real, IInv, TypeOK
  <2>5. \A q \in Person : Mine(q, n)' => q = p
    BY <1>0, <2>3, PeopleAssumption DEF Mine
  <2>6. OneOwner'
    BY <2>4, <2>5 DEF Powers, OneOwner, Mine
  <2>7. x \in Serving /\ x.pc = "perms"
    BY <1>0, <2>3 DEF Serving, Pcs
  <2> HIDE DEF x, new
  <2>8. \A s \in Request : SameMaker(s)
    BY <2>1, <2>7 DEF SameMaker, Making, IInv, TypeOK
  <2>9. \A q \in Person : SameCached(q)
    BY <1>0, <2>1 DEF SameCached
  <2>10. RightPowers'
    BY <1>0, <2>4, <2>9, CachedStays DEF Powers
  <2>11. \A s \in Request : MakerFits(req[s])'
    BY <1>0, <2>4, <2>8, MakerStays DEF Powers
  <2> QED
    BY <2>6, <2>10, <2>11 DEF Powers
<1> QED
  BY <1>1, <1>2

\* The new session is one of the user whose permissions were set.
LEMMA LoginPowers ==
    ASSUME IInv, Powers, NEW r \in Request, Login(r)
    PROVE  Powers'
<1>k. PICK k, p, g, n : k = req[r].uid /\ p = req[r].who /\ g = req[r].id /\ n = NewSid
  OBVIOUS
<1>0. /\ req[r] \in Serving /\ req[r].pc = "login" /\ Own(p, k) /\ req[r].sid = 0 /\ req[r].old = 0
      /\ p \in torn /\ users[k].perms = g
  BY <1>k DEF IInv, TypeOK, AllFit, Fits, Login, HasSid, Powers, MakerFits, Making
<1>1. n \in Sid /\ n \notin Held(Request)
  BY <1>k, <1>0, NewSidIsNew
<1>2. /\ users' = [users EXCEPT ![k].password = TRUE]
      /\ sids' = [sids EXCEPT ![n] = k]
      /\ req' = [req EXCEPT ![r].pc = "me", ![r].sid = n, ![r].uid = 0]
      /\ UNCHANGED <<sessions, torn>>
  BY <1>k DEF Login
<1>3. /\ Real' = Real
      /\ \A u \in Real : /\ users'[u].email = users[u].email
                         /\ users'[u].jellyfinUsername = users[u].jellyfinUsername
                         /\ users'[u].perms = users[u].perms
  <2> DEFINE v == [users[k] EXCEPT !.password = TRUE]
  <2>1. k \in 1..Len(users) /\ users[k] \in User
    BY <1>0 DEF Own, Real, IInv, TypeOK
  <2>2. /\ v \in User /\ v.email = users[k].email /\ v.perms = users[k].perms
        /\ v.jellyfinUsername = users[k].jellyfinUsername
    BY <2>1 DEF User
  <2>3. users' = [users EXCEPT ![k] = v]
    BY <1>2, <2>1 DEF IInv, TypeOK
  <2> HIDE DEF v
  <2>4. /\ Len(users') = Len(users) /\ users'[k] = v
        /\ \A u \in 1..Len(users) : u # k => users'[u] = users[u]
    BY <2>1, <2>2, <2>3, ReplaceUser DEF IInv
  <2> QED
    BY <2>2, <2>4 DEF Real
<1>4. sids'[n] = k /\ \A s \in Sid : s # n => sids'[s] = sids[s]
  BY <1>1, <1>2 DEF IInv, TypeOK
<1>5. OneOwner'
  BY <1>3, OwnerStays DEF Powers
<1>6. \A q \in Person : SameCached(q)
  <2> SUFFICES ASSUME NEW q \in Person, sessions[q] # None
               PROVE  sids'[sessions[q].sid] = sids[sessions[q].sid]
    BY <1>2 DEF SameCached
  <2>1. sessions[q].sid # n /\ sessions[q].sid \in Sid
    BY <1>1 DEF Held, IInv, TypeOK, Session
  <2> QED
    BY <1>4, <2>1
<1>7. RightPowers'
  BY <1>2, <1>3, <1>6, CachedStays DEF Powers
<1>8. ASSUME NEW s \in Request PROVE MakerFits(req[s])'
  <2>1. CASE s = r
    <3>1. req'[s].pc = "me" /\ req'[s].who = p /\ req'[s].sid = n /\ req'[s].id = g
      BY <1>0, <1>2, <1>k, <2>1 DEF IInv, TypeOK, Serving
    <3>2. users'[k].perms = g
      BY <1>0, <1>3 DEF Own
    <3> QED
      BY <1>0, <1>2, <1>4, <3>1, <3>2 DEF MakerFits
  <2>2. CASE s # r
    <3>1. req'[s] = req[s] /\ req[s].pc \notin Section
      BY <1>0, <1>2, <2>2, OnlyHolder DEF IInv, TypeOK, Section
    <3> QED
      BY <3>1 DEF MakerFits, Section, Making
  <2> QED
    BY <2>1, <2>2
<1> QED
  BY <1>5, <1>7, <1>8 DEF Powers

\* drop_session empties the person's place in the cache.
LEMMA AuthMePowers ==
    ASSUME IInv, Powers, NEW r \in Request, AuthMe(r)
    PROVE  Powers'
<1>w. PICK p : p = req[r].who
  OBVIOUS
<1>o. PICK old : old = IF sessions[p] = None THEN 0 ELSE sessions[p].sid
  OBVIOUS
<1>0. req[r] \in Serving /\ req[r].pc = "me" /\ p \in Person /\ UNCHANGED <<users, torn>>
  BY <1>w DEF IInv, TypeOK, AllFit, Fits, AuthMe
<1>1. CASE sids[req[r].sid] = 0
  BY <1>0, <1>1, FinishPowers DEF AuthMe
<1>2. CASE sids[req[r].sid] # 0
  <2>1. /\ req' = [req EXCEPT ![r].pc = "logout", ![r].old = old]
        /\ sessions' = [sessions EXCEPT ![p] = None]
        /\ UNCHANGED sids
    BY <1>w, <1>o, <1>2 DEF AuthMe
  <2>2. \A q \in Person : sessions'[q] # None => sessions'[q] = sessions[q]
    BY <1>0, <2>1 DEF IInv, TypeOK
  <2>3. /\ \A s \in Request \ {r} : req'[s] = req[s]
        /\ req'[r].pc = "logout" /\ req'[r].who = req[r].who /\ req'[r].uid = req[r].uid
        /\ req'[r].sid = req[r].sid /\ req'[r].id = req[r].id
    BY <1>0, <2>1 DEF IInv, TypeOK, Serving
  <2>4. \A s \in Request : SameMaker(s)
    BY <1>0, <2>1, <2>3 DEF SameMaker, Making
  <2>5. \A q \in Person : SameCached(q)
    BY <2>1, <2>2 DEF SameCached
  <2> QED
    BY <1>0, <2>4, <2>5, QuietPowers
<1> QED
  BY <1>1, <1>2

\* The session that is cached has the permissions the request found.
LEMMA InsertSessionPowers ==
    ASSUME IInv, Powers, NEW r \in Request, InsertSession(r)
    PROVE  Powers'
<1>w. PICK p, sid, old, g : p = req[r].who /\ sid = req[r].sid /\ old = req[r].old /\ g = req[r].id
  OBVIOUS
<1> DEFINE c == [sid |-> sid, perms |-> g, expired |-> FALSE, wiped |-> sids[sid] = 0]
<1>0. /\ req[r] \in Serving /\ req[r].pc = "logout" /\ p \in Person
      /\ sid \in Sid /\ sid # old /\ Uncached(old)
      /\ sids[sid] = 0 \/ users[sids[sid]].perms = g
      /\ users' = users /\ torn' = torn \ {p}
  BY <1>w DEF IInv, TypeOK, AllFit, Fits, InsertSession, HasSid, Serving, Powers, MakerFits, Making
<1>1. \A s \in Request \ {r} : req[s].pc \notin Section
  BY <1>0, OnlyHolder DEF IInv, Section
<1>2. /\ req' = [req EXCEPT ![r].pc = "forward", ![r].old = 0]
      /\ sessions' = [sessions EXCEPT ![p] = c]
  BY <1>w DEF InsertSession
<1>3. /\ sids'[sid] = sids[sid]
      /\ \A q \in Person : sessions[q] # None => sids'[sessions[q].sid] = sids[sessions[q].sid]
  <2>1. \A q \in Person : sessions[q] # None => sessions[q].sid \in Sid /\ sessions[q].sid # old
    BY <1>0 DEF IInv, TypeOK, Session, Uncached
  <2>2. CASE sids' = [s \in Sid |-> IF s = LogoutOld(r) THEN 0 ELSE sids[s]]
    BY <1>0, <1>w, <2>1, <2>2 DEF LogoutOld
  <2>3. CASE sids' = [s \in Sid |-> IF s \in Held(Request \ {r}) \cup {req[r].sid}
                                     THEN sids[s] ELSE 0]
    BY <1>0, <1>w, <2>1, <2>3 DEF Held
  <2> QED
    BY <2>2, <2>3 DEF InsertSession
<1>4. c.sid = sid /\ c.perms = g /\ (c.wiped <=> sids[sid] = 0)
  OBVIOUS
<1> HIDE DEF c
<1>5. sessions'[p] = c /\ \A q \in Person \ {p} : sessions'[q] = sessions[q]
  BY <1>0, <1>2 DEF IInv, TypeOK
<1>6. OneOwner'
  BY <1>0, OwnerStays DEF Powers, Real
<1>7. RightPowers'
  <2> SUFFICES ASSUME NEW q \in Person, sessions'[q] # None, ~sessions'[q].wiped, q \notin torn'
               PROVE  users[sids'[sessions'[q].sid]].perms = sessions'[q].perms
    BY <1>0 DEF RightPowers
  <2>1. CASE q = p
    BY <1>0, <1>3, <1>4, <1>5, <2>1
  <2>2. CASE q # p
    BY <1>0, <1>3, <1>5, <2>2 DEF Powers, RightPowers
  <2> QED
    BY <2>1, <2>2
<1>8. ASSUME NEW s \in Request PROVE MakerFits(req[s])'
  <2>1. req'[s].pc \notin Making
    BY <1>0, <1>1, <1>2 DEF IInv, TypeOK, Serving, Section, Making
  <2> QED
    BY <2>1 DEF MakerFits
<1> QED
  BY <1>6, <1>7, <1>8 DEF Powers

\* Requests outside of make_session.
LEMMA RequestPowers ==
    ASSUME IInv, Powers, NEW r \in Request,
           \/ \E p \in Person : Arrive(r, p)
           \/ Answer(r) \/ Identify(r) \/ Serve(r) \/ Lock(r) \/ ListUsers(r) \/ Forward(r) \/ Abandon(r)
    PROVE  Powers'
<1>0. req[r] \in Serving /\ Fits(req[r])
  BY DEF IInv, TypeOK, AllFit
<1>1. CASE Finish(r) /\ UNCHANGED <<users, torn, sessions>>
  BY <1>1, FinishPowers
<1>2. CASE req'[r].pc \notin Making /\ (\A s \in Request \ {r} : req'[s] = req[s])
           /\ UNCHANGED <<users, torn, sids, sessions>>
  <2>1. \A s \in Request : SameMaker(s)
    BY <1>2 DEF SameMaker, IInv, TypeOK
  <2>2. \A p \in Person : SameCached(p)
    BY <1>2 DEF SameCached
  <2> QED
    BY <1>2, <2>1, <2>2, QuietPowers
<1>3. CASE \E p \in Person : Arrive(r, p)
  <2>1. PICK p \in Person : Arrive(r, p)
    BY <1>3
  <2> DEFINE new == [Done EXCEPT !.who = p, !.pc = IF ids[p] = None THEN "auth" ELSE "serve",
                                 !.id = IF ids[p] = None THEN "none" ELSE ids[p]]
  <2>2. req' = [req EXCEPT ![r] = new]
    BY <2>1 DEF Arrive
  <2>3. new.pc \in {"auth", "serve"}
    BY DEF Done
  <2>4. req \in [Request -> Serving]
    BY DEF IInv, TypeOK
  <2> HIDE DEF new
  <2>5. req'[r] = new /\ \A s \in Request \ {r} : req'[s] = req[s]
    BY <2>2, <2>4
  <2>6. UNCHANGED <<users, torn, sids, sessions>>
    BY <2>1 DEF Arrive, server
  <2> QED
    BY <1>2, <2>3, <2>5, <2>6 DEF Making
<1>4. CASE Answer(r)
  BY <1>0, <1>2, <1>4 DEF Answer, server, Making, IInv, TypeOK, Serving
<1>5. CASE Identify(r)
  <2>1. req'[r].pc = "serve" /\ \A s \in Request \ {r} : req'[s] = req[s]
    BY <1>0, <1>5 DEF Identify, Go, IInv, TypeOK, Serving
  <2> QED
    BY <1>2, <1>5, <2>1 DEF Identify, server, Making
<1>6. CASE Serve(r)
  <2>1. UNCHANGED <<users, torn, sessions>>
    BY <1>6 DEF Serve
  <2>2. \/ Finish(r)
        \/ /\ UNCHANGED sids
           /\ \/ \E sid : req' = [req EXCEPT ![r].pc = "forward", ![r].sid = sid]
              \/ req' = [req EXCEPT ![r].pc = "lock"]
    BY <1>6 DEF Serve, Go
  <2>3. ASSUME UNCHANGED sids, NEW sid, req' = [req EXCEPT ![r].pc = "forward", ![r].sid = sid]
        PROVE  Powers'
    <3>1. req'[r].pc = "forward" /\ \A s \in Request \ {r} : req'[s] = req[s]
      BY <1>0, <2>3 DEF IInv, TypeOK, Serving
    <3> QED
      BY <1>2, <2>1, <2>3, <3>1 DEF Making
  <2>4. ASSUME UNCHANGED sids, req' = [req EXCEPT ![r].pc = "lock"] PROVE Powers'
    <3>1. req'[r].pc = "lock" /\ \A s \in Request \ {r} : req'[s] = req[s]
      BY <1>0, <2>4 DEF IInv, TypeOK, Serving
    <3> QED
      BY <1>2, <2>1, <2>4, <3>1 DEF Making
  <2> QED
    BY <1>1, <2>1, <2>2, <2>3, <2>4
<1>7. CASE Lock(r)
  BY <1>0, <1>2, <1>7 DEF Lock, Go, server, Making, IInv, TypeOK, Serving
<1>8. CASE ListUsers(r)
  BY <1>0, <1>2, <1>8 DEF ListUsers, server, Making, IInv, TypeOK, Serving
<1>9. CASE Forward(r)
  BY <1>0, <1>1, <1>2, <1>9 DEF Forward, Making, IInv, TypeOK, Serving
<1>10. CASE Abandon(r)
  BY <1>1, <1>10 DEF Abandon
<1> QED
  BY <1>3, <1>4, <1>5, <1>6, <1>7, <1>8, <1>9, <1>10

\* What happens around the requests.
LEMMA OutsidePowers ==
    ASSUME IInv, Powers,
           \/ \E p \in Person : ChangeGroups(p) \/ ExpireIdentity(p) \/ ExpireSession(p)
           \/ Restart \/ WipeStore \/ MoveGlass
    PROVE  Powers'
<1>1. ASSUME NEW p \in Person, ChangeGroups(p) \/ ExpireIdentity(p) PROVE Powers'
  <2>1. UNCHANGED <<users, torn, sids, sessions, req>>
    BY <1>1 DEF ChangeGroups, ExpireIdentity, server
  <2>2. (\A r \in Request : SameMaker(r)) /\ (\A q \in Person : SameCached(q))
    BY <2>1 DEF SameMaker, SameCached
  <2> QED
    BY <2>1, <2>2, QuietPowers
<1>2. ASSUME NEW p \in Person, ExpireSession(p) PROVE Powers'
  <2> DEFINE c == [sessions[p] EXCEPT !.expired = TRUE]
  <2>0. /\ UNCHANGED <<users, torn, sids, req>> /\ sessions[p] \in Session /\ sessions[p] # None
        /\ sessions' = [sessions EXCEPT ![p] = c]
    BY <1>2 DEF ExpireSession, server, IInv, TypeOK
  <2>1. c.sid = sessions[p].sid /\ c.wiped = sessions[p].wiped /\ c.perms = sessions[p].perms
    BY <2>0 DEF Session
  <2> HIDE DEF c
  <2>2. sessions'[p] = c /\ \A q \in Person \ {p} : sessions'[q] = sessions[q]
    BY <2>0 DEF IInv, TypeOK
  <2>3. (\A r \in Request : SameMaker(r)) /\ (\A q \in Person : SameCached(q))
    BY <2>0, <2>1, <2>2 DEF SameMaker, SameCached
  <2> QED
    BY <2>0, <2>3, QuietPowers
<1>3. CASE Restart
  <2>1. (\A p \in Person : sessions'[p] = None) /\ (\A r \in Request : req'[r].pc = "done")
        /\ UNCHANGED <<users, torn>>
    BY <1>3 DEF Restart, Done
  <2>2. (\A r \in Request : SameMaker(r)) /\ (\A q \in Person : SameCached(q))
    BY <2>1 DEF SameMaker, SameCached, Making
  <2> QED
    BY <2>1, <2>2, QuietPowers
<1>4. CASE WipeStore
  <2>1. \A p \in Person : sessions'[p] # None => sessions'[p].wiped
    <3> SUFFICES ASSUME NEW p \in Person, sessions'[p] # None PROVE sessions'[p].wiped
      OBVIOUS
    <3>1. sessions[p] # None /\ sessions'[p] = [sessions[p] EXCEPT !.wiped = TRUE] /\ sessions[p] \in Session
      BY <1>4 DEF WipeStore, IInv, TypeOK
    <3> QED
      BY <3>1 DEF Session
  <2>2. \A r \in Request : req[r].pc \in {"me", "logout"} => req[r].sid \in Sid
    BY DEF IInv, TypeOK, AllFit, Fits, Serving, HasSid
  <2>3. \A r \in Request : SameMaker(r)
    BY <1>4, <2>2 DEF WipeStore, SameMaker, Making
  <2>4. \A q \in Person : SameCached(q)
    BY <2>1 DEF SameCached
  <2> QED
    BY <1>4, <2>3, <2>4, QuietPowers DEF WipeStore
<1>5. CASE MoveGlass
  <2>1. UNCHANGED <<sids, sessions, req, torn>>
    BY <1>5 DEF MoveGlass
  <2>2. Len(users') = Len(users) /\ \A u \in Real : users'[u] = users[u]
    <3> DEFINE v == [users[1] EXCEPT !.email = Glass]
    <3>1. 1 \in 1..Len(users) /\ users[1] \in User
      BY DEF IInv, TypeOK
    <3>2. v \in User
      BY <3>1 DEF User
    <3>3. users' = [users EXCEPT ![1] = v]
      BY <1>5, <3>1 DEF MoveGlass, IInv, TypeOK
    <3> HIDE DEF v
    <3>4. Len(users') = Len(users) /\ \A u \in 1..Len(users) : u # 1 => users'[u] = users[u]
      BY <3>1, <3>2, <3>3, ReplaceUser DEF IInv
    <3> QED
      BY <3>4 DEF Real
  <2>3. (\A r \in Request : SameMaker(r)) /\ (\A q \in Person : SameCached(q))
    BY <2>1 DEF SameMaker, SameCached
  <2>4. OneOwner'
    BY <2>2, OwnerStays DEF Powers, Real
  <2>5. RightPowers'
    BY <2>1, <2>2, <2>3, CachedStays DEF Powers
  <2>6. \A r \in Request : MakerFits(req[r])'
    BY <2>1, <2>2, <2>3, MakerStays DEF Powers
  <2> QED
    BY <2>4, <2>5, <2>6 DEF Powers
<1> QED
  BY <1>1, <1>2, <1>3, <1>4, <1>5

\* A cached session has the permissions Seerr has for its user, whichever requests
\* of whoever interleave: a person's permissions change only under the lock and in
\* a request that then caches its own session, or leaves the person torn.
THEOREM PowersMatch == Spec => []RightPowers
<1>1. Init => Powers
  <2> SUFFICES ASSUME Init PROVE Powers
    OBVIOUS
  <2>1. (\A p \in Person : sessions[p] = None) /\ (\A r \in Request : req[r].pc = "done")
    BY DEF Init, Done
  <2>2. \A u \in Real : \A p \in Person : ~Mine(p, u)
    <3> DEFINE a(e) == [email |-> e, jellyfinUsername |-> None, perms |-> "admin", password |-> FALSE]
               b == [email |-> Other, jellyfinUsername |-> None, perms |-> "family", password |-> TRUE]
    <3>1. PICK e \in Person \cup {Glass} : users = <<a(e), b>>
      BY DEF Init
    <3>2. Len(users) = 2 /\ users[2] = b
      <4> HIDE DEF a, b
      <4> QED
        BY <3>1
    <3> QED
      BY <3>2, PeopleAssumption DEF Real, Mine
  <2> QED
    BY <2>1, <2>2 DEF Powers, OneOwner, MakerFits, Making, RightPowers
<1>2. IInv /\ Powers /\ [Next]_vars => Powers'
  <2> SUFFICES ASSUME IInv, Powers, [Next]_vars PROVE Powers'
    OBVIOUS
  <2>1. CASE UNCHANGED vars
    BY <2>1 DEF vars, Powers, OneOwner, Real, Mine, MakerFits, RightPowers
  <2>2. ASSUME NEW r \in Request, Work(r) PROVE Powers'
    BY <2>2, RequestPowers, MakeUserPowers, SetPermissionsPowers, LoginPowers, AuthMePowers,
       InsertSessionPowers DEF Work
  <2>3. ASSUME NEW r \in Request, Abandon(r) \/ \E p \in Person : Arrive(r, p) PROVE Powers'
    BY <2>3, RequestPowers
  <2> QED
    BY <2>1, <2>2, <2>3, OutsidePowers DEF Next
<1>3. Powers => RightPowers
  BY DEF Powers
<1> QED
  BY <1>1, <1>2, <1>3, InitFits, NextKeeps, PTL DEF Spec
=============================================================================
