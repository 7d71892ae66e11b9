------------------------------ MODULE SeerrSso ------------------------------
(***************************************************************************)
(* seerr-sso, the sidecar that turns the identity oauth2-proxy vouches for *)
(* into the person's own Seerr account (src/apps/seerr-sso/src/main.rs).   *)
(* Requests are served concurrently and give way to each other at awaits;  *)
(* calls in a row that only the holder of the lock makes and that nobody   *)
(* else's step reads in between (the two listings, the permissions' GET    *)
(* and POST, the login's up to three) are one step.                        *)
(*                                                                         *)
(* Abstractions.  A person is their credential, email and Jellyfin name at *)
(* once.  Times are what the code compares them with: a cached identity is *)
(* there or has expired (AUTH_CACHE), a cached session is young or past    *)
(* its TTL.  A failed call and a client that goes away end a request the   *)
(* same way (Abandon), at whichever await they strike.                     *)
(***************************************************************************)
EXTENDS Naturals, FiniteSets, Sequences

CONSTANTS Person, Request, None,
          MaxEvents    \* bound: group changes, failures, disconnects, restarts, wiped stores

VARIABLES groups,    \* Keycloak: what each person may be
          jellyfin,  \* the persons Jellyfin has a user for
          users,     \* Seerr's users; a user's id is its index, 1 is break-glass
          sids,      \* Seerr's session store: session -> user id, 0 when unknown
          ids,       \* App.identities: the cached identity of a credential
          sessions,  \* App.sessions: the cached Seerr session of a person
          establish, \* App.establish: the request holding the lock, or None
          req,       \* where each request is, and what it holds
          torn,      \* persons with permissions set and no session made since
          events

vars == <<groups, jellyfin, users, sids, ids, sessions, establish, req, torn, events>>
server == <<groups, jellyfin, users, sids>>

Groups == {"admin", "family", "none"}
Sid == 1..(2 * Cardinality(Request) + Cardinality(Person))
Glass == "glass"          \* the email the bootstrap moves user 1 to
Other == "other"          \* the email of somebody who has used Seerr before

Session == [sid : Sid, perms : Groups, expired : BOOLEAN, wiped : BOOLEAN]

ASSUME PeopleAssumption ==
    /\ IsFiniteSet(Person) /\ IsFiniteSet(Request)
    /\ None \notin Person \cup Request \cup Session
    /\ Glass \notin Person /\ Other \notin Person

Done == [pc |-> "done", who |-> None, id |-> "none", forced |-> FALSE, uid |-> 0,
         sid |-> 0, old |-> 0]

-----------------------------------------------------------------------------
(* Permissions, users and sessions.                                        *)

\* Cfg::permissions: what the groups give; "none" gives no access.
permissions(g) == IF g = "none" THEN None ELSE g

Mine(p, u) == users[u].email = p \/ users[u].jellyfinUsername = p

\* find_user: the person's user by email, else by Jellyfin name; never user 1.
First(S) == CHOOSE u \in S : \A v \in S : u <= v
find_user(p) ==
    LET byEmail == {u \in 2..Len(users) : users[u].email = p}
        byName == {u \in 2..Len(users) : users[u].jellyfinUsername = p}
    IN  IF byEmail # {} THEN First(byEmail) ELSE IF byName # {} THEN First(byName) ELSE 0

\* The session ids held by the cache and by the requests in R.
Held(R) == {req[r].sid : r \in R} \cup {req[r].old : r \in R}
             \cup {sessions[p].sid : p \in {q \in Person : sessions[q] # None}}

\* A login's session id is new; one nobody holds any more is forgotten.
NewSid == CHOOSE s \in Sid : s \notin Held(Request)
Forget(r) == [s \in Sid |-> IF s \in Held(Request \ {r}) THEN sids[s] ELSE 0]

FreshForever(p, perms, force) == sessions[p] # None /\ ~force /\ sessions[p].perms = perms  \* mutant
\* session_for's `fresh`.
Fresh(p, perms, force) ==
    /\ sessions[p] # None
    /\ ~force
    /\ sessions[p].perms = perms
    /\ ~sessions[p].expired

Go(r, pc) == req' = [req EXCEPT ![r].pc = pc]

\* The request is answered, and what it held is let go.
Finish(r) ==
    /\ req' = [req EXCEPT ![r] = Done]
    /\ sids' = Forget(r)

-----------------------------------------------------------------------------
(* A request: who is asking.                                               *)

\* identity: a credential seen in the last seconds is not asked about again.
Arrive(r, p) ==
    /\ req[r].pc = "done"
    /\ req' = [req EXCEPT ![r] = [Done EXCEPT !.who = p,
                   !.pc = IF ids[p] = None THEN "auth" ELSE "serve",
                   !.id = IF ids[p] = None THEN "none" ELSE ids[p]]]
    /\ UNCHANGED <<server, ids, sessions, establish, torn, events>>

\* oauth2-proxy answers with the groups of that moment ...
Answer(r) ==
    /\ req[r].pc = "auth"
    /\ req' = [req EXCEPT ![r].pc = "identify", ![r].id = groups[req[r].who]]
    /\ UNCHANGED <<server, ids, sessions, establish, torn, events>>

\* ... and the answer is cached when the request gets to run again.
Identify(r) ==
    /\ req[r].pc = "identify"
    /\ ids' = [ids EXCEPT ![req[r].who] = req[r].id]
    /\ Go(r, "serve")
    /\ UNCHANGED <<server, sessions, establish, torn, events>>

\* serve: no access, an upgrade, Seerr's own logout and a body too large are
\* answered here; otherwise the cached session, or the lock.
Serve(r) ==
    /\ req[r].pc = "serve"
    /\ LET p == req[r].who
           perms == permissions(req[r].id)
       IN  \/ Finish(r)
           \/ /\ perms # None /\ Fresh(p, perms, FALSE)
              /\ req' = [req EXCEPT ![r].pc = "forward", ![r].sid = sessions[p].sid]
              /\ UNCHANGED sids
           \/ /\ perms # None /\ ~Fresh(p, perms, FALSE)
              /\ Go(r, "lock")
              /\ UNCHANGED sids
    /\ UNCHANGED <<groups, jellyfin, users, ids, sessions, establish, torn, events>>

-----------------------------------------------------------------------------
(* session_for and make_session, under the lock.                           *)

NoLock(r) == TRUE                                                    \* mutant
Free(r) == establish = None

\* The lock, and the second look at the cache.
Lock(r) ==
    /\ req[r].pc = "lock"
    /\ Free(r)
    /\ LET p == req[r].who IN
       IF Fresh(p, permissions(req[r].id), req[r].forced)
       THEN /\ req' = [req EXCEPT ![r].pc = "forward", ![r].sid = sessions[p].sid]
            /\ UNCHANGED establish
       ELSE Go(r, "list") /\ establish' = r
    /\ UNCHANGED <<server, ids, sessions, torn, events>>

\* ensure_user: look for the user, then for the person in Jellyfin.
ListUsers(r) ==
    /\ req[r].pc = "list"
    /\ LET p == req[r].who IN
       req' = [req EXCEPT ![r].uid = find_user(p),
                  ![r].pc = IF find_user(p) # 0 THEN "perms"
                             ELSE IF p \in jellyfin THEN "import" ELSE "create"]
    /\ UNCHANGED <<server, ids, sessions, establish, torn, events>>

\* POST /user/import-from-jellyfin, or POST /user: 409 when the email is taken,
\* which only user 1 can have done.
MakeUser(r) ==
    /\ req[r].pc \in {"import", "create"}
    /\ LET p == req[r].who
           imported == req[r].pc = "import"
           taken == ~imported /\ \E u \in 1..Len(users) : users[u].email = p
       IN  IF taken
           THEN /\ Finish(r)
                /\ establish' = None
                /\ UNCHANGED users
           ELSE /\ users' = Append(users,
                      [email |-> IF imported THEN None ELSE p,
                       jellyfinUsername |-> IF imported THEN p ELSE None,
                       perms |-> "family", password |-> ~imported])
                /\ req' = [req EXCEPT ![r].pc = "perms", ![r].uid = Len(users) + 1]
                /\ UNCHANGED <<establish, sids>>
    /\ UNCHANGED <<groups, jellyfin, ids, sessions, torn, events>>

OnlyNewUsers(u, perms) == IF users[u].perms = "family" THEN perms ELSE users[u].perms  \* mutant
Apply(u, perms) == perms

\* The permissions the groups give, set when Seerr has others; nobody signs in
\* as user 1.
SetPermissions(r) ==
    /\ req[r].pc = "perms"
    /\ IF req[r].uid \in {0, 1}
       THEN Finish(r) /\ establish' = None /\ UNCHANGED <<users, torn>>
       ELSE /\ users' = [users EXCEPT ![req[r].uid].perms = Apply(req[r].uid, req[r].id)]
            /\ torn' = torn \cup {req[r].who}
            /\ Go(r, "login")
            /\ UNCHANGED <<establish, sids>>
    /\ UNCHANGED <<groups, jellyfin, ids, sessions, events>>

\* login; when Seerr refuses the derived password it is set and the login tried
\* again, which nobody can come between.
Login(r) ==
    /\ req[r].pc = "login"
    /\ users' = [users EXCEPT ![req[r].uid].password = TRUE]
    /\ sids' = [sids EXCEPT ![NewSid] = req[r].uid]
    /\ req' = [req EXCEPT ![r].pc = "me", ![r].sid = NewSid, ![r].uid = 0]
    /\ UNCHANGED <<groups, jellyfin, ids, sessions, establish, torn, events>>

\* /auth/me until the new session works, given up on after eight tries; once it
\* works drop_session takes the old session out of the cache ...
AuthMe(r) ==
    /\ req[r].pc = "me"
    /\ LET p == req[r].who IN
       IF sids[req[r].sid] # 0
       THEN /\ req' = [req EXCEPT ![r].pc = "logout",
                         ![r].old = IF sessions[p] = None THEN 0 ELSE sessions[p].sid]
            /\ sessions' = [sessions EXCEPT ![p] = None]
            /\ UNCHANGED <<establish, sids>>
       ELSE Finish(r) /\ establish' = None /\ UNCHANGED sessions
    /\ UNCHANGED <<groups, jellyfin, users, ids, torn, events>>

LogoutNew(r) == req[r].sid                                           \* mutant
LogoutOld(r) == req[r].old

\* ... and signs it out, which may fail unnoticed; then the new one is cached
\* and the lock released.
InsertSession(r) ==
    /\ req[r].pc = "logout"
    /\ LET p == req[r].who IN
       /\ \/ sids' = [s \in Sid |-> IF s = LogoutOld(r) THEN 0 ELSE sids[s]]
          \/ sids' = [s \in Sid |-> IF s \in Held(Request \ {r}) \cup {req[r].sid}
                                     THEN sids[s] ELSE 0]
       /\ sessions' = [sessions EXCEPT ![p] = [sid |-> req[r].sid, perms |-> req[r].id,
                                               expired |-> FALSE, wiped |-> sids[req[r].sid] = 0]]
       /\ torn' = torn \ {p}
    /\ req' = [req EXCEPT ![r].pc = "forward", ![r].old = 0]
    /\ establish' = None
    /\ UNCHANGED <<groups, jellyfin, users, ids, events>>

\* forward: Seerr runs the request as the session's user.  A 403 on /auth/me
\* signs in again once, when the session is old enough.
Forward(r) ==
    /\ req[r].pc = "forward"
    /\ \/ Finish(r)
       \/ /\ sids[req[r].sid] = 0 /\ ~req[r].forced
          /\ req' = [req EXCEPT ![r].pc = "lock", ![r].forced = TRUE, ![r].sid = 0]
          /\ UNCHANGED sids
    /\ UNCHANGED <<groups, jellyfin, users, ids, sessions, establish, torn, events>>

-----------------------------------------------------------------------------
(* What happens to it.                                                     *)

Event == events < MaxEvents /\ events' = events + 1

KeepLock(r) == establish                                             \* mutant
Unlock(r) == IF establish = r THEN None ELSE establish

\* A call fails, or the client goes away and its future is dropped: the request
\* ends where it is, and a held lock is released.  A call that was on its way has
\* been carried out by then (the step before) or never is: that Seerr gets to it
\* after the next holder's calls is left out.
Abandon(r) ==
    /\ req[r].pc # "done"
    /\ Event
    /\ Finish(r)
    /\ establish' = Unlock(r)
    /\ UNCHANGED <<groups, jellyfin, users, ids, sessions, torn>>

\* The sidecar restarts: its caches are in memory.
Restart ==
    /\ Event
    /\ ids' = [p \in Person |-> None]
    /\ sessions' = [p \in Person |-> None]
    /\ req' = [r \in Request |-> Done]
    /\ establish' = None
    /\ sids' = [s \in Sid |-> 0]
    /\ UNCHANGED <<groups, jellyfin, users, torn>>

\* Seerr's session store is cleared.
WipeStore ==
    /\ Event
    /\ sids' = [s \in Sid |-> 0]
    /\ sessions' = [p \in Person |-> IF sessions[p] = None THEN None
                                     ELSE [sessions[p] EXCEPT !.wiped = TRUE]]
    /\ UNCHANGED <<groups, jellyfin, users, ids, establish, req, torn>>

\* Somebody's groups change, the Seerr bootstrap moves user 1's email away.
ChangeGroups(p) ==
    /\ Event
    /\ \E g \in Groups \ {groups[p]} : groups' = [groups EXCEPT ![p] = g]
    /\ UNCHANGED <<jellyfin, users, sids, ids, sessions, establish, req, torn>>

MoveGlass ==
    /\ users[1].email # Glass
    /\ users' = [users EXCEPT ![1].email = Glass]
    /\ UNCHANGED <<groups, jellyfin, sids, ids, sessions, establish, req, torn, events>>

\* Time passes: AUTH_CACHE and the TTL.
ExpireIdentity(p) ==
    /\ ids[p] # None
    /\ ids' = [ids EXCEPT ![p] = None]
    /\ UNCHANGED <<server, sessions, establish, req, torn, events>>

ExpireSession(p) ==
    /\ sessions[p] # None /\ ~sessions[p].expired
    /\ sessions' = [sessions EXCEPT ![p].expired = TRUE]
    /\ UNCHANGED <<server, ids, establish, req, torn, events>>

-----------------------------------------------------------------------------
Init ==
    /\ groups = [p \in Person |-> "admin"]
    /\ jellyfin \in SUBSET Person
    /\ \E e \in Person \cup {Glass} :
          users = <<[email |-> e, jellyfinUsername |-> None, perms |-> "admin", password |-> FALSE],
                    [email |-> Other, jellyfinUsername |-> None, perms |-> "family", password |-> TRUE]>>
    /\ sids = [s \in Sid |-> 0]
    /\ ids = [p \in Person |-> None]
    /\ sessions = [p \in Person |-> None]
    /\ establish = None
    /\ req = [r \in Request |-> Done]
    /\ torn = {}
    /\ events = 0

Work(r) ==
    \/ Answer(r) \/ Identify(r) \/ Serve(r) \/ Lock(r) \/ ListUsers(r) \/ MakeUser(r)
    \/ SetPermissions(r) \/ Login(r) \/ AuthMe(r) \/ InsertSession(r) \/ Forward(r)

Next ==
    \/ \E r \in Request, p \in Person : Arrive(r, p)
    \/ \E r \in Request : Work(r) \/ Abandon(r)
    \/ \E p \in Person : ChangeGroups(p) \/ ExpireIdentity(p) \/ ExpireSession(p)
    \/ Restart \/ WipeStore \/ MoveGlass

\* A request's task is polled when its answer comes; tokio's mutex is fair, so
\* a waiting request gets the lock however often it is taken; time passes.
Fairness ==
    /\ \A r \in Request : WF_vars(Work(r)) /\ SF_vars(Lock(r))
    /\ \A p \in Person : WF_vars(ExpireIdentity(p)) /\ WF_vars(ExpireSession(p))

Spec == Init /\ [][Next]_vars /\ Fairness

-----------------------------------------------------------------------------
(* Properties.                                                             *)

Pcs == {"done", "auth", "identify", "serve", "lock", "list", "import", "create", "perms",
        "login", "me", "logout", "forward"}

User == [email : Person \cup {None, Glass, Other}, jellyfinUsername : Person \cup {None},
         perms : Groups, password : BOOLEAN]
Serving == [pc : Pcs, who : Person \cup {None}, id : Groups, forced : BOOLEAN, uid : Nat,
            sid : Sid \cup {0}, old : Sid \cup {0}]

\* Every variable keeps its type, and Seerr never has fewer than the users it began with.
TypeOK ==
    /\ groups \in [Person -> Groups]
    /\ users \in Seq(User) /\ Len(users) >= 2
    /\ sids \in [Sid -> Nat]
    /\ ids \in [Person -> Groups \cup {None}]
    /\ sessions \in [Person -> Session \cup {None}]
    /\ req \in [Request -> Serving]

\* However first requests, failures and restarts interleave, a person has at
\* most one Seerr user besides break-glass ("so two first requests do not both
\* create the user").
OneUser ==
    \A p \in Person : Cardinality({u \in 2..Len(users) : Mine(p, u)}) <= 1

\* The session cached for a person is a live session of their own user unless
\* Seerr's store was cleared since, and no request is ever forwarded with the
\* session of user 1 or of somebody else.
OwnSession ==
    /\ \A p \in Person : sessions[p] # None =>
          LET u == sids[sessions[p].sid] IN
          \/ sessions[p].wiped
          \/ u > 1 /\ Mine(p, u)
    /\ \A r \in Request : req[r].pc = "forward" =>
          LET u == sids[req[r].sid] IN u = 0 \/ (u > 1 /\ Mine(req[r].who, u))

\* A cached session's permissions are the ones Seerr has for its user, unless a
\* request that was setting others is under way or ended before its session was
\* made.
RightPowers ==
    \A p \in Person : sessions[p] # None /\ ~sessions[p].wiped /\ p \notin torn =>
        users[sids[sessions[p].sid]].perms = sessions[p].perms

RunsAsAdmin(p) ==
    \E r \in Request :
        /\ req[r].pc = "forward" /\ req'[r].pc # "forward" /\ req[r].who = p
        /\ sids[req[r].sid] # 0 /\ users[sids[req[r].sid]].perms = "admin"

\* Somebody who is no admin any more eventually stops acting as one, whatever
\* identities and sessions were cached and whichever step failed.
Revoked ==
    \A p \in Person : <>[](groups[p] # "admin") => <>[][~RunsAsAdmin(p)]_vars

\* Nobody waits for ever to have a session made: whatever fails, and whoever
\* goes away, the lock becomes free again and again.
LockFreed == []<>(establish = None)
=============================================================================
