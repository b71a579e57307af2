------------------------------ MODULE Accounts ------------------------------
(***************************************************************************)
(* Accounts and sessions (internal/src/auth, internal/src/admin and        *)
(* internal/middleware/auth.go): registration, invites, login, the check   *)
(* of a session on each request, and the changes of status by admins.      *)
(*                                                                         *)
(* A status lives in three places that no transaction ties together: the   *)
(* user's row (twice, as Status and as Active), the talent's row and the   *)
(* sessions.  A login reads the row, spends its time on the password, and  *)
(* stores a session; a request reads its session and then the row.         *)
(*                                                                         *)
(* Ids, tokens and passwords are abstract.  What a client sends wrong, and *)
(* what time does to a session or an invite, is a choice of the step that  *)
(* looks at it.  Time-based codes are part of "the password".              *)
(***************************************************************************)
EXTENDS Naturals, FiniteSets

CONSTANTS Superadmins,  \* users of role superadmin, active from the start
          Staff,        \* users of role admin, who come by invite
          TalentUsers,  \* users of role talent, who register
          Calls,        \* the requests of all clients
          MaxFailures   \* bound: failed database calls of one behaviour

Users == Superadmins \cup Staff \cup TalentUsers

ASSUME AccountsAssumption ==
  /\ Superadmins \cap (Staff \cup TalentUsers) = {}
  /\ Staff \cap TalentUsers = {}
  /\ Users \cap Calls = {}
  /\ MaxFailures \in Nat

VARIABLES users,    \* table users
          talents,  \* the status in table talents, by user
          sessions, \* table sessions, by token
          call      \* where each request is

\* Not in the code: the requests whose caller has been blocked ever since they
\* began; the sessions stored by a login whose row had been changed meanwhile;
\* the users whose sessions an error left alone; the users whom two calls
\* changed at a time; those whose talent row was left behind for a reason other
\* than that; and the number of failures.
VARIABLES barred, late, unrevoked, mixed, parted, failures

ghosts == <<barred, late, unrevoked, mixed, parted, failures>>
vars == <<users, talents, sessions, call, ghosts>>

-----------------------------------------------------------------------------
UserStatuses == {"active", "invited", "pending", "suspended", "banned", "deleted", "rejected"}
TalentStatuses == {"pending", "active", "suspended", "rejected"}

\* The statuses whose sessions a request may not use, as ValidateSession lists
\* them; a login is refused for "pending" too.
SessionBlocked == {"suspended", "banned", "deleted", "rejected", "invited"}
LoginBlocked == SessionBlocked \cup {"pending"}

\* A session is named by the login that stored it, or by the user if it was
\* there from the start.
Tokens == Calls \cup Users
Owner(k) == IF k \in Calls THEN call[k].user ELSE k

UserRow == [status : UserStatuses, active : BOOLEAN, deleted : BOOLEAN,
            invite : {"null", "open", "empty"}]
Absent == [status |-> "absent"]
Row(status, active, invite) ==
  [status |-> status, active |-> active, deleted |-> FALSE, invite |-> invite]

Exists(u) == users[u] # Absent
Blocked(row) == row # Absent /\ row.status \in SessionBlocked

\* What POST /admin/users/{id}/... and the routes of talents ask for.
UserOps == [suspend |-> "suspended", ban |-> "banned", reinstate |-> "active",
            delete |-> "deleted"]
TalentOps == [approve |-> "active", rejectTalent |-> "rejected",
              suspendTalent |-> "suspended", reinstateTalent |-> "active"]
Changing == DOMAIN UserOps \cup DOMAIN TalentOps \cup {"switchOn", "switchOff", "accept", "register"}

Nobody == "nobody"
Idle == [pc |-> "idle", op |-> "none", user |-> Nobody, caller |-> Nobody, seen |-> Absent]

PCs == {"idle", "user", "in", "store", "accept", "registered", "patch",
        "patched", "set", "revoke", "sync", "talent", "settled", "syncUser", "activated", "done"}

CallRow == [pc     : PCs,
            op     : Changing \cup {"none", "login", "use"},
            user   : Tokens \cup {Nobody},
            caller : Users \cup {Nobody},
            seen   : UserRow \cup {Absent}]

TypeOK ==
  /\ users \in [Users -> UserRow \cup {Absent}]
  /\ talents \in [TalentUsers -> TalentStatuses \cup {"absent"}]
  /\ sessions \in [Tokens -> {"absent", "valid", "invalid"}]
  /\ call \in [Calls -> CallRow]
  /\ barred \subseteq Calls /\ late \subseteq Tokens
  /\ {unrevoked, mixed, parted} \subseteq SUBSET Users
  /\ failures \in 0..MaxFailures

\* A talent may already be registered, or approved and logged in; a member of
\* staff may have an open invite.
Init ==
  /\ users \in [Users -> {Absent, Row("active", TRUE, "null"),
                          Row("pending", TRUE, "null"), Row("invited", FALSE, "open")}]
  /\ \A u \in Superadmins : users[u] = Row("active", TRUE, "null")
  /\ \A u \in Staff : users[u] \in {Absent, Row("invited", FALSE, "open")}
  /\ \A u \in TalentUsers : users[u] # Row("invited", FALSE, "open")
  /\ talents = [u \in TalentUsers |-> users[u].status]
  /\ sessions = [k \in Tokens |-> IF k \in Users /\ users[k].status = "active"
                                  THEN "valid" ELSE "absent"]
  /\ call = [c \in Calls |-> Idle]
  /\ barred = {} /\ late = {} /\ unrevoked = {} /\ mixed = {} /\ parted = {}
  /\ failures = 0

-----------------------------------------------------------------------------
Goto(c, pc) == call' = [call EXCEPT ![c].pc = pc]
Finish(c) == Goto(c, "done")

Unbroken == UNCHANGED failures
Fails == failures < MaxFailures /\ failures' = failures + 1

\* UpdateUser: a change that lifts a block ends it for every waiting request.
Write(u, row) ==
  /\ users' = [users EXCEPT ![u] = row]
  /\ barred' = IF Blocked(row) THEN barred ELSE {c \in barred : call[c].caller # u}

KeepUsers == UNCHANGED <<users, barred>>

Invalidate(ks) == sessions' = [k \in Tokens |-> IF k \in ks /\ sessions[k] = "valid"
                                                THEN "invalid" ELSE sessions[k]]
SessionsOf(u) == {k \in Tokens : Owner(k) = u}

\* InvalidateAllUserSessions; its error is ignored wherever it is called.
RevokeAll(u) ==
  \/ Invalidate(SessionsOf(u)) /\ unrevoked' = unrevoked \ {u} /\ Unbroken
  \/ Fails /\ unrevoked' = unrevoked \cup {u} /\ UNCHANGED sessions

\* A call that changes the status of u begins; d is another that has not ended.
Begins(c, u) ==
  mixed' = IF \E d \in Calls \ {c} : call[d].op \in Changing /\ call[d].user = u
                                      /\ call[d].pc \notin {"idle", "done"}
           THEN mixed \cup {u} ELSE mixed

-----------------------------------------------------------------------------
(* Requests without a session *)

\* GetUserByEmail and the gates of Login: the row read here is the one every
\* later check of the login looks at.
Login(c, u) ==
  /\ call[c].pc = "idle" /\ Exists(u)
  /\ users[u].status \notin LoginBlocked /\ users[u].active
  /\ call' = [call EXCEPT ![c] = [Idle EXCEPT !.pc = "store", !.op = "login", !.user = u,
                                              !.seen = users[u]]]
  /\ UNCHANGED <<users, talents, sessions, ghosts>>

\* The password is compared and the session stored.
IssueSession(c) ==
  LET u == call[c].user IN
  /\ call[c].pc = "store"
  /\ Finish(c)
  /\ \/ /\ sessions' = [sessions EXCEPT ![c] = "valid"]
        /\ late' = IF users[u] = call[c].seen THEN late ELSE late \cup {c}
     \/ UNCHANGED <<sessions, late>>
  /\ UNCHANGED <<users, talents, barred, unrevoked, mixed, parted, failures>>

\* RegisterTalent stores the user; a known email is refused.
Register(c, u) ==
  /\ call[c].pc = "idle" /\ u \in TalentUsers /\ ~Exists(u)
  /\ Write(u, Row("pending", TRUE, "null"))
  /\ call' = [call EXCEPT ![c] = [Idle EXCEPT !.pc = "registered", !.op = "register", !.user = u]]
  /\ Begins(c, u)
  /\ UNCHANGED <<talents, sessions, late, unrevoked, parted, failures>>

\* It then reads the user back and stores the talent: an error leaves a user
\* without a talent, and the email is taken.
CreatePendingTalent(c) ==
  LET u == call[c].user IN
  /\ call[c].pc = "registered"
  /\ Finish(c)
  /\ \/ talents' = [talents EXCEPT ![u] = "pending"] /\ Unbroken /\ UNCHANGED parted
     \/ Fails /\ parted' = parted \cup {u} /\ UNCHANGED talents
  /\ UNCHANGED <<users, sessions, barred, late, unrevoked, mixed>>

\* VerifyInvite finds the user by the open token.
ReadInvite(c, u) ==
  /\ call[c].pc = "idle" /\ Exists(u) /\ users[u].invite = "open"
  /\ call' = [call EXCEPT ![c] = [Idle EXCEPT !.pc = "accept", !.op = "accept", !.user = u]]
  /\ Begins(c, u)
  /\ UNCHANGED <<users, talents, sessions, barred, late, unrevoked, parted, failures>>

\* invite_token is UNIQUE and the accepted token becomes the empty string.
InviteTaken(u) == \E v \in Users \ {u} : Exists(v) /\ users[v].invite = "empty"

\* The error of this update is ignored.
AcceptInvite(c) ==
  LET u == call[c].user IN
  /\ call[c].pc = "accept"
  /\ Goto(c, "activated")
  /\ \/ /\ ~InviteTaken(u)
        /\ Write(u, [users[u] EXCEPT !.status = "active", !.active = TRUE, !.invite = "empty"])
        /\ Unbroken
     \/ InviteTaken(u) /\ KeepUsers /\ Unbroken
     \/ Fails /\ KeepUsers
  /\ UNCHANGED <<talents, sessions, late, unrevoked, mixed, parted>>

\* The user is read again and the client is told "account_activated".
AnswerActivated(c) ==
  /\ call[c].pc = "activated"
  /\ call' = [call EXCEPT ![c].pc = "done", ![c].seen = users[call[c].user]]
  /\ UNCHANGED <<users, talents, sessions, ghosts>>

-----------------------------------------------------------------------------
(* Requests with a session: AuthenticateOptional *)

\* GetSession skips sessions that are invalidated or have expired.
PresentToken(c, k) ==
  /\ call[c].pc = "idle" /\ sessions[k] = "valid"
  /\ call' = [call EXCEPT ![c] = [Idle EXCEPT !.pc = "user", !.op = "use", !.user = k,
                                              !.caller = Owner(k)]]
  /\ barred' = IF Blocked(users[Owner(k)]) THEN barred \cup {c} ELSE barred
  /\ UNCHANGED <<users, talents, sessions, late, unrevoked, mixed, parted, failures>>

\* A session too long idle is invalidated at once.
IdleToken(c, k) ==
  /\ call[c].pc = "idle" /\ sessions[k] = "valid"
  /\ Invalidate({k})
  /\ Finish(c)
  /\ UNCHANGED <<users, talents, ghosts>>

\* A deviation: the session alone decides.
ReadCallerUnchecked(c) ==
  /\ call[c].pc = "user"
  /\ Goto(c, "in")
  /\ UNCHANGED <<users, talents, sessions, ghosts>>

\* The user is read after the session: a blocked one loses it.
ReadCaller(c) ==
  LET row == users[call[c].caller] IN
  /\ call[c].pc = "user"
  /\ \/ ~Blocked(row) /\ Goto(c, "in") /\ UNCHANGED sessions
     \/ /\ Blocked(row) /\ Finish(c)
        /\ Invalidate({call[c].user}) \/ UNCHANGED sessions
  /\ UNCHANGED <<users, talents, ghosts>>

RoleOf(u) == IF u \in Superadmins THEN "superadmin" ELSE IF u \in Staff THEN "admin" ELSE "talent"
IsAdminOrAbove(u) == RoleOf(u) \in {"superadmin", "admin"}

\* The route acts on user u; the caller was read when the request came in.
Serve(c, u, op, pc) ==
  call' = [call EXCEPT ![c] = [@ EXCEPT !.pc = pc, !.op = op, !.user = u, !.seen = Absent]]

\* A read, a role that does not suffice, or a user who does not exist.
ServeOther(c) ==
  /\ call[c].pc = "in"
  /\ Finish(c)
  /\ UNCHANGED <<users, talents, sessions, ghosts>>

\* Logout, and DELETE /settings/sessions.
LogOut(c) ==
  /\ call[c].pc = "in"
  /\ Finish(c)
  /\ Invalidate({call[c].user}) \/ Invalidate(SessionsOf(call[c].caller))
  /\ UNCHANGED <<users, talents, ghosts>>

\* createInvite: CreateUser refuses a known email.
Invite(c, u) ==
  /\ call[c].pc = "in" /\ RoleOf(call[c].caller) = "superadmin"
  /\ u \in Staff /\ ~Exists(u)
  /\ Write(u, Row("invited", FALSE, "open"))
  /\ Finish(c)
  /\ UNCHANGED <<talents, sessions, late, unrevoked, mixed, parted, failures>>

AskUserStatus(c, u) ==
  /\ call[c].pc = "in" /\ IsAdminOrAbove(call[c].caller) /\ Exists(u)
  /\ \E op \in DOMAIN UserOps : Serve(c, u, op, "set")
  /\ Begins(c, u)
  /\ UNCHANGED <<users, talents, sessions, barred, late, unrevoked, parted, failures>>

AskSwitch(c, u) ==
  /\ call[c].pc = "in" /\ IsAdminOrAbove(call[c].caller) /\ Exists(u)
  /\ \E op \in {"switchOn", "switchOff"} : Serve(c, u, op, "patch")
  /\ Begins(c, u)
  /\ UNCHANGED <<users, talents, sessions, barred, late, unrevoked, parted, failures>>

\* resolveTalent finds a talent by its own id or its user's.
AskTalentStatus(c, u) ==
  /\ call[c].pc = "in" /\ IsAdminOrAbove(call[c].caller)
  /\ u \in TalentUsers /\ talents[u] # "absent"
  /\ \E op \in DOMAIN TalentOps : Serve(c, u, op, "talent")
  /\ Begins(c, u)
  /\ UNCHANGED <<users, talents, sessions, barred, late, unrevoked, parted, failures>>

-----------------------------------------------------------------------------
(* setUserStatus *)

\* A deviation: the sessions are left alone.
SetUserStatusOnly(c) ==
  LET u == call[c].user
      status == UserOps[call[c].op] IN
  /\ call[c].pc = "set"
  /\ Write(u, [users[u] EXCEPT !.status = status, !.active = (status = "active"),
                               !.deleted = @ \/ status = "deleted"])
  /\ Goto(c, "sync")
  /\ Unbroken
  /\ UNCHANGED <<talents, sessions, late, unrevoked, mixed, parted>>

SetUserStatus(c) ==
  LET u == call[c].user
      status == UserOps[call[c].op] IN
  /\ call[c].pc = "set"
  /\ \/ /\ Write(u, [users[u] EXCEPT !.status = status, !.active = (status = "active"),
                                     !.deleted = @ \/ status = "deleted"])
        /\ Goto(c, IF status = "active" THEN "sync" ELSE "revoke")
        /\ Unbroken
     \/ Fails /\ KeepUsers /\ Finish(c)
  /\ UNCHANGED <<talents, sessions, late, unrevoked, mixed, parted>>

\* InvalidateAllUserSessions; then the talent of a user whose status was set.
RevokeSessions(c) ==
  /\ call[c].pc = "revoke"
  /\ RevokeAll(call[c].user)
  /\ Goto(c, IF call[c].op \in DOMAIN UserOps THEN "sync" ELSE "done")
  /\ UNCHANGED <<users, talents, barred, late, mixed, parted>>

\* A deviation: the talent's column knows fewer statuses.
TalentStatusAsIs(status) == status

TalentStatusFor(status) == IF status \in {"banned", "deleted"} THEN "suspended" ELSE status

\* A deviation: a status that talents do not have is not passed on.
SyncTalentOfCommon(c) ==
  LET u == call[c].user
      status == UserOps[call[c].op] IN
  /\ call[c].pc = "sync"
  /\ Finish(c)
  /\ talents' = IF u \in TalentUsers /\ talents[u] # "absent" /\ status \in TalentStatuses
                THEN [talents EXCEPT ![u] = status] ELSE talents
  /\ UNCHANGED <<users, sessions, ghosts>>

\* Neither error is looked at.
SyncTalent(c) ==
  LET u == call[c].user IN
  /\ call[c].pc = "sync"
  /\ Finish(c)
  /\ IF u \in TalentUsers /\ talents[u] # "absent"
     THEN \/ /\ talents' = [talents EXCEPT ![u] = TalentStatusFor(UserOps[call[c].op])]
             /\ Unbroken /\ UNCHANGED parted
          \/ Fails /\ parted' = parted \cup {u} /\ UNCHANGED talents
     ELSE UNCHANGED <<talents, parted, failures>>
  /\ UNCHANGED <<users, sessions, barred, late, unrevoked, mixed>>

-----------------------------------------------------------------------------
(* PatchUser of Active *)

ReadPatched(c) ==
  /\ call[c].pc = "patch"
  /\ call' = [call EXCEPT ![c].pc = "patched", ![c].seen = users[call[c].user]]
  /\ UNCHANGED <<users, talents, sessions, ghosts>>

\* A deviation: a banned user stays banned.
SwitchedStatusUnlessBanned(on, status, current) ==
  CASE status = "banned" \/ (on /\ status = "active") -> current
    [] on /\ status = "suspended"                     -> "active"
    [] ~on /\ status \in {"active", "suspended"}      -> "suspended"
    [] OTHER                                          -> "refused"

\* The status that goes with the switch, by the status that was read; "refused"
\* is err_invalid_active_transition.
SwitchedStatus(on, status, current) ==
  CASE on /\ status \in {"suspended", "banned"}       -> "active"
    [] on /\ status = "active"                        -> current
    [] ~on /\ status \in {"active", "suspended"}      -> "suspended"
    [] ~on /\ status = "banned"                       -> current
    [] OTHER                                          -> "refused"

\* The row is written, without the talent's, and read again.
PatchUser(c) ==
  LET u == call[c].user
      on == call[c].op = "switchOn"
      status == SwitchedStatus(on, call[c].seen.status, users[u].status) IN
  /\ call[c].pc = "patched"
  /\ IF status = "refused"
     THEN Finish(c) /\ KeepUsers /\ UNCHANGED <<parted, failures>>
     ELSE \/ /\ Write(u, [users[u] EXCEPT !.status = status, !.active = on])
             /\ parted' = parted \cup {u}
             /\ Goto(c, "settled")
             /\ Unbroken
          \/ Fails /\ KeepUsers /\ Finish(c) /\ UNCHANGED parted
  /\ UNCHANGED <<talents, sessions, late, unrevoked, mixed>>

ReadSettled(c) ==
  LET u == call[c].user IN
  /\ call[c].pc = "settled"
  /\ Goto(c, IF users[u].status # "active" \/ call[c].op = "switchOff" THEN "revoke" ELSE "done")
  /\ UNCHANGED <<users, talents, sessions, ghosts>>

-----------------------------------------------------------------------------
(* ApproveTalent, RejectTalent, SuspendTalent and ReinstateTalent *)

UpdateTalent(c) ==
  LET u == call[c].user IN
  /\ call[c].pc = "talent"
  /\ \/ /\ talents' = [talents EXCEPT ![u] = TalentOps[call[c].op]]
        /\ Goto(c, "syncUser")
        /\ Unbroken
     \/ Fails /\ Finish(c) /\ UNCHANGED talents
  /\ UNCHANGED <<users, sessions, barred, late, unrevoked, mixed, parted>>

\* The talent is read back and a baseline seeded, which may fail and end the
\* call; syncUserStatusFromTalent ignores the error of its update.
SyncUser(c) ==
  LET u == call[c].user
      status == TalentOps[call[c].op] IN
  /\ call[c].pc = "syncUser"
  /\ \/ /\ Write(u, [users[u] EXCEPT !.status = status, !.active = (status = "active")])
        /\ Goto(c, IF status = "active" THEN "done" ELSE "revoke")
        /\ Unbroken /\ UNCHANGED parted
     \/ /\ Fails /\ KeepUsers /\ parted' = parted \cup {u}
        /\ \/ Finish(c)
           \/ Goto(c, IF status = "active" THEN "done" ELSE "revoke")
  /\ UNCHANGED <<talents, sessions, late, unrevoked, mixed>>

-----------------------------------------------------------------------------
Step(c) ==
  \/ IssueSession(c) \/ CreatePendingTalent(c) \/ AcceptInvite(c) \/ AnswerActivated(c)
  \/ ReadCaller(c) \/ ServeOther(c) \/ LogOut(c)
  \/ SetUserStatus(c) \/ RevokeSessions(c) \/ SyncTalent(c)
  \/ ReadPatched(c) \/ PatchUser(c) \/ ReadSettled(c)
  \/ UpdateTalent(c) \/ SyncUser(c)

StepOn(c, u) ==
  \/ Login(c, u) \/ Register(c, u) \/ ReadInvite(c, u)
  \/ Invite(c, u) \/ AskUserStatus(c, u) \/ AskSwitch(c, u) \/ AskTalentStatus(c, u)

Next ==
  \E c \in Calls :
    \/ Step(c)
    \/ \E u \in Users : StepOn(c, u)
    \/ \E k \in Tokens : PresentToken(c, k) \/ IdleToken(c, k)

Spec == Init /\ [][Next]_vars

-----------------------------------------------------------------------------
\* A request is served only if its caller was, at some moment of the request,
\* not blocked: whatever sessions a racing login or a failed update left alive,
\* ValidateSession looks at the user again
\* (internal/src/auth/service.go:435-460).
BarredStayOut == \A c \in barred : call[c].pc \in {"user", "done"}

\* A blocked user keeps a session only if the block is about to revoke it, its
\* revocation failed, or a login that had read the row before stored it
\* afterwards (internal/src/auth/service.go:289, internal/src/admin/service.go:149).
SurvivorNeedsRace ==
  \A k \in Tokens :
    sessions[k] = "valid" /\ Blocked(users[Owner(k)]) =>
      \/ k \in late \/ Owner(k) \in unrevoked
      \/ \E c \in Calls : call[c].user = Owner(k) /\ call[c].pc \in {"revoke", "settled"}

StatusesAgree ==
  \A u \in TalentUsers \ (mixed \cup parted) :
    Exists(u) /\ (\A c \in Calls : call[c].op \in Changing /\ call[c].user = u => call[c].pc = "done")
      => talents[u] = TalentStatusFor(users[u].status)

ActiveFollowsStatus ==
  \A u \in Users \ mixed :
    Exists(u) => users[u].active = (users[u].status \in {"active", "pending"})

\* The three places of a status agree.  Once no call is changing a talent, the
\* user's and the talent's status say the same, unless two calls changed them
\* at a time, a write failed, or the account was switched by PatchUser, which
\* leaves the talent alone.  Active is in sync with Status, except that a
\* pending talent is active, unless PatchUser wrote one of them beside another
\* change of the same user (internal/src/admin/service.go:85-130, 152, 201).
StatusesInStep == StatusesAgree /\ ActiveFollowsStatus

\* "VerifyInvite sets the password from an invite token, activating the
\* account" (internal/src/auth/service.go:145): so the account read back for
\* the answer is active.
ActivatedIsActive ==
  \A c \in Calls :
    call[c].op = "accept" /\ call[c].pc = "done" => call[c].seen.status = "active"
=============================================================================
