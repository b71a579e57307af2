--------------------------- MODULE Accounts_proofs ---------------------------
(***************************************************************************)
(* Proofs about Accounts.                                                  *)
(***************************************************************************)
EXTENDS Accounts, TLAPS

-----------------------------------------------------------------------------
(* What a request is about at each of its steps *)

\* The steps of a request that acts on the row of its user.
OnUser == PCs \ {"idle", "user", "in", "done"}

Switches == {"switchOn", "switchOff"}

CallSound(c) ==
  /\ call[c].pc = "idle" => call[c].op = "none"
  /\ call[c].pc \in {"user", "in"} => call[c].op = "use" /\ call[c].caller \in Users
  /\ call[c].pc = "store" =>
       call[c].op = "login" /\ call[c].seen \in UserRow /\ call[c].seen.status \notin LoginBlocked
  /\ call[c].pc \in {"accept", "activated"} => call[c].op = "accept" /\ call[c].user \in Staff
  /\ call[c].pc = "registered" => call[c].op = "register" /\ call[c].user \in TalentUsers
  /\ call[c].pc \in {"set", "sync"} => call[c].op \in DOMAIN UserOps
  /\ call[c].pc \in {"patch", "patched", "settled"} => call[c].op \in Switches
  /\ call[c].pc = "patched" => call[c].seen \in UserRow
  /\ call[c].pc \in {"talent", "syncUser"} =>
       call[c].op \in DOMAIN TalentOps /\ call[c].user \in TalentUsers
  /\ call[c].pc = "revoke" => call[c].op \in DOMAIN UserOps \cup DOMAIN TalentOps \cup Switches
  /\ call[c].pc \in OnUser => call[c].user \in Users /\ Exists(call[c].user)

CallsSound == \A c \in Calls : CallSound(c)

\* A talent and a session have a user, and the session of a login is stored
\* when the login ends; only staff come by invite.
RowsSound ==
  /\ \A u \in TalentUsers : talents[u] # "absent" => Exists(u)
  /\ \A u \in Users : Exists(u) /\ users[u].invite = "open" => u \in Staff
  /\ \A k \in Users : sessions[k] # "absent" => Exists(k)
  /\ \A k \in Calls : sessions[k] # "absent" =>
       call[k].pc = "done" /\ call[k].user \in Users /\ Exists(call[k].user)

Sound == TypeOK /\ CallsSound /\ RowsSound

-----------------------------------------------------------------------------
(* What the shared parts of the actions do *)

\* No row of an existing user is the absent row.
LEMMA RowsExist == \A row \in UserRow : row # Absent
BY DEF UserRow, Absent, UserStatuses

LEMMA UserRows ==
  ASSUME TypeOK
  PROVE  \A u \in Users : Exists(u) <=> users[u] \in UserRow
BY RowsExist DEF TypeOK, Exists

LEMMA NewRows ==
  /\ \A row \in UserRow, s \in UserStatuses, a \in BOOLEAN, d \in BOOLEAN :
       [row EXCEPT !.status = s, !.active = a, !.deleted = d] \in UserRow
  /\ \A row \in UserRow, s \in UserStatuses, a \in BOOLEAN, i \in {"null", "open", "empty"} :
       [row EXCEPT !.status = s, !.active = a, !.invite = i] \in UserRow
  /\ \A row \in UserRow, s \in UserStatuses, a \in BOOLEAN :
       [row EXCEPT !.status = s, !.active = a] \in UserRow
  /\ \A s \in UserStatuses, a \in BOOLEAN, i \in {"null", "open", "empty"} : Row(s, a, i) \in UserRow
BY DEF UserRow, Row

LEMMA OpStatuses ==
  /\ DOMAIN UserOps = {"suspend", "ban", "reinstate", "delete"}
  /\ DOMAIN TalentOps = {"approve", "rejectTalent", "suspendTalent", "reinstateTalent"}
  /\ \A o \in DOMAIN UserOps : UserOps[o] \in {"suspended", "banned", "active", "deleted"}
  /\ \A o \in DOMAIN TalentOps : TalentOps[o] \in {"active", "rejected", "suspended"}
BY DEF UserOps, TalentOps

\* A request moves on and stays what it is.
LEMMA GotoDoes ==
  ASSUME call \in [Calls -> CallRow], NEW c \in Calls, NEW label \in PCs, Goto(c, label)
  PROVE  /\ call' \in [Calls -> CallRow]
         /\ \A d \in Calls \ {c} : call'[d] = call[d]
         /\ call'[c].pc = label
         /\ call'[c].op = call[c].op
         /\ call'[c].user = call[c].user
         /\ call'[c].caller = call[c].caller
         /\ call'[c].seen = call[c].seen
<1> DEFINE row == [call[c] EXCEPT !.pc = label]
<1>1. call' = [call EXCEPT ![c] = row]
  BY DEF Goto
<1>2. call[c] \in CallRow
  OBVIOUS
<1>3. /\ row \in CallRow
      /\ row.pc = label /\ row.op = call[c].op /\ row.user = call[c].user
      /\ row.caller = call[c].caller /\ row.seen = call[c].seen
  BY <1>2 DEF CallRow
<1> HIDE DEF row
<1>4. QED
  BY <1>1, <1>3

\* A row is written, and nobody loses their row.
LEMMA WriteDoes ==
  ASSUME TypeOK, NEW u \in Users, NEW row \in UserRow, Write(u, row)
  PROVE  /\ users' \in [Users -> UserRow \cup {Absent}]
         /\ users'[u] = row /\ Exists(u)'
         /\ \A v \in Users \ {u} : users'[v] = users[v]
         /\ barred' \subseteq barred
         /\ \A v \in Users : Exists(v) => Exists(v)'
<1>1. users' = [users EXCEPT ![u] = row]
  BY DEF Write
<1>2. users' \in [Users -> UserRow \cup {Absent}] /\ users'[u] = row
  BY <1>1 DEF TypeOK
<1>3. \A v \in Users \ {u} : users'[v] = users[v]
  BY <1>1 DEF TypeOK
<1>4. Exists(u)'
  BY <1>2, RowsExist DEF Exists
<1>5. \A v \in Users : Exists(v) => Exists(v)'
  BY <1>3, <1>4 DEF Exists
<1>6. barred' \subseteq barred
  BY DEF Write
<1>7. QED
  BY <1>2, <1>3, <1>4, <1>5, <1>6

\* A session that is invalidated is not forgotten.
LEMMA InvalidateDoes ==
  ASSUME TypeOK, NEW ks, Invalidate(ks)
  PROVE  /\ sessions' \in [Tokens -> {"absent", "valid", "invalid"}]
         /\ \A k \in Tokens : sessions'[k] = "absent" <=> sessions[k] = "absent"
         /\ \A k \in Tokens : sessions'[k] = "valid" => sessions[k] = "valid" /\ k \notin ks
BY DEF TypeOK, Invalidate

\* The users whom two calls change are remembered.
LEMMA BeginsDoes ==
  ASSUME TypeOK, NEW c \in Calls, NEW u \in Users, Begins(c, u)
  PROVE  /\ mixed' \subseteq Users /\ mixed \subseteq mixed' /\ mixed' \subseteq mixed \cup {u}
         /\ u \notin mixed' => \A d \in Calls \ {c} :
              ~(call[d].op \in Changing /\ call[d].user = u /\ call[d].pc \notin {"idle", "done"})
BY DEF TypeOK, Begins

LEMMA RevokeDoes ==
  ASSUME TypeOK, NEW u \in Users, RevokeAll(u)
  PROVE  /\ sessions' \in [Tokens -> {"absent", "valid", "invalid"}]
         /\ \A k \in Tokens : sessions'[k] = "absent" <=> sessions[k] = "absent"
         /\ \A k \in Tokens : sessions'[k] = "valid" => sessions[k] = "valid"
         /\ unrevoked' \subseteq Users
         /\ \A v \in Users \ {u} : v \in unrevoked' <=> v \in unrevoked
         /\ u \in unrevoked' \/ \A k \in Tokens : Owner(k) = u => sessions'[k] # "valid"
         /\ failures' \in 0..MaxFailures
<1>1. CASE Invalidate(SessionsOf(u)) /\ unrevoked' = unrevoked \ {u} /\ Unbroken
  BY <1>1, InvalidateDoes DEF TypeOK, SessionsOf, Unbroken
<1>2. CASE Fails /\ unrevoked' = unrevoked \cup {u} /\ UNCHANGED sessions
  BY <1>2, AccountsAssumption DEF TypeOK, Fails
<1>3. QED
  BY <1>1, <1>2 DEF RevokeAll

-----------------------------------------------------------------------------
(* The types, and what each step of a request finds *)

\* What is left to show of a step of request c once its own part is known.
LEMMA SoundAgain ==
  ASSUME Sound, TypeOK', NEW c \in Calls, call[c].pc # "done",
         \A d \in Calls \ {c} : call'[d] = call[d],
         \A v \in Users : Exists(v) => Exists(v)',
         \A v \in Users : users'[v] = users[v] \/ users'[v].invite # "open" \/ v \in Staff,
         \A v \in TalentUsers : talents'[v] # "absent" => talents[v] # "absent" \/ Exists(v),
         \A k \in Tokens \ {c} : sessions'[k] # "absent" => sessions[k] # "absent",
         sessions'[c] = sessions[c] \/ (call[c].pc = "store" /\ call'[c].pc = "done"
                                        /\ call'[c].user = call[c].user),
         CallSound(c)'
  PROVE  Sound'
<1>1. \A d \in Calls \ {c} : CallSound(d)'
  <2> TAKE d \in Calls \ {c}
  <2>1. CallSound(d) /\ call'[d] = call[d]
    BY DEF Sound, CallsSound
  <2>2. call[d].pc \in OnUser => call[d].user \in Users /\ Exists(call[d].user)'
    BY <2>1 DEF CallSound
  <2>3. QED
    BY <2>1, <2>2 DEF CallSound, Exists
<1>2. CallsSound'
  BY <1>1 DEF CallsSound
<1>3. \A u \in TalentUsers : talents'[u] # "absent" => Exists(u)'
  BY DEF Sound, RowsSound, Users
<1>4. \A u \in Users : Exists(u)' /\ users'[u].invite = "open" => u \in Staff
  BY DEF Sound, RowsSound, Exists
<1>5. \A k \in Users : sessions'[k] # "absent" => Exists(k)'
  BY AccountsAssumption DEF Sound, RowsSound, Tokens
<1>6. (\A k \in Calls : sessions[k] # "absent" =>
         call[k].pc = "done" /\ call[k].user \in Users /\ Exists(call[k].user))'
  <2> SUFFICES ASSUME NEW k \in Calls, sessions'[k] # "absent"
               PROVE  (call[k].pc = "done" /\ call[k].user \in Users /\ Exists(call[k].user))'
    OBVIOUS
  <2>1. CASE k = c
    <3>1. sessions[c] = "absent"
      BY DEF Sound, RowsSound
    <3>2. call[c].pc = "store" /\ call'[c].pc = "done" /\ call'[c].user = call[c].user
      BY <2>1, <3>1
    <3>3. call[c].user \in Users /\ Exists(call[c].user)
      BY <3>2 DEF Sound, CallsSound, CallSound, OnUser, PCs
    <3>4. QED
      BY <2>1, <3>2, <3>3 DEF Exists
  <2>2. CASE k # c
    <3>1. sessions[k] # "absent" /\ call'[k] = call[k]
      BY <2>2 DEF Tokens
    <3>2. call[k].pc = "done" /\ call[k].user \in Users /\ Exists(call[k].user)
      BY <3>1 DEF Sound, RowsSound
    <3>3. QED
      BY <3>1, <3>2 DEF Exists
  <2>3. QED
    BY <2>1, <2>2
<1>7. RowsSound'
  BY <1>3, <1>4, <1>5, <1>6 DEF RowsSound
<1>8. QED
  BY <1>2, <1>7 DEF Sound

LEMMA InitSound == Init => Sound
<1> SUFFICES ASSUME Init PROVE Sound
  OBVIOUS
<1>1. \A u \in Users : users[u] \in UserRow \cup {Absent}
  <2>1. {Row("active", TRUE, "null"), Row("pending", TRUE, "null"), Row("invited", FALSE, "open")}
          \subseteq UserRow
    BY NewRows DEF UserStatuses
  <2>2. QED
    BY <2>1 DEF Init
<1>2. users \in [Users -> UserRow \cup {Absent}]
  BY <1>1 DEF Init
<1>3. talents \in [TalentUsers -> TalentStatuses \cup {"absent"}]
  <2>1. \A u \in TalentUsers : users[u].status \in {"absent", "active", "pending"}
    BY DEF Init, Row, Absent, Users
  <2>2. QED
    BY <2>1 DEF Init, TalentStatuses
<1>4. sessions \in [Tokens -> {"absent", "valid", "invalid"}]
  BY DEF Init
<1>5. Idle \in CallRow
  BY DEF Idle, CallRow, PCs
<1>6. call \in [Calls -> CallRow] /\ \A c \in Calls : call[c] = Idle
  BY <1>5 DEF Init
<1>7. TypeOK
  BY <1>2, <1>3, <1>4, <1>6, AccountsAssumption DEF Init, TypeOK
<1>8. CallsSound
  BY <1>6 DEF CallsSound, CallSound, Idle, OnUser
<1>9. \A u \in TalentUsers : talents[u] # "absent" => Exists(u)
  BY DEF Init, Absent, Exists, Users
<1>10. \A u \in Users : Exists(u) /\ users[u].invite = "open" => u \in Staff
  BY DEF Init, Row, Exists, Users
<1>11. \A k \in Tokens : sessions[k] # "absent" => k \in Users /\ Exists(k)
  BY DEF Init, Absent, Exists
<1>12. QED
  <2>1. \A k \in Users : sessions[k] # "absent" => Exists(k)
    BY <1>11 DEF Tokens
  <2>2. \A k \in Calls : sessions[k] = "absent"
    BY <1>11, AccountsAssumption DEF Tokens
  <2>3. RowsSound
    BY <1>9, <1>10, <2>1, <2>2 DEF RowsSound
  <2>4. QED
    BY <1>7, <1>8, <2>3 DEF Sound

\* The record of a request is written.
LEMMA CallSet ==
  ASSUME call \in [Calls -> CallRow], NEW c \in Calls, NEW row \in CallRow,
         call' = [call EXCEPT ![c] = row]
  PROVE  /\ call' \in [Calls -> CallRow]
         /\ call'[c] = row
         /\ \A d \in Calls \ {c} : call'[d] = call[d]
OBVIOUS

LEMMA LoginSound ==
  ASSUME Sound, NEW c \in Calls, NEW u \in Users, Login(c, u)
  PROVE  Sound'
<1> DEFINE row == [Idle EXCEPT !.pc = "store", !.op = "login", !.user = u, !.seen = users[u]]
<1>1. users[u] \in UserRow
  BY UserRows DEF Sound, Login
<1>2. /\ row \in CallRow
      /\ row.pc = "store" /\ row.op = "login" /\ row.user = u /\ row.seen = users[u]
  BY <1>1 DEF Idle, CallRow, PCs, Tokens
<1>3. call' = [call EXCEPT ![c] = row] /\ call[c].pc = "idle"
  BY DEF Login
<1> HIDE DEF row
<1>4. call \in [Calls -> CallRow]
  BY DEF Sound, TypeOK
<1>5. /\ call' \in [Calls -> CallRow] /\ call'[c] = row
      /\ \A d \in Calls \ {c} : call'[d] = call[d]
  BY <1>2, <1>3, <1>4, CallSet
<1>6. UNCHANGED <<users, talents, sessions, ghosts>>
  BY DEF Login
<1>7. CallSound(c)'
  BY <1>1, <1>2, <1>5, <1>6 DEF CallSound, Login, Exists, OnUser, PCs
<1>8. TypeOK'
  BY <1>5, <1>6 DEF Sound, TypeOK, ghosts
<1>9. QED
  BY <1>3, <1>5, <1>6, <1>7, <1>8, SoundAgain DEF Exists

LEMMA IssueSessionSound ==
  ASSUME Sound, NEW c \in Calls, IssueSession(c)
  PROVE  Sound'
<1>1. TypeOK /\ CallSound(c) /\ call[c].pc = "store"
  BY DEF Sound, CallsSound, IssueSession
<1>2. /\ call' \in [Calls -> CallRow]
      /\ \A d \in Calls \ {c} : call'[d] = call[d]
      /\ call'[c].pc = "done" /\ call'[c].user = call[c].user
  BY <1>1, GotoDoes DEF IssueSession, Finish, TypeOK, PCs
<1>3. UNCHANGED <<users, talents, barred, unrevoked, mixed, parted, failures>>
  BY DEF IssueSession
<1>4. /\ sessions' \in [Tokens -> {"absent", "valid", "invalid"}]
      /\ \A k \in Tokens \ {c} : sessions'[k] = sessions[k]
      /\ late' \subseteq Tokens
  BY <1>1 DEF IssueSession, TypeOK, Tokens
<1>5. TypeOK'
  BY <1>1, <1>2, <1>3, <1>4 DEF TypeOK
<1>6. CallSound(c)'
  BY <1>2 DEF CallSound, OnUser
<1>7. QED
  BY <1>1, <1>2, <1>3, <1>4, <1>5, <1>6, SoundAgain DEF Exists

LEMMA RegisterSound ==
  ASSUME Sound, NEW c \in Calls, NEW u \in Users, Register(c, u)
  PROVE  Sound'
<1> DEFINE row == [Idle EXCEPT !.pc = "registered", !.op = "register", !.user = u]
<1>1. TypeOK /\ u \in TalentUsers /\ call[c].pc = "idle"
  BY DEF Sound, Register
<1>2. row \in CallRow /\ row.pc = "registered" /\ row.op = "register" /\ row.user = u
  BY DEF Idle, CallRow, PCs, Tokens, Changing
<1>3. call' = [call EXCEPT ![c] = row]
  BY DEF Register
<1> HIDE DEF row
<1>4. /\ call' \in [Calls -> CallRow] /\ call'[c] = row
      /\ \A d \in Calls \ {c} : call'[d] = call[d]
  BY <1>1, <1>2, <1>3, CallSet DEF TypeOK
<1>5. Row("pending", TRUE, "null") \in UserRow /\ Row("pending", TRUE, "null").invite = "null"
  BY NewRows DEF UserStatuses, Row
<1>6. /\ users' \in [Users -> UserRow \cup {Absent}] /\ barred' \subseteq barred
      /\ users'[u] = Row("pending", TRUE, "null") /\ Exists(u)'
      /\ \A v \in Users \ {u} : users'[v] = users[v]
      /\ \A v \in Users : Exists(v) => Exists(v)'
  BY <1>1, <1>5, WriteDoes DEF Register
<1>7. mixed' \subseteq Users
  BY <1>1, BeginsDoes DEF Register
<1>8. UNCHANGED <<talents, sessions, late, unrevoked, parted, failures>>
  BY DEF Register
<1>9. TypeOK'
  BY <1>1, <1>4, <1>6, <1>7, <1>8 DEF TypeOK
<1>10. CallSound(c)'
  BY <1>1, <1>2, <1>4, <1>6 DEF CallSound
<1>11. QED
  BY <1>1, <1>4, <1>5, <1>6, <1>8, <1>9, <1>10, SoundAgain

LEMMA CreatePendingTalentSound ==
  ASSUME Sound, NEW c \in Calls, CreatePendingTalent(c)
  PROVE  Sound'
<1>1. TypeOK /\ call[c].pc = "registered" /\ call[c].user \in TalentUsers /\ Exists(call[c].user)
  BY DEF Sound, CallsSound, CallSound, CreatePendingTalent, OnUser, PCs
<1>2. /\ call' \in [Calls -> CallRow]
      /\ \A d \in Calls \ {c} : call'[d] = call[d]
      /\ call'[c].pc = "done"
  BY <1>1, GotoDoes DEF CreatePendingTalent, Finish, TypeOK, PCs
<1>3. /\ talents' \in [TalentUsers -> TalentStatuses \cup {"absent"}]
      /\ \A v \in TalentUsers : talents'[v] = talents[v] \/ v = call[c].user
      /\ parted' \subseteq Users /\ failures' \in 0..MaxFailures
  BY <1>1, AccountsAssumption DEF CreatePendingTalent, TypeOK, TalentStatuses, Fails, Unbroken, Users
<1>4. UNCHANGED <<users, sessions, barred, late, unrevoked, mixed>>
  BY DEF CreatePendingTalent
<1>5. TypeOK'
  BY <1>1, <1>2, <1>3, <1>4 DEF TypeOK
<1>6. CallSound(c)'
  BY <1>2 DEF CallSound, OnUser
<1>7. QED
  BY <1>1, <1>2, <1>3, <1>4, <1>5, <1>6, SoundAgain DEF Exists

LEMMA ReadInviteSound ==
  ASSUME Sound, NEW c \in Calls, NEW u \in Users, ReadInvite(c, u)
  PROVE  Sound'
<1> DEFINE row == [Idle EXCEPT !.pc = "accept", !.op = "accept", !.user = u]
<1>1. TypeOK /\ u \in Staff /\ Exists(u) /\ call[c].pc = "idle"
  BY DEF Sound, RowsSound, ReadInvite
<1>2. row \in CallRow /\ row.pc = "accept" /\ row.op = "accept" /\ row.user = u
  BY DEF Idle, CallRow, PCs, Tokens, Changing
<1>3. call' = [call EXCEPT ![c] = row]
  BY DEF ReadInvite
<1> HIDE DEF row
<1>4. /\ call' \in [Calls -> CallRow] /\ call'[c] = row
      /\ \A d \in Calls \ {c} : call'[d] = call[d]
  BY <1>1, <1>2, <1>3, CallSet DEF TypeOK
<1>5. mixed' \subseteq Users
  BY <1>1, BeginsDoes DEF ReadInvite
<1>6. UNCHANGED <<users, talents, sessions, barred, late, unrevoked, parted, failures>>
  BY DEF ReadInvite
<1>7. TypeOK'
  BY <1>1, <1>4, <1>5, <1>6 DEF TypeOK
<1>8. CallSound(c)'
  BY <1>1, <1>2, <1>4, <1>6 DEF CallSound, Exists
<1>9. QED
  BY <1>1, <1>4, <1>6, <1>7, <1>8, SoundAgain DEF Exists

LEMMA AcceptInviteSound ==
  ASSUME Sound, NEW c \in Calls, AcceptInvite(c)
  PROVE  Sound'
<1> DEFINE u == call[c].user
           row == [users[u] EXCEPT !.status = "active", !.active = TRUE, !.invite = "empty"]
<1>1. /\ TypeOK /\ CallSound(c) /\ call[c].pc = "accept" /\ call[c].op = "accept"
      /\ u \in Staff /\ u \in Users /\ Exists(u)
  BY DEF Sound, CallsSound, CallSound, AcceptInvite, OnUser, PCs
<1>2. /\ call' \in [Calls -> CallRow]
      /\ \A d \in Calls \ {c} : call'[d] = call[d]
      /\ call'[c].pc = "activated" /\ call'[c].op = "accept" /\ call'[c].user = u
  BY <1>1, GotoDoes DEF AcceptInvite, TypeOK, PCs
<1>3. row \in UserRow
  BY <1>1, UserRows, NewRows DEF UserStatuses
<1>4. (Write(u, row) /\ Unbroken) \/ (KeepUsers /\ Unbroken) \/ (KeepUsers /\ Fails)
  BY DEF AcceptInvite
<1>5. failures' \in 0..MaxFailures
  BY <1>1, <1>4, AccountsAssumption DEF TypeOK, Unbroken, Fails
<1> HIDE DEF u, row
<1>6. /\ users' \in [Users -> UserRow \cup {Absent}] /\ barred' \subseteq barred
      /\ \A v \in Users \ {u} : users'[v] = users[v]
      /\ \A v \in Users : Exists(v) => Exists(v)'
  BY <1>1, <1>3, <1>4, WriteDoes DEF KeepUsers, Exists, TypeOK
<1>7. UNCHANGED <<talents, sessions, late, unrevoked, mixed, parted>>
  BY DEF AcceptInvite
<1>8. TypeOK'
  BY <1>1, <1>2, <1>5, <1>6, <1>7 DEF TypeOK
<1>9. CallSound(c)'
  BY <1>1, <1>2, <1>6 DEF CallSound, Exists
<1>10. QED
  BY <1>1, <1>2, <1>6, <1>7, <1>8, <1>9, SoundAgain

LEMMA AnswerActivatedSound ==
  ASSUME Sound, NEW c \in Calls, AnswerActivated(c)
  PROVE  Sound'
<1> DEFINE row == [call[c] EXCEPT !.pc = "done", !.seen = users[call[c].user]]
<1>1. TypeOK /\ call[c].pc = "activated" /\ call[c] \in CallRow /\ call[c].user \in Users
  BY DEF Sound, TypeOK, CallsSound, CallSound, AnswerActivated, OnUser, PCs
<1>2. users[call[c].user] \in UserRow \cup {Absent}
  BY <1>1 DEF TypeOK
<1>3. row \in CallRow /\ row.pc = "done" /\ row.user = call[c].user
  BY <1>1, <1>2 DEF CallRow, PCs
<1>4. call' = [call EXCEPT ![c] = row]
  BY DEF AnswerActivated
<1> HIDE DEF row
<1>5. /\ call' \in [Calls -> CallRow] /\ call'[c] = row
      /\ \A d \in Calls \ {c} : call'[d] = call[d]
  BY <1>1, <1>3, <1>4, CallSet DEF TypeOK
<1>6. UNCHANGED <<users, talents, sessions, ghosts>>
  BY DEF AnswerActivated
<1>7. TypeOK'
  BY <1>1, <1>5, <1>6 DEF TypeOK, ghosts
<1>8. CallSound(c)'
  BY <1>3, <1>5 DEF CallSound, OnUser
<1>9. QED
  BY <1>1, <1>5, <1>6, <1>7, <1>8, SoundAgain DEF Exists

\* A session that was ever stored belongs to a user.
LEMMA OwnerIsUser ==
  ASSUME Sound, NEW k \in Tokens, sessions[k] # "absent"
  PROVE  Owner(k) \in Users /\ Exists(Owner(k))
BY AccountsAssumption DEF Sound, RowsSound, Tokens, Owner

LEMMA PresentTokenSound ==
  ASSUME Sound, NEW c \in Calls, NEW k \in Tokens, PresentToken(c, k)
  PROVE  Sound'
<1> DEFINE row == [Idle EXCEPT !.pc = "user", !.op = "use", !.user = k, !.caller = Owner(k)]
<1>1. TypeOK /\ Owner(k) \in Users /\ call[c].pc = "idle"
  BY OwnerIsUser DEF Sound, PresentToken
<1>2. row \in CallRow /\ row.pc = "user" /\ row.op = "use" /\ row.caller = Owner(k)
  BY <1>1 DEF Idle, CallRow, PCs
<1>3. call' = [call EXCEPT ![c] = row]
  BY DEF PresentToken
<1> HIDE DEF row
<1>4. /\ call' \in [Calls -> CallRow] /\ call'[c] = row
      /\ \A d \in Calls \ {c} : call'[d] = call[d]
  BY <1>1, <1>2, <1>3, CallSet DEF TypeOK
<1>5. UNCHANGED <<users, talents, sessions, late, unrevoked, mixed, parted, failures>>
  BY DEF PresentToken
<1>6. barred' \subseteq Calls
  BY <1>1 DEF PresentToken, TypeOK
<1>7. TypeOK'
  BY <1>1, <1>4, <1>5, <1>6 DEF TypeOK
<1>8. CallSound(c)'
  BY <1>1, <1>2, <1>4 DEF CallSound, OnUser
<1>9. QED
  BY <1>1, <1>4, <1>5, <1>7, <1>8, SoundAgain DEF Exists

\* The steps that end a request, and may invalidate sessions.
LEMMA EndsSound ==
  ASSUME Sound, NEW c \in Calls, call[c].pc # "done", Finish(c),
         sessions' \in [Tokens -> {"absent", "valid", "invalid"}],
         \A k \in Tokens : sessions'[k] # "absent" => sessions[k] # "absent",
         sessions'[c] # "absent" => sessions[c] # "absent",
         UNCHANGED <<users, talents, ghosts>>
  PROVE  Sound'
<1>1. TypeOK
  BY DEF Sound
<1>2. /\ call' \in [Calls -> CallRow]
      /\ \A d \in Calls \ {c} : call'[d] = call[d]
      /\ call'[c].pc = "done"
  BY <1>1, GotoDoes DEF Finish, TypeOK, PCs
<1>3. TypeOK'
  BY <1>1, <1>2 DEF TypeOK, ghosts
<1>4. CallSound(c)'
  BY <1>2 DEF CallSound, OnUser
<1>5. sessions[c] = "absent" /\ sessions'[c] = "absent"
  BY DEF Sound, RowsSound
<1>6. QED
  BY <1>1, <1>2, <1>3, <1>4, <1>5, SoundAgain DEF Exists

LEMMA IdleTokenSound ==
  ASSUME Sound, NEW c \in Calls, NEW k \in Tokens, IdleToken(c, k)
  PROVE  Sound'
<1>1. TypeOK /\ c \in Tokens
  BY DEF Sound, Tokens
<1>2. QED
  BY <1>1, InvalidateDoes, EndsSound DEF IdleToken

LEMMA ReadCallerSound ==
  ASSUME Sound, NEW c \in Calls, ReadCaller(c)
  PROVE  Sound'
<1>1. TypeOK /\ CallSound(c) /\ call[c].pc = "user" /\ c \in Tokens
  BY DEF Sound, CallsSound, ReadCaller, Tokens
<1>2. CASE Goto(c, "in") /\ UNCHANGED sessions
  <2>1. /\ call' \in [Calls -> CallRow]
        /\ \A d \in Calls \ {c} : call'[d] = call[d]
        /\ call'[c].pc = "in" /\ call'[c].op = call[c].op /\ call'[c].caller = call[c].caller
    BY <1>1, <1>2, GotoDoes DEF TypeOK, PCs
  <2>2. UNCHANGED <<users, talents, sessions, ghosts>>
    BY <1>2 DEF ReadCaller
  <2>3. TypeOK'
    BY <1>1, <2>1, <2>2 DEF TypeOK, ghosts
  <2>4. CallSound(c)'
    BY <1>1, <2>1 DEF CallSound, OnUser
  <2>5. QED
    BY <1>1, <2>1, <2>2, <2>3, <2>4, SoundAgain DEF Exists
<1>3. CASE Finish(c) /\ (Invalidate({call[c].user}) \/ UNCHANGED sessions)
  <2>1. UNCHANGED <<users, talents, ghosts>>
    BY DEF ReadCaller
  <2>2. /\ sessions' \in [Tokens -> {"absent", "valid", "invalid"}]
        /\ \A k \in Tokens : sessions'[k] # "absent" => sessions[k] # "absent"
    BY <1>1, <1>3, InvalidateDoes DEF TypeOK
  <2>3. QED
    BY <1>1, <1>3, <2>1, <2>2, EndsSound
<1>4. QED
  BY <1>2, <1>3 DEF ReadCaller

LEMMA ServeOtherSound ==
  ASSUME Sound, NEW c \in Calls, ServeOther(c)
  PROVE  Sound'
BY EndsSound DEF ServeOther, Sound, TypeOK

LEMMA LogOutSound ==
  ASSUME Sound, NEW c \in Calls, LogOut(c)
  PROVE  Sound'
<1>1. TypeOK /\ c \in Tokens
  BY DEF Sound, Tokens
<1>2. /\ sessions' \in [Tokens -> {"absent", "valid", "invalid"}]
      /\ \A k \in Tokens : sessions'[k] # "absent" => sessions[k] # "absent"
  BY <1>1, InvalidateDoes DEF LogOut
<1>3. QED
  BY <1>1, <1>2, EndsSound DEF LogOut

LEMMA InviteSound ==
  ASSUME Sound, NEW c \in Calls, NEW u \in Users, Invite(c, u)
  PROVE  Sound'
<1>1. TypeOK /\ call[c].pc = "in" /\ u \in Staff
  BY DEF Sound, Invite
<1>2. /\ call' \in [Calls -> CallRow]
      /\ \A d \in Calls \ {c} : call'[d] = call[d]
      /\ call'[c].pc = "done"
  BY <1>1, GotoDoes DEF Invite, Finish, TypeOK, PCs
<1>3. Row("invited", FALSE, "open") \in UserRow
  BY NewRows DEF UserStatuses
<1>4. /\ users' \in [Users -> UserRow \cup {Absent}] /\ barred' \subseteq barred
      /\ \A v \in Users \ {u} : users'[v] = users[v]
      /\ \A v \in Users : Exists(v) => Exists(v)'
  BY <1>1, <1>3, WriteDoes DEF Invite
<1>5. UNCHANGED <<talents, sessions, late, unrevoked, mixed, parted, failures>>
  BY DEF Invite
<1>6. TypeOK'
  BY <1>1, <1>2, <1>4, <1>5 DEF TypeOK
<1>7. CallSound(c)'
  BY <1>2 DEF CallSound, OnUser
<1>8. QED
  BY <1>1, <1>2, <1>4, <1>5, <1>6, <1>7, SoundAgain

\* The route of a request is known: what it will do, and to whom.
LEMMA ServeDoes ==
  ASSUME call \in [Calls -> CallRow], NEW c \in Calls, NEW u \in Users,
         NEW op \in Changing, NEW label \in PCs, Serve(c, u, op, label)
  PROVE  /\ call' \in [Calls -> CallRow]
         /\ \A d \in Calls \ {c} : call'[d] = call[d]
         /\ call'[c].pc = label /\ call'[c].op = op /\ call'[c].user = u
         /\ call'[c].caller = call[c].caller
<1> DEFINE row == [call[c] EXCEPT !.pc = label, !.op = op, !.user = u, !.seen = Absent]
<1>1. call[c] \in CallRow
  OBVIOUS
<1>2. /\ row \in CallRow /\ row.pc = label /\ row.op = op /\ row.user = u
      /\ row.caller = call[c].caller
  BY <1>1 DEF CallRow, Tokens
<1>3. call' = [call EXCEPT ![c] = row]
  BY DEF Serve
<1> HIDE DEF row
<1>4. QED
  BY <1>2, <1>3, CallSet

LEMMA AskSound ==
  ASSUME Sound, NEW c \in Calls, NEW u \in Users, NEW op \in Changing, NEW label \in PCs,
         call[c].pc = "in", Exists(u), Serve(c, u, op, label), Begins(c, u),
         \/ label = "set" /\ op \in DOMAIN UserOps
         \/ label = "patch" /\ op \in Switches
         \/ label = "talent" /\ op \in DOMAIN TalentOps /\ u \in TalentUsers,
         UNCHANGED <<users, talents, sessions, barred, late, unrevoked, parted, failures>>
  PROVE  Sound'
<1>1. TypeOK
  BY DEF Sound
<1>2. /\ call' \in [Calls -> CallRow]
      /\ \A d \in Calls \ {c} : call'[d] = call[d]
      /\ call'[c].pc = label /\ call'[c].op = op /\ call'[c].user = u
  BY <1>1, ServeDoes DEF TypeOK
<1>3. mixed' \subseteq Users
  BY <1>1, BeginsDoes
<1>4. TypeOK'
  BY <1>1, <1>2, <1>3 DEF TypeOK
<1>5. CallSound(c)'
  BY <1>2 DEF CallSound, Exists
<1>6. QED
  BY <1>1, <1>2, <1>4, <1>5, SoundAgain DEF Exists

LEMMA AskUserStatusSound ==
  ASSUME Sound, NEW c \in Calls, NEW u \in Users, AskUserStatus(c, u)
  PROVE  Sound'
<1>1. PICK op \in DOMAIN UserOps : Serve(c, u, op, "set")
  BY DEF AskUserStatus
<1>2. op \in Changing /\ "set" \in PCs
  BY DEF Changing, PCs
<1>3. QED
  BY <1>1, <1>2, AskSound DEF AskUserStatus

LEMMA AskSwitchSound ==
  ASSUME Sound, NEW c \in Calls, NEW u \in Users, AskSwitch(c, u)
  PROVE  Sound'
<1>1. PICK op \in Switches : Serve(c, u, op, "patch")
  BY DEF AskSwitch, Switches
<1>2. op \in Changing /\ "patch" \in PCs
  BY DEF Changing, Switches, PCs
<1>3. QED
  BY <1>1, <1>2, AskSound DEF AskSwitch

LEMMA AskTalentStatusSound ==
  ASSUME Sound, NEW c \in Calls, NEW u \in Users, AskTalentStatus(c, u)
  PROVE  Sound'
<1>1. PICK op \in DOMAIN TalentOps : Serve(c, u, op, "talent")
  BY DEF AskTalentStatus
<1>2. op \in Changing /\ "talent" \in PCs
  BY DEF Changing, PCs
<1>3. Exists(u) /\ u \in TalentUsers
  BY DEF AskTalentStatus, Sound, RowsSound
<1>4. QED
  BY <1>1, <1>2, <1>3, AskSound DEF AskTalentStatus

\* A step of a request on the row of its user: it goes on, and the row may be
\* written with an invite that is as it was.
LEMMA RowStepSound ==
  ASSUME Sound, NEW c \in Calls, call[c].pc \in OnUser,
         NEW label \in PCs, Goto(c, label), CallSound(c)',
         NEW row \in UserRow, row.invite = users[call[c].user].invite,
         Write(call[c].user, row) \/ KeepUsers,
         talents' \in [TalentUsers -> TalentStatuses \cup {"absent"}],
         \A v \in TalentUsers : talents'[v] = talents[v] \/ v = call[c].user,
         UNCHANGED sessions, parted' \subseteq Users, failures' \in 0..MaxFailures,
         UNCHANGED <<late, unrevoked, mixed>>
  PROVE  Sound'
<1> DEFINE u == call[c].user
<1>1. TypeOK /\ u \in Users /\ Exists(u) /\ call[c].pc # "done"
  BY DEF Sound, CallsSound, CallSound, OnUser
<1>2. /\ call' \in [Calls -> CallRow]
      /\ \A d \in Calls \ {c} : call'[d] = call[d]
  BY <1>1, GotoDoes DEF TypeOK
<1>3. Write(u, row) \/ KeepUsers
  OBVIOUS
<1>4. \A v \in TalentUsers : talents'[v] = talents[v] \/ v = u
  OBVIOUS
<1>5. row.invite = users[u].invite
  OBVIOUS
<1> HIDE DEF u
<1>6. /\ users' \in [Users -> UserRow \cup {Absent}] /\ barred' \subseteq barred
      /\ \A v \in Users \ {u} : users'[v] = users[v]
      /\ users'[u] = row \/ users'[u] = users[u]
      /\ \A v \in Users : Exists(v) => Exists(v)'
  BY <1>1, <1>3, WriteDoes DEF KeepUsers, Exists, TypeOK
<1>7. \A v \in Users : users'[v] = users[v] \/ users'[v].invite # "open" \/ v \in Staff
  <2>1. users[u].invite # "open" \/ u \in Staff
    BY <1>1 DEF Sound, RowsSound
  <2>2. QED
    BY <1>5, <1>6, <2>1
<1>8. TypeOK'
  BY <1>1, <1>2, <1>6 DEF TypeOK
<1>9. QED
  BY <1>1, <1>2, <1>4, <1>6, <1>7, <1>8, SoundAgain

LEMMA SetUserStatusSound ==
  ASSUME Sound, NEW c \in Calls, SetUserStatus(c)
  PROVE  Sound'
<1> DEFINE u == call[c].user
           status == UserOps[call[c].op]
           row == [users[u] EXCEPT !.status = status, !.active = (status = "active"),
                                   !.deleted = @ \/ status = "deleted"]
           label == IF status = "active" THEN "sync" ELSE "revoke"
<1>1. /\ TypeOK /\ call[c].pc = "set" /\ call[c].op \in DOMAIN UserOps
      /\ u \in Users /\ Exists(u) /\ users[u] \in UserRow
  BY UserRows DEF Sound, CallsSound, CallSound, SetUserStatus, OnUser, PCs
<1>2. status \in UserStatuses
  BY <1>1, OpStatuses DEF UserStatuses
<1>3. row \in UserRow /\ row.invite = users[u].invite
  BY <1>1, <1>2 DEF UserRow
<1>4. /\ (Write(u, row) /\ Goto(c, label) /\ Unbroken) \/ (Fails /\ KeepUsers /\ Goto(c, "done"))
      /\ UNCHANGED <<talents, sessions, late, unrevoked, mixed, parted>>
  BY DEF SetUserStatus, Finish
<1> HIDE DEF row
<1>5. /\ talents' \in [TalentUsers -> TalentStatuses \cup {"absent"}]
      /\ \A v \in TalentUsers : talents'[v] = talents[v] \/ v = u
      /\ UNCHANGED sessions /\ parted' \subseteq Users
      /\ UNCHANGED <<late, unrevoked, mixed>>
      /\ call[c].pc \in OnUser
  BY <1>1, <1>4 DEF TypeOK, OnUser, PCs
<1>6. CASE Write(u, row) /\ Goto(c, label) /\ Unbroken
  <2>1. failures' \in 0..MaxFailures /\ label \in {"sync", "revoke"} /\ label \in PCs
    BY <1>1, <1>6 DEF TypeOK, Unbroken, PCs
  <2>2. call'[c].pc = label /\ call'[c].op = call[c].op /\ call'[c].user = u
    BY <1>1, <1>6, <2>1, GotoDoes DEF TypeOK
  <2>3. users'[u] # Absent
    BY <1>1, <1>3, <1>6, WriteDoes, RowsExist
  <2> HIDE DEF u, label
  <2>4. CallSound(c)'
    BY <1>1, <2>1, <2>2, <2>3 DEF CallSound, Exists, OnUser
  <2> USE DEF u
  <2>5. QED
    BY <1>1, <1>3, <1>5, <1>6, <2>1, <2>4, RowStepSound
<1>7. CASE Fails /\ KeepUsers /\ Goto(c, "done")
  <2>1. failures' \in 0..MaxFailures /\ "done" \in PCs
    BY <1>1, <1>7, AccountsAssumption DEF TypeOK, Fails, PCs
  <2>2. call'[c].pc = "done"
    BY <1>1, <1>7, <2>1, GotoDoes DEF TypeOK
  <2>3. CallSound(c)'
    BY <2>2 DEF CallSound, OnUser
  <2>4. QED
    BY <1>1, <1>3, <1>5, <1>7, <2>1, <2>3, RowStepSound
<1>8. QED
  BY <1>4, <1>6, <1>7

LEMMA RevokeSessionsSound ==
  ASSUME Sound, NEW c \in Calls, RevokeSessions(c)
  PROVE  Sound'
<1> DEFINE u == call[c].user
           label == IF call[c].op \in DOMAIN UserOps THEN "sync" ELSE "done"
<1>1. TypeOK /\ call[c].pc = "revoke" /\ u \in Users /\ Exists(u) /\ c \in Tokens
  BY DEF Sound, CallsSound, CallSound, RevokeSessions, OnUser, PCs, Tokens
<1>2. Goto(c, label) /\ RevokeAll(u) /\ UNCHANGED <<users, talents, barred, late, mixed, parted>>
  BY DEF RevokeSessions
<1>3. label \in PCs /\ (label = "sync" \/ label = "done") /\ (label = "sync" => call[c].op \in DOMAIN UserOps)
  BY DEF PCs
<1> HIDE DEF u, label
<1>4. /\ call' \in [Calls -> CallRow]
      /\ \A d \in Calls \ {c} : call'[d] = call[d]
      /\ call'[c].pc = label /\ call'[c].op = call[c].op /\ call'[c].user = call[c].user
  BY <1>1, <1>2, <1>3, GotoDoes DEF TypeOK
<1>5. /\ sessions' \in [Tokens -> {"absent", "valid", "invalid"}]
      /\ \A k \in Tokens : sessions'[k] = "absent" <=> sessions[k] = "absent"
      /\ unrevoked' \subseteq Users /\ failures' \in 0..MaxFailures
  BY <1>1, <1>2, RevokeDoes
<1>6. TypeOK'
  BY <1>1, <1>2, <1>4, <1>5 DEF TypeOK
<1>7. CallSound(c)'
  BY <1>1, <1>2, <1>3, <1>4 DEF CallSound, OnUser, Exists, u
<1>8. sessions'[c] = sessions[c]
  BY <1>1, <1>5 DEF Sound, RowsSound
<1>9. QED
  BY <1>1, <1>2, <1>4, <1>5, <1>6, <1>7, <1>8, SoundAgain DEF Exists

LEMMA SyncTalentSound ==
  ASSUME Sound, NEW c \in Calls, SyncTalent(c)
  PROVE  Sound'
<1>1. TypeOK /\ call[c].pc = "sync" /\ call[c].op \in DOMAIN UserOps
  BY DEF Sound, CallsSound, CallSound, SyncTalent
<1>2. /\ call' \in [Calls -> CallRow]
      /\ \A d \in Calls \ {c} : call'[d] = call[d]
      /\ call'[c].pc = "done"
  BY <1>1, GotoDoes DEF SyncTalent, Finish, TypeOK, PCs
<1>3. TalentStatusFor(UserOps[call[c].op]) \in TalentStatuses
  BY <1>1, OpStatuses DEF TalentStatusFor, TalentStatuses
<1>4. /\ talents' \in [TalentUsers -> TalentStatuses \cup {"absent"}]
      /\ \A v \in TalentUsers : talents'[v] # "absent" => talents[v] # "absent"
      /\ parted' \subseteq Users /\ failures' \in 0..MaxFailures
  <2> DEFINE u == call[c].user
             status == TalentStatusFor(UserOps[call[c].op])
  <2>1. CASE u \in TalentUsers /\ talents[u] # "absent" /\ talents' = [talents EXCEPT ![u] = status]
              /\ UNCHANGED <<parted, failures>>
    BY <1>1, <1>3, <2>1 DEF TypeOK
  <2>2. CASE u \in TalentUsers /\ Fails /\ parted' = parted \cup {u} /\ UNCHANGED talents
    BY <1>1, <2>2, AccountsAssumption DEF TypeOK, Fails, Users
  <2>3. CASE UNCHANGED <<talents, parted, failures>>
    BY <1>1, <2>3 DEF TypeOK
  <2>4. QED
    BY <2>1, <2>2, <2>3 DEF SyncTalent, Unbroken
<1>5. UNCHANGED <<users, sessions, barred, late, unrevoked, mixed>>
  BY DEF SyncTalent
<1>6. TypeOK'
  BY <1>1, <1>2, <1>4, <1>5 DEF TypeOK
<1>7. CallSound(c)'
  BY <1>2 DEF CallSound, OnUser
<1>8. QED
  BY <1>1, <1>2, <1>4, <1>5, <1>6, <1>7, SoundAgain DEF Exists

LEMMA ReadPatchedSound ==
  ASSUME Sound, NEW c \in Calls, ReadPatched(c)
  PROVE  Sound'
<1> DEFINE row == [call[c] EXCEPT !.pc = "patched", !.seen = users[call[c].user]]
<1>1. /\ TypeOK /\ call[c].pc = "patch" /\ call[c].op \in Switches /\ call[c] \in CallRow
      /\ call[c].user \in Users /\ Exists(call[c].user) /\ users[call[c].user] \in UserRow
  BY UserRows DEF Sound, TypeOK, CallsSound, CallSound, ReadPatched, OnUser, PCs
<1>2. /\ row \in CallRow /\ row.pc = "patched" /\ row.user = call[c].user
      /\ row.op = call[c].op /\ row.seen = users[call[c].user]
  BY <1>1 DEF CallRow, PCs
<1>3. call' = [call EXCEPT ![c] = row]
  BY DEF ReadPatched
<1> HIDE DEF row
<1>4. /\ call' \in [Calls -> CallRow] /\ call'[c] = row
      /\ \A d \in Calls \ {c} : call'[d] = call[d]
  BY <1>1, <1>2, <1>3, CallSet DEF TypeOK
<1>5. UNCHANGED <<users, talents, sessions, ghosts>>
  BY DEF ReadPatched
<1>6. TypeOK'
  BY <1>1, <1>4, <1>5 DEF TypeOK, ghosts
<1>7. CallSound(c)'
  BY <1>1, <1>2, <1>4, <1>5 DEF CallSound, Exists
<1>8. QED
  BY <1>1, <1>4, <1>5, <1>6, <1>7, SoundAgain DEF Exists

LEMMA PatchUserSound ==
  ASSUME Sound, NEW c \in Calls, PatchUser(c)
  PROVE  Sound'
<1> DEFINE u == call[c].user
           on == call[c].op = "switchOn"
           status == SwitchedStatus(on, call[c].seen.status, users[u].status)
           row == [users[u] EXCEPT !.status = status, !.active = on]
<1>1. /\ TypeOK /\ call[c].pc = "patched" /\ call[c].op \in Switches
      /\ u \in Users /\ Exists(u) /\ users[u] \in UserRow
  BY UserRows DEF Sound, CallsSound, CallSound, PatchUser, OnUser, PCs
<1>2. UNCHANGED <<talents, sessions, late, unrevoked, mixed>>
  BY DEF PatchUser
<1>3. /\ talents' \in [TalentUsers -> TalentStatuses \cup {"absent"}]
      /\ \A v \in TalentUsers : talents'[v] = talents[v] \/ v = u
      /\ UNCHANGED sessions /\ UNCHANGED <<late, unrevoked, mixed>>
      /\ call[c].pc \in OnUser
  BY <1>1, <1>2 DEF TypeOK, OnUser, PCs
<1>4. CASE /\ status # "refused" /\ Write(u, row) /\ parted' = parted \cup {u}
           /\ Goto(c, "settled") /\ Unbroken
  <2>1. status \in UserStatuses
    BY <1>1, <1>4 DEF SwitchedStatus, UserRow, UserStatuses
  <2>2. row \in UserRow /\ row.invite = users[u].invite
    BY <1>1, <2>1 DEF UserRow
  <2>3. failures' \in 0..MaxFailures /\ parted' \subseteq Users /\ "settled" \in PCs
    BY <1>1, <1>4 DEF TypeOK, Unbroken, PCs
  <2>4. call'[c].pc = "settled" /\ call'[c].op = call[c].op /\ call'[c].user = u
    BY <1>1, <1>4, <2>3, GotoDoes DEF TypeOK
  <2> HIDE DEF row
  <2>5. users'[u] # Absent
    BY <1>1, <1>4, <2>2, WriteDoes, RowsExist
  <2> HIDE DEF u
  <2>6. CallSound(c)'
    BY <1>1, <2>4, <2>5 DEF CallSound, Exists
  <2> USE DEF u
  <2>7. QED
    BY <1>1, <1>3, <1>4, <2>2, <2>3, <2>6, RowStepSound
<1>5. CASE Finish(c) /\ KeepUsers /\ (UNCHANGED failures \/ Fails) /\ UNCHANGED parted
  <2>1. failures' \in 0..MaxFailures /\ parted' \subseteq Users /\ "done" \in PCs
    BY <1>1, <1>5, AccountsAssumption DEF TypeOK, Fails, PCs
  <2>2. call'[c].pc = "done"
    BY <1>1, <1>5, <2>1, GotoDoes DEF TypeOK, Finish
  <2>3. CallSound(c)'
    BY <2>2 DEF CallSound, OnUser
  <2>4. QED
    BY <1>1, <1>3, <1>5, <2>1, <2>3, RowStepSound DEF Finish
<1>6. QED
  BY <1>4, <1>5 DEF PatchUser

LEMMA ReadSettledSound ==
  ASSUME Sound, NEW c \in Calls, ReadSettled(c)
  PROVE  Sound'
<1> DEFINE u == call[c].user
           label == IF users[u].status # "active" \/ call[c].op = "switchOff" THEN "revoke" ELSE "done"
<1>1. TypeOK /\ call[c].pc = "settled" /\ call[c].op \in Switches /\ u \in Users /\ Exists(u)
  BY DEF Sound, CallsSound, CallSound, ReadSettled, OnUser, PCs
<1>2. Goto(c, label) /\ UNCHANGED <<users, talents, sessions, ghosts>>
  BY DEF ReadSettled
<1>3. label \in PCs /\ (label = "revoke" \/ label = "done")
  BY DEF PCs
<1> HIDE DEF u, label
<1>4. /\ call' \in [Calls -> CallRow]
      /\ \A d \in Calls \ {c} : call'[d] = call[d]
      /\ call'[c].pc = label /\ call'[c].op = call[c].op /\ call'[c].user = call[c].user
  BY <1>1, <1>2, <1>3, GotoDoes DEF TypeOK
<1>5. TypeOK'
  BY <1>1, <1>2, <1>4 DEF TypeOK, ghosts
<1>6. CallSound(c)'
  BY <1>1, <1>2, <1>3, <1>4 DEF CallSound, OnUser, Exists, u
<1>7. QED
  BY <1>1, <1>2, <1>4, <1>5, <1>6, SoundAgain DEF Exists

LEMMA UpdateTalentSound ==
  ASSUME Sound, NEW c \in Calls, UpdateTalent(c)
  PROVE  Sound'
<1> DEFINE u == call[c].user
           status == TalentOps[call[c].op]
<1>1. /\ TypeOK /\ call[c].pc = "talent" /\ call[c].op \in DOMAIN TalentOps
      /\ u \in TalentUsers /\ u \in Users /\ Exists(u)
  BY DEF Sound, CallsSound, CallSound, UpdateTalent, OnUser, PCs
<1>2. status \in TalentStatuses
  BY <1>1, OpStatuses DEF TalentStatuses
<1>3. /\ \/ talents' = [talents EXCEPT ![u] = status] /\ Goto(c, "syncUser") /\ Unbroken
         \/ Fails /\ Goto(c, "done") /\ UNCHANGED talents
      /\ UNCHANGED <<users, sessions, barred, late, unrevoked, mixed, parted>>
  BY DEF UpdateTalent, Finish
<1>4. /\ talents' \in [TalentUsers -> TalentStatuses \cup {"absent"}]
      /\ \A v \in TalentUsers : talents'[v] = talents[v] \/ v = u
      /\ failures' \in 0..MaxFailures
  BY <1>1, <1>2, <1>3, AccountsAssumption DEF TypeOK, Unbroken, Fails
<1> HIDE DEF u, status
<1>5. /\ call' \in [Calls -> CallRow]
      /\ \A d \in Calls \ {c} : call'[d] = call[d]
      /\ call'[c].pc \in {"syncUser", "done"} /\ call'[c].op = call[c].op
      /\ call'[c].user = call[c].user
  BY <1>1, <1>3, GotoDoes DEF TypeOK, PCs
<1>6. TypeOK'
  BY <1>1, <1>3, <1>4, <1>5 DEF TypeOK
<1>7. CallSound(c)'
  BY <1>1, <1>3, <1>5 DEF CallSound, OnUser, Exists, u
<1>8. QED
  BY <1>1, <1>3, <1>4, <1>5, <1>6, <1>7, SoundAgain DEF Exists

LEMMA SyncUserSound ==
  ASSUME Sound, NEW c \in Calls, SyncUser(c)
  PROVE  Sound'
<1> DEFINE u == call[c].user
           status == TalentOps[call[c].op]
           row == [users[u] EXCEPT !.status = status, !.active = (status = "active")]
           label == IF status = "active" THEN "done" ELSE "revoke"
<1>1. /\ TypeOK /\ call[c].pc = "syncUser" /\ call[c].op \in DOMAIN TalentOps
      /\ u \in TalentUsers /\ u \in Users /\ Exists(u) /\ users[u] \in UserRow
  BY UserRows DEF Sound, CallsSound, CallSound, SyncUser, OnUser, PCs
<1>2. status \in UserStatuses
  BY <1>1, OpStatuses DEF UserStatuses
<1>3. row \in UserRow /\ row.invite = users[u].invite
  BY <1>1, <1>2 DEF UserRow
<1>4. /\ \/ Write(u, row) /\ Goto(c, label) /\ Unbroken /\ UNCHANGED parted
         \/ /\ Fails /\ KeepUsers /\ parted' = parted \cup {u}
            /\ Goto(c, "done") \/ Goto(c, label)
      /\ UNCHANGED <<talents, sessions, late, unrevoked, mixed>>
  BY DEF SyncUser, Finish
<1> HIDE DEF row
<1>5. /\ talents' \in [TalentUsers -> TalentStatuses \cup {"absent"}]
      /\ \A v \in TalentUsers : talents'[v] = talents[v] \/ v = u
      /\ UNCHANGED sessions /\ UNCHANGED <<late, unrevoked, mixed>>
      /\ call[c].pc \in OnUser
  BY <1>1, <1>4 DEF TypeOK, OnUser, PCs
<1>6. parted' \subseteq Users /\ failures' \in 0..MaxFailures
  BY <1>1, <1>4, AccountsAssumption DEF TypeOK, Unbroken, Fails
<1>7. \E l \in {"done", "revoke"} : Goto(c, l)
  BY <1>4
<1>8. PICK l \in {"done", "revoke"} : Goto(c, l)
  BY <1>7
<1>9. l \in PCs /\ call'[c].pc = l /\ call'[c].op = call[c].op /\ call'[c].user = u
  BY <1>1, <1>8, GotoDoes DEF TypeOK, PCs
<1>10. users'[u] # Absent /\ (Write(u, row) \/ KeepUsers)
  BY <1>1, <1>3, <1>4, WriteDoes, RowsExist DEF KeepUsers, Exists
<1> HIDE DEF u
<1>11. CallSound(c)'
  BY <1>1, <1>9, <1>10 DEF CallSound, Exists, OnUser
<1> USE DEF u
<1>12. QED
  BY <1>1, <1>3, <1>5, <1>6, <1>8, <1>9, <1>10, <1>11, RowStepSound

-----------------------------------------------------------------------------
(* The steps together *)

LEMMA StepSound ==
  ASSUME Sound, NEW c \in Calls, Step(c)
  PROVE  Sound'
BY IssueSessionSound, CreatePendingTalentSound, AcceptInviteSound, AnswerActivatedSound,
   ReadCallerSound, ServeOtherSound, LogOutSound, SetUserStatusSound, RevokeSessionsSound,
   SyncTalentSound, ReadPatchedSound, PatchUserSound, ReadSettledSound, UpdateTalentSound,
   SyncUserSound
   DEF Step

LEMMA StepOnSound ==
  ASSUME Sound, NEW c \in Calls, NEW u \in Users, StepOn(c, u)
  PROVE  Sound'
BY LoginSound, RegisterSound, ReadInviteSound, InviteSound, AskUserStatusSound, AskSwitchSound,
   AskTalentStatusSound
   DEF StepOn

LEMMA StutterSound == Sound /\ UNCHANGED vars => Sound'
<1> SUFFICES ASSUME Sound, UNCHANGED vars PROVE Sound'
  OBVIOUS
<1>1. TypeOK'
  BY DEF Sound, TypeOK, vars, ghosts
<1>2. CallsSound'
  BY DEF Sound, CallsSound, CallSound, Exists, vars
<1>3. RowsSound'
  BY DEF Sound, RowsSound, Exists, vars
<1>4. QED
  BY <1>1, <1>2, <1>3 DEF Sound

LEMMA NextSound == Sound /\ [Next]_vars => Sound'
<1> SUFFICES ASSUME Sound, [Next]_vars PROVE Sound'
  OBVIOUS
<1>1. CASE Next
  BY <1>1, StepSound, StepOnSound, PresentTokenSound, IdleTokenSound DEF Next
<1>2. CASE UNCHANGED vars
  BY <1>2, StutterSound
<1>3. QED
  BY <1>1, <1>2

LEMMA SoundAlways == Spec => []Sound
BY InitSound, NextSound, PTL DEF Spec

\* The tables and the requests keep their shape: no row, session or request is
\* ever written with a value the code does not know, and every step of a
\* request finds what the steps before it left for it (the handlers of
\* internal/src/auth and internal/src/admin).
THEOREM TypeCorrect == Spec => []TypeOK
<1>1. Sound => TypeOK
  BY DEF Sound
<1>2. QED
  BY <1>1, SoundAlways, PTL

-----------------------------------------------------------------------------
(* Blocked callers *)

\* A step moves one request.
LEMMA OneMoves ==
  ASSUME Sound, NEW c \in Calls,
         \/ Step(c)
         \/ \E u \in Users : StepOn(c, u)
         \/ \E k \in Tokens : PresentToken(c, k) \/ IdleToken(c, k)
  PROVE  call[c].pc # "done" /\ \A d \in Calls \ {c} : call'[d] = call[d]
<1>1. call \in [Calls -> CallRow]
  BY DEF Sound, TypeOK
<1>2. CASE Step(c)
  BY <1>1, <1>2
     DEF Step, IssueSession, CreatePendingTalent, AcceptInvite, AnswerActivated, ReadCaller,
         ServeOther, LogOut, SetUserStatus, RevokeSessions, SyncTalent, ReadPatched, PatchUser,
         ReadSettled, UpdateTalent, SyncUser, Goto, Finish
<1>3. CASE \E u \in Users : StepOn(c, u)
  BY <1>1, <1>3
     DEF StepOn, Login, Register, ReadInvite, Invite, AskUserStatus, AskSwitch, AskTalentStatus,
         Serve, Goto, Finish
<1>4. CASE \E k \in Tokens : PresentToken(c, k) \/ IdleToken(c, k)
  BY <1>1, <1>4 DEF PresentToken, IdleToken, Goto, Finish
<1>5. QED
  BY <1>2, <1>3, <1>4

\* A request of a caller who has been blocked ever since has ended, or has the
\* caller's row still to read.
BarredInv ==
  \A c \in barred :
    \/ call[c].pc = "done"
    \/ call[c].pc = "user" /\ Blocked(users[call[c].caller])

LEMMA BarredAgain ==
  ASSUME Sound, BarredInv, NEW c \in Calls,
         \A d \in Calls \ {c} : call'[d] = call[d],
         call[c].pc # "user" \/ call'[c].pc = "done" \/ c \notin barred, call[c].pc # "done",
         UNCHANGED <<users, barred>> \/ \E u, row : Write(u, row)
  PROVE  BarredInv'
<1> SUFFICES ASSUME NEW d \in barred', call'[d].pc # "done"
             PROVE  call'[d].pc = "user" /\ Blocked(users'[call'[d].caller])
  BY DEF BarredInv
<1>1. d \in barred /\ d \in Calls
  BY DEF Write, Sound, TypeOK
<1>2. d # c
  BY <1>1 DEF BarredInv
<1>3. call'[d] = call[d] /\ call[d].pc = "user" /\ Blocked(users[call[d].caller])
  BY <1>1, <1>2 DEF BarredInv
<1>4. call[d].caller \in Users
  BY <1>1, <1>3 DEF Sound, CallsSound, CallSound
<1>5. CASE UNCHANGED <<users, barred>>
  BY <1>3, <1>5
<1>6. ASSUME NEW u, NEW row, Write(u, row)
      PROVE  Blocked(users'[call[d].caller])
  <2>1. users' = [users EXCEPT ![u] = row]
    BY <1>6 DEF Write
  <2>2. CASE call[d].caller # u
    BY <1>3, <1>4, <2>1, <2>2 DEF Sound, TypeOK
  <2>3. CASE call[d].caller = u
    <3>1. Blocked(row)
      BY <1>6, <2>3 DEF Write
    <3>2. users'[u] = row
      BY <1>4, <2>1, <2>3 DEF Sound, TypeOK
    <3>3. QED
      BY <2>3, <3>1, <3>2
  <2>4. QED
    BY <2>2, <2>3
<1>7. QED
  BY <1>3, <1>5, <1>6

LEMMA NextBarred == Sound /\ BarredInv /\ [Next]_vars => BarredInv'
<1> SUFFICES ASSUME Sound, BarredInv, [Next]_vars PROVE BarredInv'
  OBVIOUS
<1>1. ASSUME NEW c \in Calls, Step(c) PROVE BarredInv'
  <2>1. call[c].pc # "done" /\ \A d \in Calls \ {c} : call'[d] = call[d]
    BY <1>1, OneMoves
  <2>2. UNCHANGED <<users, barred>> \/ \E u, row : Write(u, row)
    BY <1>1
       DEF Step, IssueSession, CreatePendingTalent, AcceptInvite, AnswerActivated, ReadCaller,
           ServeOther, LogOut, SetUserStatus, RevokeSessions, SyncTalent, ReadPatched, PatchUser,
           ReadSettled, UpdateTalent, SyncUser, KeepUsers, ghosts
  <2>3. CASE ReadCaller(c)
    <3>1. c \in barred => Blocked(users[call[c].caller])
      BY <2>3 DEF BarredInv, ReadCaller
    <3>2. c \in barred => Finish(c)
      BY <2>3, <3>1 DEF ReadCaller
    <3>3. Finish(c) => call'[c].pc = "done"
      BY GotoDoes DEF Finish, Sound, TypeOK, PCs
    <3>4. QED
      BY <2>1, <2>2, <3>2, <3>3, BarredAgain
  <2>4. CASE ~ReadCaller(c)
    <3>1. call[c].pc # "user"
      BY <1>1, <2>4
         DEF Step, IssueSession, CreatePendingTalent, AcceptInvite, AnswerActivated,
             ServeOther, LogOut, SetUserStatus, RevokeSessions, SyncTalent, ReadPatched, PatchUser,
             ReadSettled, UpdateTalent, SyncUser
    <3>2. QED
      BY <2>1, <2>2, <3>1, BarredAgain
  <2>5. QED
    BY <2>3, <2>4
<1>2. ASSUME NEW c \in Calls, NEW u \in Users, StepOn(c, u) PROVE BarredInv'
  <2>1. call[c].pc # "done" /\ \A d \in Calls \ {c} : call'[d] = call[d]
    BY <1>2, OneMoves
  <2>2. /\ call[c].pc # "user"
        /\ UNCHANGED <<users, barred>> \/ \E v, row : Write(v, row)
    BY <1>2
       DEF StepOn, Login, Register, ReadInvite, Invite, AskUserStatus, AskSwitch, AskTalentStatus,
           ghosts
  <2>3. QED
    BY <2>1, <2>2, BarredAgain
<1>3. ASSUME NEW c \in Calls, NEW k \in Tokens, PresentToken(c, k) PROVE BarredInv'
  <2>1. /\ call[c].pc = "idle" /\ \A d \in Calls \ {c} : call'[d] = call[d]
        /\ UNCHANGED users
    BY <1>3, OneMoves DEF PresentToken
  <2>2. call'[c].pc = "user" /\ call'[c].caller = Owner(k)
    BY <1>3 DEF PresentToken, Idle, Sound, TypeOK
  <2>3. c \in barred' => Blocked(users[Owner(k)])
    BY <1>3, <2>1 DEF PresentToken, BarredInv
  <2>4. \A d \in barred' : d # c => d \in barred /\ d \in Calls
    BY <1>3 DEF PresentToken, Sound, TypeOK
  <2>5. QED
    BY <2>1, <2>2, <2>3, <2>4 DEF BarredInv
<1>4. ASSUME NEW c \in Calls, NEW k \in Tokens, IdleToken(c, k) PROVE BarredInv'
  <2>1. call[c].pc = "idle" /\ \A d \in Calls \ {c} : call'[d] = call[d]
    BY <1>4, OneMoves DEF IdleToken
  <2>2. UNCHANGED <<users, barred>>
    BY <1>4 DEF IdleToken, ghosts
  <2>3. QED
    BY <2>1, <2>2, BarredAgain
<1>5. CASE UNCHANGED vars
  BY <1>5 DEF BarredInv, vars, ghosts
<1>6. QED
  BY <1>1, <1>2, <1>3, <1>4, <1>5 DEF Next

\* A request is served only if its caller was, at some moment of the request,
\* not blocked, whatever calls change the caller's status and whatever sessions
\* survive (ValidateSession, internal/src/auth/service.go:435-460).
THEOREM BarredCorrect == Spec => []BarredStayOut
<1>1. Init => BarredInv
  BY DEF Init, BarredInv
<1>2. BarredInv => BarredStayOut
  BY DEF BarredInv, BarredStayOut
<1>3. QED
  BY <1>1, <1>2, NextBarred, SoundAlways, PTL DEF Spec

-----------------------------------------------------------------------------
(* Sessions of blocked users *)

\* What a step may do to row u without leaving a session behind: it lifts the
\* block, it is the first row of u, or its request goes on to the sessions.
Cares(c, u, row) ==
  \/ ~Blocked(row)
  \/ ~Exists(u)
  \/ call'[c].pc \in {"revoke", "settled"} /\ call'[c].user = u

LEMMA SurvivorAgain ==
  ASSUME Sound, SurvivorNeedsRace, NEW c \in Calls, call[c].pc \notin {"done", "revoke", "settled"},
         \A d \in Calls \ {c} : call'[d] = call[d],
         \A k \in Tokens : sessions'[k] = "valid" => sessions[k] = "valid",
         late \subseteq late', unrevoked \subseteq unrevoked',
         UNCHANGED users \/ \E u, row : Write(u, row) /\ Cares(c, u, row)
  PROVE  SurvivorNeedsRace'
<1> SUFFICES ASSUME NEW k \in Tokens, sessions'[k] = "valid", Blocked(users[Owner(k)])'
             PROVE  (\/ k \in late \/ Owner(k) \in unrevoked
                     \/ \E d \in Calls : call[d].user = Owner(k) /\ call[d].pc \in {"revoke", "settled"})'
  BY DEF SurvivorNeedsRace
<1> DEFINE o == Owner(k)
<1>1. o \in Users /\ Exists(o)
  BY OwnerIsUser
<1>2. Owner(k)' = o
  BY DEF Owner, Sound, RowsSound
<1>3. Blocked(users'[o])
  BY <1>2 DEF Blocked
<1> HIDE DEF o
<1>4. CASE users'[o] = users[o]
  <2>1. k \in late \/ o \in unrevoked
           \/ \E d \in Calls : call[d].user = o /\ call[d].pc \in {"revoke", "settled"}
    BY <1>3, <1>4 DEF SurvivorNeedsRace, o
  <2>2. QED
    BY <1>2, <2>1
<1>5. CASE users'[o] # users[o]
  <2>1. PICK u : \E row : Write(u, row) /\ Cares(c, u, row)
    BY <1>5
  <2>2. PICK row : Write(u, row) /\ Cares(c, u, row)
    BY <2>1
  <2>3. users' = [users EXCEPT ![u] = row]
    BY <2>2 DEF Write
  <2>4. u = o /\ users'[o] = row
    BY <1>1, <1>5, <2>3 DEF Sound, TypeOK
  <2>5. call'[c].pc \in {"revoke", "settled"} /\ call'[c].user = o
    BY <1>1, <1>3, <2>2, <2>4 DEF Cares
  <2>6. QED
    BY <1>2, <2>5
<1>6. QED
  BY <1>4, <1>5

\* A login stores its session on a row it read before it was blocked, or it is
\* late.
LEMMA IssueSurvivor ==
  ASSUME Sound, SurvivorNeedsRace, NEW c \in Calls, IssueSession(c)
  PROVE  SurvivorNeedsRace'
<1> DEFINE u == call[c].user
<1>1. /\ TypeOK /\ call[c].pc = "store" /\ u \in Users
      /\ call[c].seen \in UserRow /\ call[c].seen.status \notin LoginBlocked
  BY DEF Sound, CallsSound, CallSound, IssueSession, OnUser, PCs
<1>2. /\ \A d \in Calls \ {c} : call'[d] = call[d]
      /\ call'[c].user = u
  BY <1>1, GotoDoes DEF IssueSession, Finish, TypeOK, PCs
<1>3. UNCHANGED <<users, unrevoked>>
  BY DEF IssueSession
<1>4. /\ late \subseteq late'
      /\ \A k \in Tokens \ {c} : sessions'[k] = sessions[k]
      /\ sessions'[c] = sessions[c] \/ users[u] = call[c].seen \/ c \in late'
  BY <1>1 DEF IssueSession, TypeOK
<1> HIDE DEF u
<1>5. SUFFICES ASSUME NEW k \in Tokens, sessions'[k] = "valid", Blocked(users[Owner(k)])'
               PROVE  (\/ k \in late \/ Owner(k) \in unrevoked
                       \/ \E d \in Calls : call[d].user = Owner(k) /\ call[d].pc \in {"revoke", "settled"})'
  BY DEF SurvivorNeedsRace
<1>6. CASE k = c
  <2>1. sessions[c] = "absent"
    BY <1>1 DEF Sound, RowsSound
  <2>2. Owner(k)' = u
    BY <1>2, <1>6 DEF Owner
  <2>3. Blocked(users[u])
    BY <1>3, <1>5, <2>2 DEF Blocked
  <2>4. users[u] # call[c].seen
    BY <1>1, <2>3 DEF Blocked, LoginBlocked
  <2>5. QED
    BY <1>4, <1>5, <1>6, <2>1, <2>4
<1>7. CASE k # c
  <2>1. sessions[k] = "valid" /\ Owner(k)' = Owner(k)
    BY <1>2, <1>4, <1>5, <1>7 DEF Owner
  <2>2. Blocked(users[Owner(k)])
    BY <1>3, <1>5, <2>1 DEF Blocked
  <2>3. k \in late \/ Owner(k) \in unrevoked
           \/ \E d \in Calls : call[d].user = Owner(k) /\ call[d].pc \in {"revoke", "settled"}
    BY <2>1, <2>2 DEF SurvivorNeedsRace
  <2>4. QED
    BY <1>1, <1>2, <1>3, <1>4, <2>1, <2>3
<1>8. QED
  BY <1>6, <1>7

\* The sessions of a user whose block is being carried out end, or the failure
\* to end them is remembered.
LEMMA RevokeSurvivor ==
  ASSUME Sound, SurvivorNeedsRace, NEW c \in Calls, RevokeSessions(c)
  PROVE  SurvivorNeedsRace'
<1> DEFINE u == call[c].user
<1>1. TypeOK /\ call[c].pc = "revoke" /\ u \in Users
  BY DEF Sound, CallsSound, CallSound, RevokeSessions, OnUser, PCs
<1>2. \A d \in Calls \ {c} : call'[d] = call[d]
  BY <1>1, OneMoves DEF Step
<1>3. RevokeAll(u) /\ UNCHANGED <<users, late>>
  BY DEF RevokeSessions
<1>4. /\ \A k \in Tokens : sessions'[k] = "valid" => sessions[k] = "valid"
      /\ \A v \in Users \ {u} : v \in unrevoked' <=> v \in unrevoked
      /\ u \in unrevoked' \/ \A k \in Tokens : Owner(k) = u => sessions'[k] # "valid"
  BY <1>1, <1>3, RevokeDoes
<1>5. SUFFICES ASSUME NEW k \in Tokens, sessions'[k] = "valid", Blocked(users[Owner(k)])'
               PROVE  (\/ k \in late \/ Owner(k) \in unrevoked
                       \/ \E d \in Calls : call[d].user = Owner(k) /\ call[d].pc \in {"revoke", "settled"})'
  BY DEF SurvivorNeedsRace
<1> DEFINE o == Owner(k)
<1>6. sessions[k] = "valid" /\ o \in Users
  BY <1>4, <1>5, OwnerIsUser
<1>7. Owner(k)' = o
  BY <1>1, <1>2, <1>6 DEF Owner, Sound, RowsSound
<1> HIDE DEF o, u
<1>8. CASE o = u
  BY <1>4, <1>5, <1>7, <1>8 DEF o
<1>9. CASE o # u
  <2>1. Blocked(users[o])
    BY <1>3, <1>5, <1>7 DEF Blocked
  <2>2. k \in late \/ o \in unrevoked
           \/ \E d \in Calls : call[d].user = o /\ call[d].pc \in {"revoke", "settled"}
    BY <1>6, <2>1 DEF SurvivorNeedsRace, o
  <2>3. \A d \in Calls : call[d].user = o => d # c
    BY <1>9 DEF u
  <2>4. QED
    BY <1>2, <1>3, <1>4, <1>6, <1>7, <1>9, <2>2, <2>3
<1>10. QED
  BY <1>8, <1>9

\* PatchUser goes on to the sessions unless the row it reads back is active.
LEMMA SettledSurvivor ==
  ASSUME Sound, SurvivorNeedsRace, NEW c \in Calls, ReadSettled(c)
  PROVE  SurvivorNeedsRace'
<1> DEFINE u == call[c].user
<1>1. TypeOK /\ call[c].pc = "settled" /\ u \in Users
  BY DEF Sound, CallsSound, CallSound, ReadSettled, OnUser, PCs
<1>2. \A d \in Calls \ {c} : call'[d] = call[d]
  BY <1>1, OneMoves DEF Step
<1>3. UNCHANGED <<users, sessions, late, unrevoked>>
  BY DEF ReadSettled, ghosts
<1>4. call'[c].user = u /\ (users[u].status = "active" \/ call'[c].pc = "revoke")
  BY <1>1, GotoDoes DEF ReadSettled, TypeOK, PCs
<1>5. SUFFICES ASSUME NEW k \in Tokens, sessions'[k] = "valid", Blocked(users[Owner(k)])'
               PROVE  (\/ k \in late \/ Owner(k) \in unrevoked
                       \/ \E d \in Calls : call[d].user = Owner(k) /\ call[d].pc \in {"revoke", "settled"})'
  BY DEF SurvivorNeedsRace
<1> DEFINE o == Owner(k)
<1>6. sessions[k] = "valid" /\ Owner(k)' = o
  BY <1>1, <1>2, <1>3, <1>5 DEF Owner, Sound, RowsSound
<1> HIDE DEF o, u
<1>7. Blocked(users[o])
  BY <1>3, <1>5, <1>6 DEF Blocked
<1>8. k \in late \/ o \in unrevoked
           \/ \E d \in Calls : call[d].user = o /\ call[d].pc \in {"revoke", "settled"}
  BY <1>6, <1>7 DEF SurvivorNeedsRace, o
<1>9. o = u => call'[c].pc = "revoke"
  BY <1>4, <1>7 DEF Blocked, SessionBlocked
<1>10. \A d \in Calls : call[d].user = o => d # c \/ o = u
  BY DEF u
<1>11. QED
  BY <1>2, <1>3, <1>4, <1>6, <1>8, <1>9, <1>10

\* Every step that writes a row of a user sees to the sessions, where the row
\* needs it.
LEMMA StepCares ==
  ASSUME Sound, NEW c \in Calls, Step(c)
  PROVE  UNCHANGED users \/ \E u, row : Write(u, row) /\ Cares(c, u, row)
<1>1. CASE AcceptInvite(c)
  <2> DEFINE u == call[c].user
             row == [users[u] EXCEPT !.status = "active", !.active = TRUE, !.invite = "empty"]
  <2>1. u \in Users /\ Exists(u) /\ users[u] \in UserRow
    BY <1>1, UserRows DEF Sound, CallsSound, CallSound, AcceptInvite, OnUser, PCs
  <2>2. row.status = "active"
    BY <2>1 DEF UserRow
  <2>3. Cares(c, u, row)
    BY <2>2 DEF Cares, Blocked, SessionBlocked
  <2>4. UNCHANGED users \/ Write(u, row)
    BY <1>1 DEF AcceptInvite, KeepUsers
  <2>5. QED
    BY <2>3, <2>4
<1>2. CASE SetUserStatus(c)
  <2> DEFINE u == call[c].user
             status == UserOps[call[c].op]
             row == [users[u] EXCEPT !.status = status, !.active = (status = "active"),
                                     !.deleted = @ \/ status = "deleted"]
  <2>1. u \in Users /\ Exists(u) /\ users[u] \in UserRow
    BY <1>2, UserRows DEF Sound, CallsSound, CallSound, SetUserStatus, OnUser, PCs
  <2>2. row.status = status
    BY <2>1 DEF UserRow
  <2>3. UNCHANGED users
          \/ (Write(u, row) /\ Goto(c, IF status = "active" THEN "sync" ELSE "revoke"))
    BY <1>2 DEF SetUserStatus, KeepUsers
  <2> HIDE DEF row
  <2>4. Goto(c, "revoke") => call'[c].pc = "revoke" /\ call'[c].user = u
    BY GotoDoes DEF Sound, TypeOK, PCs
  <2>5. CASE status = "active"
    BY <2>2, <2>3, <2>5 DEF Cares, Blocked, SessionBlocked
  <2>6. CASE status # "active"
    BY <2>3, <2>4, <2>6 DEF Cares
  <2>7. QED
    BY <2>5, <2>6
<1>3. CASE PatchUser(c)
  <2> DEFINE u == call[c].user
  <2>1. UNCHANGED users \/ (Goto(c, "settled") /\ \E row : Write(u, row))
    BY <1>3 DEF PatchUser, KeepUsers
  <2>2. Goto(c, "settled") => call'[c].pc = "settled" /\ call'[c].user = u
    BY GotoDoes DEF Sound, TypeOK, PCs
  <2>3. QED
    BY <2>1, <2>2 DEF Cares
<1>4. CASE SyncUser(c)
  <2> DEFINE u == call[c].user
             status == TalentOps[call[c].op]
             row == [users[u] EXCEPT !.status = status, !.active = (status = "active")]
  <2>1. u \in Users /\ Exists(u) /\ users[u] \in UserRow
    BY <1>4, UserRows DEF Sound, CallsSound, CallSound, SyncUser, OnUser, PCs
  <2>2. row.status = status
    BY <2>1 DEF UserRow
  <2>3. UNCHANGED users
          \/ (Write(u, row) /\ Goto(c, IF status = "active" THEN "done" ELSE "revoke"))
    BY <1>4 DEF SyncUser, KeepUsers
  <2> HIDE DEF row
  <2>4. Goto(c, "revoke") => call'[c].pc = "revoke" /\ call'[c].user = u
    BY GotoDoes DEF Sound, TypeOK, PCs
  <2>5. CASE status = "active"
    BY <2>2, <2>3, <2>5 DEF Cares, Blocked, SessionBlocked
  <2>6. CASE status # "active"
    BY <2>3, <2>4, <2>6 DEF Cares
  <2>7. QED
    BY <2>5, <2>6
<1>5. QED
  BY <1>1, <1>2, <1>3, <1>4
     DEF Step, IssueSession, CreatePendingTalent, AnswerActivated, ReadCaller, ServeOther, LogOut,
         RevokeSessions, SyncTalent, ReadPatched, ReadSettled, UpdateTalent

LEMMA StepSurvivor ==
  ASSUME Sound, SurvivorNeedsRace, NEW c \in Calls, Step(c)
  PROVE  SurvivorNeedsRace'
<1>1. CASE IssueSession(c) \/ RevokeSessions(c) \/ ReadSettled(c)
  BY <1>1, IssueSurvivor, RevokeSurvivor, SettledSurvivor
<1>2. CASE ~(IssueSession(c) \/ RevokeSessions(c) \/ ReadSettled(c))
  <2>1. call[c].pc \notin {"done", "revoke", "settled"}
    BY <1>2
       DEF Step, CreatePendingTalent, AcceptInvite, AnswerActivated, ReadCaller, ServeOther, LogOut,
           SetUserStatus, SyncTalent, ReadPatched, PatchUser, UpdateTalent, SyncUser
  <2>2. \A k \in Tokens : sessions'[k] = "valid" => sessions[k] = "valid"
    <3>1. UNCHANGED sessions \/ \E ks : Invalidate(ks)
      BY <1>2
         DEF Step, CreatePendingTalent, AcceptInvite, AnswerActivated, ReadCaller, ServeOther,
             LogOut, SetUserStatus, SyncTalent, ReadPatched, PatchUser, UpdateTalent, SyncUser
    <3>2. QED
      BY <3>1, InvalidateDoes DEF Sound
  <2>3. UNCHANGED <<late, unrevoked>>
    BY <1>2
       DEF Step, CreatePendingTalent, AcceptInvite, AnswerActivated, ReadCaller, ServeOther, LogOut,
           SetUserStatus, SyncTalent, ReadPatched, PatchUser, UpdateTalent, SyncUser, ghosts
  <2>4. \A d \in Calls \ {c} : call'[d] = call[d]
    BY OneMoves
  <2>5. UNCHANGED users \/ \E u, row : Write(u, row) /\ Cares(c, u, row)
    BY StepCares
  <2>6. QED
    BY <2>1, <2>2, <2>3, <2>4, <2>5, SurvivorAgain
<1>3. QED
  BY <1>1, <1>2

LEMMA StepOnSurvivor ==
  ASSUME Sound, SurvivorNeedsRace, NEW c \in Calls, NEW u \in Users, StepOn(c, u)
  PROVE  SurvivorNeedsRace'
<1>1. \A d \in Calls \ {c} : call'[d] = call[d]
  BY OneMoves
<1>2. call[c].pc \notin {"done", "revoke", "settled"} /\ UNCHANGED <<sessions, late, unrevoked>>
  BY DEF StepOn, Login, Register, ReadInvite, Invite, AskUserStatus, AskSwitch, AskTalentStatus,
         ghosts
<1>3. UNCHANGED users \/ \E v, row : Write(v, row) /\ Cares(c, v, row)
  <2>1. CASE Register(c, u) \/ Invite(c, u)
    BY <2>1 DEF Register, Invite, Cares
  <2>2. CASE ~(Register(c, u) \/ Invite(c, u))
    BY <2>2 DEF StepOn, Login, ReadInvite, AskUserStatus, AskSwitch, AskTalentStatus
  <2>3. QED
    BY <2>1, <2>2
<1>4. QED
  BY <1>1, <1>2, <1>3, SurvivorAgain

LEMMA NextSurvivor == Sound /\ SurvivorNeedsRace /\ [Next]_vars => SurvivorNeedsRace'
<1> SUFFICES ASSUME Sound, SurvivorNeedsRace, [Next]_vars PROVE SurvivorNeedsRace'
  OBVIOUS
<1>1. ASSUME NEW c \in Calls, NEW k \in Tokens, PresentToken(c, k) \/ IdleToken(c, k)
      PROVE  SurvivorNeedsRace'
  <2>1. \A d \in Calls \ {c} : call'[d] = call[d]
    BY <1>1, OneMoves
  <2>2. call[c].pc = "idle" /\ UNCHANGED <<users, late, unrevoked>>
    BY <1>1 DEF PresentToken, IdleToken, ghosts
  <2>3. \A t \in Tokens : sessions'[t] = "valid" => sessions[t] = "valid"
    BY <1>1, InvalidateDoes DEF PresentToken, IdleToken, Sound
  <2>4. QED
    BY <2>1, <2>2, <2>3, SurvivorAgain
<1>2. CASE UNCHANGED vars
  BY <1>2 DEF SurvivorNeedsRace, Owner, vars, ghosts
<1>3. QED
  BY <1>1, <1>2, StepSurvivor, StepOnSurvivor DEF Next

\* A blocked user keeps a session only while the block is on its way to the
\* sessions, if it failed to reach them, or if a login that had read the row
\* before the block stored it afterwards (internal/src/auth/service.go:289,
\* internal/src/admin/service.go:149).
THEOREM SurvivorCorrect == Spec => []SurvivorNeedsRace
<1>1. Init => SurvivorNeedsRace
  <2> SUFFICES ASSUME Init, NEW k \in Tokens, sessions[k] = "valid" PROVE ~Blocked(users[Owner(k)])
    BY DEF SurvivorNeedsRace
  <2>1. k \in Users /\ users[k].status = "active"
    BY DEF Init
  <2>2. Owner(k) = k
    BY <2>1, AccountsAssumption DEF Owner
  <2>3. QED
    BY <2>1, <2>2 DEF Blocked, SessionBlocked
<1>2. QED
  BY <1>1, NextSurvivor, SoundAlways, PTL DEF Spec

-----------------------------------------------------------------------------
(* One change of a user at a time, or the user is mixed *)

Busy(c, u) == call[c].op \in Changing /\ call[c].user = u /\ call[c].pc \notin {"idle", "done"}

SoleChange == \A u \in Users \ mixed : \A c, d \in Calls : Busy(c, u) /\ Busy(d, u) => c = d

\* A step of a request that has begun leaves what it was asked, and for whom.
LEMMA StepWho ==
  ASSUME Sound, NEW c \in Calls, Step(c)
  PROVE  /\ call'[c].op = call[c].op
         /\ call'[c].user = call[c].user
         /\ call[c].pc \notin {"idle", "done"}
         /\ UNCHANGED mixed
         /\ parted \subseteq parted'
<1>1. call \in [Calls -> CallRow]
  BY DEF Sound, TypeOK
<1>2. \A label : Goto(c, label) => call'[c].op = call[c].op /\ call'[c].user = call[c].user
  BY <1>1 DEF Goto, CallRow
<1>3. call'[c].op = call[c].op /\ call'[c].user = call[c].user
  <2>1. CASE AnswerActivated(c)
    BY <1>1, <2>1 DEF AnswerActivated, CallRow
  <2>2. CASE ReadPatched(c)
    BY <1>1, <2>2 DEF ReadPatched, CallRow
  <2>3. QED
    BY <1>2, <2>1, <2>2
       DEF Step, IssueSession, CreatePendingTalent, AcceptInvite, ReadCaller, ServeOther, LogOut,
           SetUserStatus, RevokeSessions, SyncTalent, PatchUser, ReadSettled, UpdateTalent,
           SyncUser, Finish
<1>4. call[c].pc \notin {"idle", "done"}
  BY DEF Step, IssueSession, CreatePendingTalent, AcceptInvite, AnswerActivated, ReadCaller,
         ServeOther, LogOut, SetUserStatus, RevokeSessions, SyncTalent, ReadPatched, PatchUser,
         ReadSettled, UpdateTalent, SyncUser
<1>5. UNCHANGED mixed
  BY DEF Step, IssueSession, CreatePendingTalent, AcceptInvite, AnswerActivated, ReadCaller,
         ServeOther, LogOut, SetUserStatus, RevokeSessions, SyncTalent, ReadPatched, PatchUser,
         ReadSettled, UpdateTalent, SyncUser, ghosts
<1>6. parted \subseteq parted'
  BY DEF Step, IssueSession, CreatePendingTalent, AcceptInvite, AnswerActivated, ReadCaller,
         ServeOther, LogOut, SetUserStatus, RevokeSessions, SyncTalent, ReadPatched, PatchUser,
         ReadSettled, UpdateTalent, SyncUser, ghosts
<1>7. QED
  BY <1>3, <1>4, <1>5, <1>6

\* A request that begins: it changes nobody, or u, whom it marks as mixed when
\* another is at it.
LEMMA StepOnWho ==
  ASSUME Sound, NEW c \in Calls, NEW u \in Users, StepOn(c, u)
  PROVE  /\ call[c].pc \in {"idle", "in"}
         /\ mixed \subseteq mixed' /\ UNCHANGED parted
         /\ call'[c].pc \in {"store", "registered", "accept", "done", "set", "patch", "talent"}
         /\ \A v : Busy(c, v)' => v = u /\ Begins(c, u)
<1>1. TypeOK /\ call \in [Calls -> CallRow]
  BY DEF Sound, TypeOK
<1>2. CASE Login(c, u)
  <2>1. call'[c].pc = "store" /\ call'[c].op = "login"
    BY <1>1, <1>2 DEF Login, Idle
  <2>2. call'[c].op \notin Changing
    BY <2>1 DEF Changing, UserOps, TalentOps
  <2>3. QED
    BY <1>2, <2>1, <2>2 DEF Login, Busy, ghosts
<1>3. CASE Register(c, u)
  <2>1. call'[c].pc = "registered" /\ call'[c].user = u
    BY <1>1, <1>3 DEF Register, Idle
  <2>2. QED
    BY <1>1, <1>3, <2>1, BeginsDoes DEF Register, Busy
<1>4. CASE ReadInvite(c, u)
  <2>1. call'[c].pc = "accept" /\ call'[c].user = u
    BY <1>1, <1>4 DEF ReadInvite, Idle
  <2>2. QED
    BY <1>1, <1>4, <2>1, BeginsDoes DEF ReadInvite, Busy
<1>5. CASE Invite(c, u)
  <2>1. call'[c].pc = "done"
    BY <1>1, <1>5, GotoDoes DEF Invite, Finish, PCs
  <2>2. QED
    BY <1>5, <2>1 DEF Invite, Busy
<1>6. CASE AskUserStatus(c, u) \/ AskSwitch(c, u) \/ AskTalentStatus(c, u)
  <2>1. call'[c].pc \in {"set", "patch", "talent"} /\ call'[c].user = u
    <3>1. \E op \in Changing, label \in {"set", "patch", "talent"} : Serve(c, u, op, label)
      BY <1>6 DEF AskUserStatus, AskSwitch, AskTalentStatus, Changing
    <3>2. PICK op \in Changing, label \in {"set", "patch", "talent"} : Serve(c, u, op, label)
      BY <3>1
    <3>3. QED
      BY <1>1, <3>2, ServeDoes DEF PCs
  <2>2. QED
    BY <1>1, <1>6, <2>1, BeginsDoes DEF AskUserStatus, AskSwitch, AskTalentStatus, Busy
<1>7. QED
  BY <1>2, <1>3, <1>4, <1>5, <1>6 DEF StepOn

\* A request that presents a token changes nobody.
LEMMA TokenWho ==
  ASSUME Sound, NEW c \in Calls, NEW k \in Tokens, PresentToken(c, k) \/ IdleToken(c, k)
  PROVE  /\ call[c].pc = "idle" /\ call'[c].pc \in {"user", "done"}
         /\ UNCHANGED <<users, talents, mixed, parted>>
         /\ \A v : ~Busy(c, v)'
<1>1. TypeOK /\ call \in [Calls -> CallRow]
  BY DEF Sound, TypeOK
<1>2. CASE PresentToken(c, k)
  <2>1. call'[c].pc = "user" /\ call'[c].op = "use"
    BY <1>1, <1>2 DEF PresentToken, Idle
  <2>2. QED
    BY <1>2, <2>1 DEF PresentToken, Busy, Changing, UserOps, TalentOps
<1>3. CASE IdleToken(c, k)
  <2>1. call'[c].pc = "done"
    BY <1>1, <1>3, GotoDoes DEF IdleToken, Finish, PCs
  <2>2. QED
    BY <1>3, <2>1 DEF IdleToken, Busy, ghosts
<1>4. QED
  BY <1>2, <1>3

LEMMA NextSole == Sound /\ SoleChange /\ [Next]_vars => SoleChange'
<1> SUFFICES ASSUME Sound, SoleChange, [Next]_vars PROVE SoleChange'
  OBVIOUS
<1>1. ASSUME NEW c \in Calls, mixed \subseteq mixed', \A d \in Calls \ {c} : call'[d] = call[d],
             \A u \in Users \ mixed' : Busy(c, u)' => \A d \in Calls \ {c} : ~Busy(d, u)
      PROVE  SoleChange'
  BY <1>1 DEF SoleChange, Busy
<1>2. ASSUME NEW c \in Calls, Step(c) PROVE SoleChange'
  <2>1. \A d \in Calls \ {c} : call'[d] = call[d]
    BY <1>2, OneMoves
  <2>2. \A u : Busy(c, u)' => Busy(c, u)
    BY <1>2, StepWho DEF Busy
  <2>3. QED
    BY <1>1, <1>2, <2>1, <2>2, StepWho DEF SoleChange
<1>3. ASSUME NEW c \in Calls, NEW u \in Users, StepOn(c, u) PROVE SoleChange'
  <2>1. \A d \in Calls \ {c} : call'[d] = call[d]
    BY <1>3, OneMoves
  <2>2. \A v \in Users \ mixed' : Busy(c, v)' => \A d \in Calls \ {c} : ~Busy(d, v)
    BY <1>3, StepOnWho, BeginsDoes DEF Busy, Sound
  <2>3. QED
    BY <1>1, <1>3, <2>1, <2>2, StepOnWho
<1>4. ASSUME NEW c \in Calls, NEW k \in Tokens, PresentToken(c, k) \/ IdleToken(c, k)
      PROVE  SoleChange'
  BY <1>1, <1>4, OneMoves, TokenWho
<1>5. CASE UNCHANGED vars
  BY <1>5 DEF SoleChange, Busy, vars, ghosts
<1>6. QED
  BY <1>2, <1>3, <1>4, <1>5 DEF Next

-----------------------------------------------------------------------------
(* The user's and the talent's status *)

\* The requests that have written one of the two statuses and not the other.
Syncing(c) == call[c].pc = "sync" \/ (call[c].pc = "revoke" /\ call[c].op \in DOMAIN UserOps)
AtOdds(c) == Syncing(c) \/ call[c].pc \in {"registered", "syncUser"}

Followed(u) == u \in TalentUsers \ (mixed \cup parted)

\* What such a request has written is still there, and the status that
\* PatchUser does not pass on parts the user.
MidChange(c) ==
  Followed(call[c].user) =>
    /\ call[c].pc = "registered" => users[call[c].user].status = "pending"
    /\ Syncing(c) => /\ users[call[c].user].status = UserOps[call[c].op]
                     /\ talents[call[c].user] # "absent"
    /\ call[c].pc = "syncUser" => talents[call[c].user] = TalentOps[call[c].op]
    /\ call[c].pc # "settled"
    /\ ~(call[c].pc = "revoke" /\ call[c].op \in Switches)

Agree(u) == talents[u] = TalentStatusFor(users[u].status)

Steady(u) == \A c \in Calls : call[c].user = u => ~AtOdds(c)

AgreeInv ==
  /\ \A c \in Calls : MidChange(c)
  /\ \A u \in TalentUsers : Followed(u) /\ Exists(u) /\ Steady(u) => Agree(u)

LEMMA AtOddsBusy ==
  ASSUME Sound, NEW c \in Calls, AtOdds(c) \/ call[c].pc \in {"settled", "patched", "revoke"}
  PROVE  Busy(c, call[c].user) /\ call[c].user \in Users /\ Exists(call[c].user)
BY OpStatuses
   DEF Sound, CallsSound, CallSound, AtOdds, Syncing, Busy, Changing, Switches, OnUser, PCs

\* A step that writes neither status, and leaves no difference behind.
LEMMA AgreeQuiet ==
  ASSUME Sound, AgreeInv, NEW c \in Calls,
         \A d \in Calls \ {c} : call'[d] = call[d],
         UNCHANGED <<users, talents>>, mixed \subseteq mixed', parted \subseteq parted',
         AtOdds(c) => AtOdds(c)' /\ call'[c].user = call[c].user,
         MidChange(c)'
  PROVE  AgreeInv'
<1>1. \A u : Followed(u)' => Followed(u)
  BY DEF Followed
<1>2. \A d \in Calls : MidChange(d)'
  <2> SUFFICES ASSUME NEW d \in Calls \ {c} PROVE MidChange(d)'
    OBVIOUS
  <2>1. MidChange(d) /\ call'[d] = call[d]
    BY DEF AgreeInv
  <2>2. QED
    BY <1>1, <2>1 DEF MidChange, Syncing
<1>3. \A u \in TalentUsers : Steady(u)' => Steady(u)
  BY DEF Steady, AtOdds, Syncing
<1>4. \A u \in TalentUsers : Followed(u)' /\ Exists(u)' /\ Steady(u)' => Agree(u)'
  BY <1>1, <1>3 DEF AgreeInv, Agree, Exists
<1>5. QED
  BY <1>2, <1>4 DEF AgreeInv

\* A step that writes a status of user u.
LEMMA AgreeWrites ==
  ASSUME Sound, SoleChange, SoleChange', AgreeInv, NEW c \in Calls, NEW u \in Users,
         \A d \in Calls \ {c} : call'[d] = call[d],
         mixed \subseteq mixed', parted \subseteq parted',
         \A v \in Users \ {u} : users'[v] = users[v],
         \A v \in TalentUsers \ {u} : talents'[v] = talents[v],
         Busy(c, u) \/ Busy(c, u)' \/ u \notin TalentUsers,
         AtOdds(c) => call[c].user = u,
         MidChange(c)',
         Followed(u)' /\ Steady(u)' => Agree(u)'
  PROVE  AgreeInv'
<1>1. \A v : Followed(v)' => Followed(v)
  BY DEF Followed
<1>2. \A d \in Calls : MidChange(d)'
  <2> SUFFICES ASSUME NEW d \in Calls \ {c}, Followed(call[d].user)' PROVE MidChange(d)'
    BY DEF MidChange
  <2>1. MidChange(d) /\ call'[d] = call[d] /\ call[d].user \in TalentUsers /\ call[d].user \in Users
    BY DEF AgreeInv, Followed, Users
  <2>2. CASE call[d].user # u
    BY <1>1, <2>1, <2>2 DEF MidChange, Syncing, Followed
  <2>3. CASE call[d].user = u
    <3>1. u \in Users \ mixed /\ u \in Users \ mixed'
      BY <2>1, <2>3 DEF Followed
    <3>2. ~Busy(d, u)
      <4>1. Busy(d, u) => Busy(d, u)'
        BY <2>1 DEF Busy
      <4>2. QED
        BY <2>1, <2>3, <3>1, <4>1 DEF SoleChange
    <3>3. ~(AtOdds(d) \/ call[d].pc \in {"settled", "patched", "revoke"})
      BY <2>3, <3>2, AtOddsBusy
    <3>4. QED
      BY <2>1, <3>3 DEF MidChange, AtOdds, Syncing
  <2>4. QED
    BY <2>2, <2>3
<1>3. \A v \in TalentUsers \ {u} : Steady(v)' => Steady(v)
  BY DEF Steady, AtOdds, Syncing
<1>4. \A v \in TalentUsers \ {u} : Followed(v)' /\ Exists(v)' /\ Steady(v)' => Agree(v)'
  BY <1>1, <1>3 DEF AgreeInv, Agree, Exists, Users
<1>5. QED
  BY <1>2, <1>4 DEF AgreeInv

\* The step that ends or begins a request, or only reads.
LEMMA AgreeReads ==
  ASSUME Sound, AgreeInv, NEW c \in Calls,
         \A d \in Calls \ {c} : call'[d] = call[d],
         UNCHANGED <<users, talents>>, mixed \subseteq mixed', parted \subseteq parted',
         ~AtOdds(c),
         call'[c].pc \notin {"registered", "sync", "revoke", "syncUser", "settled"}
  PROVE  AgreeInv'
BY AgreeQuiet DEF MidChange, Syncing

LEMMA StepAgreeQuiet ==
  ASSUME Sound, AgreeInv, NEW c \in Calls,
         \/ IssueSession(c) \/ AnswerActivated(c) \/ ReadCaller(c) \/ ServeOther(c) \/ LogOut(c)
         \/ RevokeSessions(c) \/ ReadPatched(c) \/ ReadSettled(c)
  PROVE  AgreeInv'
<1>1. TypeOK /\ call \in [Calls -> CallRow] /\ call[c] \in CallRow
  BY DEF Sound, TypeOK
<1>2. /\ \A d \in Calls \ {c} : call'[d] = call[d]
      /\ call'[c].op = call[c].op /\ call'[c].user = call[c].user
      /\ mixed \subseteq mixed' /\ parted \subseteq parted'
  BY OneMoves, StepWho DEF Step
<1>3. UNCHANGED <<users, talents>>
  BY DEF IssueSession, AnswerActivated, ReadCaller, ServeOther, LogOut, RevokeSessions,
         ReadPatched, ReadSettled
<1>4. CASE RevokeSessions(c)
  <2>1. call[c].pc = "revoke" /\ call'[c].pc = (IF call[c].op \in DOMAIN UserOps THEN "sync" ELSE "done")
    BY <1>1, <1>4, GotoDoes DEF RevokeSessions, PCs
  <2>2. AtOdds(c) => AtOdds(c)'
    BY <2>1 DEF AtOdds, Syncing
  <2>3. MidChange(c)'
    <3>1. MidChange(c)
      BY DEF AgreeInv
    <3>2. Followed(call[c].user)' => Followed(call[c].user)
      BY <1>2 DEF Followed
    <3>3. QED
      BY <1>2, <1>3, <2>1, <3>1, <3>2 DEF MidChange, Syncing
  <2>4. QED
    BY <1>2, <1>3, <2>2, <2>3, AgreeQuiet
<1>5. CASE ReadSettled(c)
  <2>1. call[c].pc = "settled" /\ call'[c].pc \in {"revoke", "done"}
    BY <1>1, <1>5, GotoDoes DEF ReadSettled, PCs
  <2>2. ~Followed(call[c].user)'
    BY <1>2, <2>1 DEF AgreeInv, MidChange, Followed
  <2>3. MidChange(c)' /\ ~AtOdds(c)
    BY <2>1, <2>2 DEF MidChange, AtOdds, Syncing
  <2>4. QED
    BY <1>2, <1>3, <2>3, AgreeQuiet
<1>6. CASE \/ IssueSession(c) \/ AnswerActivated(c) \/ ReadCaller(c) \/ ServeOther(c) \/ LogOut(c)
           \/ ReadPatched(c)
  <2>1. call[c].pc \in {"store", "activated", "user", "in", "patch"}
    BY <1>6 DEF IssueSession, AnswerActivated, ReadCaller, ServeOther, LogOut, ReadPatched
  <2>2. call'[c].pc \in {"done", "in", "patched"}
    <3>1. Finish(c) => call'[c].pc = "done"
      BY <1>1, GotoDoes DEF Finish, PCs
    <3>2. Goto(c, "in") => call'[c].pc = "in"
      BY <1>1, GotoDoes DEF PCs
    <3>3. CASE AnswerActivated(c) \/ ReadPatched(c)
      BY <1>1, <3>3 DEF AnswerActivated, ReadPatched, CallRow
    <3>4. QED
      BY <1>6, <3>1, <3>2, <3>3 DEF IssueSession, ReadCaller, ServeOther, LogOut
  <2>3. ~AtOdds(c)
    BY <2>1 DEF AtOdds, Syncing
  <2>4. QED
    BY <1>2, <1>3, <2>2, <2>3, AgreeReads
<1>7. QED
  BY <1>4, <1>5, <1>6

\* What holds before and after a step that writes a status.
LEMMA WriterFacts ==
  ASSUME Sound, SoleChange, AgreeInv, NEW c \in Calls, Step(c),
         call[c].op \in Changing, call[c].user \in Users
  PROVE  /\ TypeOK /\ Busy(c, call[c].user)
         /\ \A d \in Calls \ {c} : call'[d] = call[d]
         /\ call'[c].op = call[c].op /\ call'[c].user = call[c].user
         /\ mixed' = mixed /\ parted \subseteq parted'
         /\ Followed(call[c].user) /\ ~AtOdds(c) => Steady(call[c].user)
<1>1. /\ \A d \in Calls \ {c} : call'[d] = call[d]
      /\ call'[c].op = call[c].op /\ call'[c].user = call[c].user
      /\ mixed' = mixed /\ parted \subseteq parted'
      /\ Busy(c, call[c].user)
  BY OneMoves, StepWho DEF Busy
<1>2. ASSUME Followed(call[c].user), ~AtOdds(c), NEW d \in Calls, call[d].user = call[c].user
      PROVE  ~AtOdds(d)
  <2>1. call[c].user \in Users \ mixed
    BY <1>2 DEF Followed
  <2>2. AtOdds(d) => d = c
    BY <1>1, <1>2, <2>1, AtOddsBusy DEF SoleChange
  <2>3. QED
    BY <1>2, <2>2
<1>3. QED
  BY <1>1, <1>2 DEF Sound, Steady

LEMMA CreatePendingAgree ==
  ASSUME Sound, SoleChange, SoleChange', AgreeInv, NEW c \in Calls, NEW u, u = call[c].user, CreatePendingTalent(c)
  PROVE  AgreeInv'
<1>1. /\ TypeOK /\ call[c].pc = "registered" /\ call[c].op = "register"
      /\ u \in TalentUsers /\ u \in Users
  BY DEF Sound, CallsSound, CallSound, CreatePendingTalent, Users
<1>2. /\ Busy(c, u)
      /\ \A d \in Calls \ {c} : call'[d] = call[d]
      /\ call'[c].user = u /\ mixed' = mixed /\ parted \subseteq parted'
  BY <1>1, WriterFacts DEF Step, Changing
<1>3. call'[c].pc = "done"
  BY <1>1, GotoDoes DEF CreatePendingTalent, Finish, TypeOK, PCs
<1>4. MidChange(c) /\ users' = users
  BY DEF AgreeInv, CreatePendingTalent
<1>5. talents' = [talents EXCEPT ![u] = "pending"] \/ (u \in parted' /\ talents' = talents)
  BY DEF CreatePendingTalent
<1>6. \A v \in TalentUsers \ {u} : talents'[v] = talents[v]
  BY <1>1, <1>5 DEF TypeOK
<1>7. Followed(u)' => talents'[u] = "pending" /\ users'[u].status = "pending"
  BY <1>1, <1>2, <1>4, <1>5 DEF MidChange, Followed, TypeOK
<1>8. MidChange(c)'
  BY <1>3 DEF MidChange, Syncing
<1>9. Followed(u)' => Agree(u)'
  BY <1>7 DEF Agree, TalentStatusFor
<1>10. QED
  BY <1>1, <1>2, <1>4, <1>6, <1>8, <1>9, AgreeWrites

LEMMA AcceptAgree ==
  ASSUME Sound, SoleChange, SoleChange', AgreeInv, NEW c \in Calls, NEW u, u = call[c].user, AcceptInvite(c)
  PROVE  AgreeInv'
<1>1. /\ TypeOK /\ call[c].pc = "accept" /\ call[c].op = "accept" /\ u \in Staff /\ u \in Users
  BY DEF Sound, CallsSound, CallSound, AcceptInvite, Users
<1>2. /\ Busy(c, u)
      /\ \A d \in Calls \ {c} : call'[d] = call[d]
      /\ call'[c].user = u /\ mixed' = mixed /\ parted \subseteq parted'
  BY <1>1, WriterFacts DEF Step, Changing
<1>3. call'[c].pc = "activated"
  BY <1>1, GotoDoes DEF AcceptInvite, TypeOK, PCs
<1>4. \A v \in Users \ {u} : users'[v] = users[v]
  BY <1>1 DEF AcceptInvite, Write, KeepUsers, TypeOK
<1>5. talents' = talents
  BY DEF AcceptInvite
<1>6. MidChange(c)' /\ ~AtOdds(c)
  BY <1>1, <1>3 DEF MidChange, Syncing, AtOdds
<1>7. ~Followed(u)'
  BY <1>1, AccountsAssumption DEF Followed
<1>8. QED
  BY <1>1, <1>2, <1>4, <1>5, <1>6, <1>7, AgreeWrites

LEMMA SetUserStatusAgree ==
  ASSUME Sound, SoleChange, SoleChange', AgreeInv, NEW c \in Calls, NEW u, u = call[c].user, SetUserStatus(c)
  PROVE  AgreeInv'
<1> DEFINE status == UserOps[call[c].op]
           row == [users[u] EXCEPT !.status = status, !.active = (status = "active"),
                                   !.deleted = @ \/ status = "deleted"]
           label == IF status = "active" THEN "sync" ELSE "revoke"
<1>1. /\ TypeOK /\ call[c].pc = "set" /\ call[c].op \in DOMAIN UserOps
      /\ u \in Users /\ Exists(u) /\ users[u] \in UserRow
  BY UserRows DEF Sound, CallsSound, CallSound, SetUserStatus, OnUser, PCs
<1>2. row.status = status
  BY <1>1 DEF UserRow
<1>3. /\ Busy(c, u)
      /\ \A d \in Calls \ {c} : call'[d] = call[d]
      /\ call'[c].op = call[c].op /\ call'[c].user = u /\ mixed' = mixed /\ parted \subseteq parted'
      /\ Followed(u) /\ ~AtOdds(c) => Steady(u)
  BY <1>1, WriterFacts DEF Step, Changing
<1>4. ~AtOdds(c) /\ talents' = talents /\ parted' = parted
  BY <1>1 DEF AtOdds, Syncing, SetUserStatus
<1>5. Followed(u) => talents[u] # "absent"
  <2>1. Followed(u) => Agree(u) /\ users[u].status \in UserStatuses
    BY <1>1, <1>3, <1>4 DEF AgreeInv, Followed, UserRow
  <2>2. QED
    BY <2>1 DEF Agree, TalentStatusFor, UserStatuses
<1>6. (Write(u, row) /\ Goto(c, label)) \/ (KeepUsers /\ Goto(c, "done"))
  BY DEF SetUserStatus, Finish
<1> HIDE DEF row
<1>7. CASE Write(u, row) /\ Goto(c, label)
  <2>1. call'[c].pc = label /\ label \in {"sync", "revoke"}
    BY <1>1, <1>7, GotoDoes DEF TypeOK, PCs
  <2>2. users'[u].status = status /\ \A v \in Users \ {u} : users'[v] = users[v]
    BY <1>1, <1>2, <1>7 DEF Write, TypeOK
  <2>3. AtOdds(c)'
    BY <1>1, <1>3, <2>1 DEF AtOdds, Syncing
  <2>4. ~Steady(u)'
    BY <1>3, <2>3 DEF Steady
  <2>5. MidChange(c)'
    <3>1. Followed(u)' => talents'[u] # "absent"
      BY <1>3, <1>4, <1>5 DEF Followed
    <3>2. call'[c].op \notin Switches /\ call'[c].pc \in {"sync", "revoke"}
      BY <1>1, <1>3, <2>1, OpStatuses DEF Switches
    <3>3. users'[u].status = UserOps[call'[c].op]
      BY <1>3, <2>2
    <3>4. QED
      BY <1>3, <3>1, <3>2, <3>3 DEF MidChange, Syncing
  <2>6. QED
    BY <1>1, <1>3, <1>4, <2>2, <2>4, <2>5, AgreeWrites
<1>8. CASE KeepUsers /\ Goto(c, "done")
  <2>1. call'[c].pc = "done"
    BY <1>1, <1>8, GotoDoes DEF TypeOK, PCs
  <2>2. QED
    BY <1>3, <1>4, <1>8, <2>1, AgreeReads DEF KeepUsers
<1>9. QED
  BY <1>6, <1>7, <1>8

LEMMA SyncTalentAgree ==
  ASSUME Sound, SoleChange, SoleChange', AgreeInv, NEW c \in Calls, NEW u, u = call[c].user,
         SyncTalent(c)
  PROVE  AgreeInv'
<1> DEFINE status == UserOps[call[c].op]
<1>1. /\ TypeOK /\ call[c].pc = "sync" /\ call[c].op \in DOMAIN UserOps /\ u \in Users
  BY DEF Sound, CallsSound, CallSound, SyncTalent, OnUser, PCs
<1>2. /\ Busy(c, u)
      /\ \A d \in Calls \ {c} : call'[d] = call[d]
      /\ call'[c].user = u /\ mixed' = mixed /\ parted \subseteq parted'
  BY <1>1, WriterFacts DEF Step, Changing
<1>3. call'[c].pc = "done"
  BY <1>1, GotoDoes DEF SyncTalent, Finish, TypeOK, PCs
<1>4. users' = users
  BY DEF SyncTalent
<1>5. Followed(u) => users[u].status = status /\ talents[u] # "absent"
  BY <1>1 DEF AgreeInv, MidChange, Syncing
<1>6. \/ u \in TalentUsers /\ talents' = [talents EXCEPT ![u] = TalentStatusFor(status)]
      \/ u \in parted' /\ talents' = talents
      \/ (u \notin TalentUsers \/ talents[u] = "absent") /\ talents' = talents
  BY DEF SyncTalent
<1>7. \A v \in TalentUsers \ {u} : talents'[v] = talents[v]
  BY <1>1, <1>6 DEF TypeOK
<1>8. Followed(u)' => Agree(u)'
  <2> SUFFICES ASSUME Followed(u)' PROVE Agree(u)'
    OBVIOUS
  <2>1. Followed(u) /\ u \notin parted' /\ u \in TalentUsers
    BY <1>2 DEF Followed
  <2>2. talents'[u] = TalentStatusFor(status)
    BY <1>1, <1>5, <1>6, <2>1 DEF TypeOK
  <2>3. users'[u].status = status
    BY <1>4, <1>5, <2>1
  <2> HIDE DEF status
  <2>4. QED
    BY <2>2, <2>3 DEF Agree, TalentStatusFor
<1>9. MidChange(c)'
  BY <1>3 DEF MidChange, Syncing
<1>10. QED
  BY <1>1, <1>2, <1>4, <1>7, <1>8, <1>9, AgreeWrites

LEMMA PatchUserAgree ==
  ASSUME Sound, SoleChange, SoleChange', AgreeInv, NEW c \in Calls, NEW u, u = call[c].user,
         PatchUser(c)
  PROVE  AgreeInv'
<1>1. /\ TypeOK /\ call[c].pc = "patched" /\ call[c].op \in Switches /\ u \in Users
  BY DEF Sound, CallsSound, CallSound, PatchUser, OnUser, PCs
<1>2. /\ Busy(c, u)
      /\ \A d \in Calls \ {c} : call'[d] = call[d]
      /\ call'[c].user = u /\ mixed' = mixed /\ parted \subseteq parted'
  BY <1>1, WriterFacts DEF Step, Changing, Switches
<1>3. ~AtOdds(c) /\ talents' = talents
  BY <1>1 DEF AtOdds, Syncing, PatchUser
<1>4. CASE (\E row : Write(u, row)) /\ parted' = parted \cup {u} /\ Goto(c, "settled")
  <2>1. \A v \in Users \ {u} : users'[v] = users[v]
    BY <1>1, <1>4 DEF Write, TypeOK
  <2>2. ~Followed(u)'
    BY <1>4 DEF Followed
  <2>3. MidChange(c)'
    BY <1>2, <2>2 DEF MidChange
  <2>4. QED
    BY <1>1, <1>2, <1>3, <2>1, <2>2, <2>3, AgreeWrites
<1>5. CASE Finish(c) /\ KeepUsers
  <2>1. call'[c].pc = "done"
    BY <1>1, <1>5, GotoDoes DEF TypeOK, PCs, Finish
  <2>2. QED
    BY <1>2, <1>3, <1>5, <2>1, AgreeReads DEF KeepUsers
<1>6. QED
  BY <1>4, <1>5 DEF PatchUser

LEMMA UpdateTalentAgree ==
  ASSUME Sound, SoleChange, SoleChange', AgreeInv, NEW c \in Calls, NEW u, u = call[c].user,
         UpdateTalent(c)
  PROVE  AgreeInv'
<1> DEFINE status == TalentOps[call[c].op]
<1>1. /\ TypeOK /\ call[c].pc = "talent" /\ call[c].op \in DOMAIN TalentOps
      /\ u \in TalentUsers /\ u \in Users
  BY DEF Sound, CallsSound, CallSound, UpdateTalent, Users
<1>2. /\ Busy(c, u)
      /\ \A d \in Calls \ {c} : call'[d] = call[d]
      /\ call'[c].op = call[c].op /\ call'[c].user = u /\ mixed' = mixed /\ parted \subseteq parted'
  BY <1>1, WriterFacts DEF Step, Changing
<1>3. ~AtOdds(c) /\ users' = users
  BY <1>1 DEF AtOdds, Syncing, UpdateTalent
<1>4. CASE talents' = [talents EXCEPT ![u] = status] /\ Goto(c, "syncUser")
  <2>1. /\ talents'[u] = status
        /\ \A v \in TalentUsers \ {u} : talents'[v] = talents[v]
    BY <1>1, <1>4 DEF TypeOK
  <2>2. call'[c].pc = "syncUser"
    BY <1>1, <1>4, GotoDoes DEF TypeOK, PCs
  <2>3. MidChange(c)'
    BY <1>2, <2>1, <2>2 DEF MidChange, Syncing
  <2>4. ~Steady(u)'
    BY <1>2, <2>2 DEF Steady, AtOdds
  <2>5. QED
    BY <1>1, <1>2, <1>3, <2>1, <2>3, <2>4, AgreeWrites
<1>5. CASE Finish(c) /\ talents' = talents
  <2>1. call'[c].pc = "done"
    BY <1>1, <1>5, GotoDoes DEF TypeOK, PCs, Finish
  <2>2. QED
    BY <1>2, <1>3, <1>5, <2>1, AgreeReads
<1>6. QED
  BY <1>4, <1>5 DEF UpdateTalent

LEMMA SyncUserAgree ==
  ASSUME Sound, SoleChange, SoleChange', AgreeInv, NEW c \in Calls, NEW u, u = call[c].user,
         SyncUser(c)
  PROVE  AgreeInv'
<1> DEFINE status == TalentOps[call[c].op]
           row == [users[u] EXCEPT !.status = status, !.active = (status = "active")]
<1>1. /\ TypeOK /\ call[c].pc = "syncUser" /\ call[c].op \in DOMAIN TalentOps
      /\ u \in TalentUsers /\ u \in Users /\ users[u] \in UserRow
  BY UserRows DEF Sound, CallsSound, CallSound, SyncUser, OnUser, PCs
<1>2. row.status = status
  BY <1>1 DEF UserRow
<1>3. /\ Busy(c, u)
      /\ \A d \in Calls \ {c} : call'[d] = call[d]
      /\ call'[c].op = call[c].op /\ call'[c].user = u /\ mixed' = mixed /\ parted \subseteq parted'
  BY <1>1, WriterFacts DEF Step, Changing
<1>4. /\ Write(u, row) \/ (KeepUsers /\ u \in parted')
      /\ talents' = talents
  BY DEF SyncUser
<1>5. call'[c].pc \in {"done", "revoke"}
  BY <1>1, GotoDoes DEF SyncUser, Finish, TypeOK, PCs
<1> HIDE DEF row
<1>6. \A v \in Users \ {u} : users'[v] = users[v]
  BY <1>1, <1>4 DEF Write, KeepUsers, TypeOK
<1>7. MidChange(c)'
  BY <1>1, <1>3, <1>5, OpStatuses DEF MidChange, Syncing, Switches
<1>8. Followed(u)' => Agree(u)'
  <2> SUFFICES ASSUME Followed(u)' PROVE Agree(u)'
    OBVIOUS
  <2>1. Followed(u) /\ u \notin parted'
    BY <1>3 DEF Followed
  <2>2. talents'[u] = status
    BY <1>1, <1>4, <2>1 DEF AgreeInv, MidChange
  <2>3. users'[u].status = status
    BY <1>1, <1>2, <1>4, <2>1 DEF Write, TypeOK
  <2>4. status \in {"active", "rejected", "suspended"}
    BY <1>1, OpStatuses
  <2> HIDE DEF status
  <2>5. QED
    BY <2>2, <2>3, <2>4 DEF Agree, TalentStatusFor
<1>9. QED
  BY <1>1, <1>3, <1>4, <1>6, <1>7, <1>8, AgreeWrites

LEMMA RegisterAgree ==
  ASSUME Sound, SoleChange, SoleChange', AgreeInv, NEW c \in Calls, NEW u \in Users, Register(c, u)
  PROVE  AgreeInv'
<1> DEFINE row == Row("pending", TRUE, "null")
<1>1. TypeOK /\ call[c].pc = "idle" /\ Write(u, row) /\ talents' = talents /\ parted' = parted
  BY DEF Sound, Register
<1>2. \A d \in Calls \ {c} : call'[d] = call[d]
  BY OneMoves DEF StepOn
<1>3. mixed \subseteq mixed'
  BY StepOnWho DEF StepOn
<1>4. call'[c].pc = "registered" /\ call'[c].op = "register" /\ call'[c].user = u
  BY <1>1 DEF Register, Idle, TypeOK
<1>5. users'[u].status = "pending" /\ \A v \in Users \ {u} : users'[v] = users[v]
  BY <1>1 DEF Write, TypeOK, Row
<1>6. Busy(c, u)' /\ ~AtOdds(c) /\ ~Steady(u)'
  BY <1>1, <1>4 DEF Busy, Changing, AtOdds, Syncing, Steady
<1>7. MidChange(c)'
  BY <1>4, <1>5 DEF MidChange, Syncing
<1> HIDE DEF row
<1>8. QED
  BY <1>1, <1>2, <1>3, <1>5, <1>6, <1>7, AgreeWrites

LEMMA InviteAgree ==
  ASSUME Sound, SoleChange, SoleChange', AgreeInv, NEW c \in Calls, NEW u \in Users, Invite(c, u)
  PROVE  AgreeInv'
<1>1. /\ TypeOK /\ call[c].pc = "in" /\ u \in Staff /\ \E row : Write(u, row)
      /\ talents' = talents /\ parted' = parted /\ mixed' = mixed
  BY DEF Sound, Invite
<1>2. \A d \in Calls \ {c} : call'[d] = call[d]
  BY OneMoves DEF StepOn
<1>3. call'[c].pc = "done"
  BY <1>1, GotoDoes DEF Invite, Finish, TypeOK, PCs
<1>4. \A v \in Users \ {u} : users'[v] = users[v]
  BY <1>1 DEF Write, TypeOK
<1>5. u \notin TalentUsers /\ ~AtOdds(c) /\ MidChange(c)'
  BY <1>1, <1>3, AccountsAssumption DEF AtOdds, Syncing, MidChange
<1>6. ~Followed(u)'
  BY <1>5 DEF Followed
<1>7. QED
  BY <1>1, <1>2, <1>4, <1>5, <1>6, AgreeWrites

LEMMA NextAgree == Sound /\ SoleChange /\ SoleChange' /\ AgreeInv /\ [Next]_vars => AgreeInv'
<1> SUFFICES ASSUME Sound, SoleChange, SoleChange', AgreeInv, [Next]_vars PROVE AgreeInv'
  OBVIOUS
<1>1. ASSUME NEW c \in Calls, Step(c) PROVE AgreeInv'
  BY <1>1, StepAgreeQuiet, CreatePendingAgree, AcceptAgree, SetUserStatusAgree, SyncTalentAgree,
     PatchUserAgree, UpdateTalentAgree, SyncUserAgree
     DEF Step
<1>2. ASSUME NEW c \in Calls, NEW u \in Users, StepOn(c, u) PROVE AgreeInv'
  <2>1. CASE Register(c, u) \/ Invite(c, u)
    BY <2>1, RegisterAgree, InviteAgree
  <2>2. CASE ~(Register(c, u) \/ Invite(c, u))
    <3>1. UNCHANGED <<users, talents>> /\ ~Register(c, u)
      BY <1>2, <2>2 DEF StepOn, Login, ReadInvite, AskUserStatus, AskSwitch, AskTalentStatus
    <3>2. \A d \in Calls \ {c} : call'[d] = call[d]
      BY <1>2, OneMoves
    <3>3. call[c].pc \in {"idle", "in"} /\ mixed \subseteq mixed' /\ UNCHANGED parted
      BY <1>2, StepOnWho
    <3>4. call'[c].pc \in {"store", "accept", "set", "patch", "talent"}
      <4> call \in [Calls -> CallRow]
        BY DEF Sound, TypeOK
      <4>1. CASE Login(c, u) \/ ReadInvite(c, u)
        <5>1. CASE Login(c, u)
          BY <5>1 DEF Login, Idle
        <5>2. CASE ReadInvite(c, u)
          BY <5>2 DEF ReadInvite, Idle
        <5>3. QED
          BY <4>1, <5>1, <5>2
      <4>2. CASE AskUserStatus(c, u) \/ AskSwitch(c, u) \/ AskTalentStatus(c, u)
        <5>1. \E op \in Changing, label \in {"set", "patch", "talent"} : Serve(c, u, op, label)
          BY <4>2 DEF AskUserStatus, AskSwitch, AskTalentStatus, Changing
        <5>2. PICK op \in Changing, label \in {"set", "patch", "talent"} : Serve(c, u, op, label)
          BY <5>1
        <5>3. QED
          BY <5>2, ServeDoes DEF PCs, Sound, TypeOK
      <4>3. QED
        BY <1>2, <2>2, <4>1, <4>2 DEF StepOn
    <3>5. ~AtOdds(c)
      BY <3>3 DEF AtOdds, Syncing
    <3>6. QED
      BY <3>1, <3>2, <3>3, <3>4, <3>5, AgreeReads
  <2>3. QED
    BY <2>1, <2>2
<1>3. ASSUME NEW c \in Calls, NEW k \in Tokens, PresentToken(c, k) \/ IdleToken(c, k)
      PROVE  AgreeInv'
  <2>1. \A d \in Calls \ {c} : call'[d] = call[d]
    BY <1>3, OneMoves
  <2>2. /\ call[c].pc = "idle" /\ call'[c].pc \in {"user", "done"}
        /\ UNCHANGED <<users, talents, mixed, parted>>
    BY <1>3, TokenWho
  <2>3. ~AtOdds(c)
    BY <2>2 DEF AtOdds, Syncing
  <2>4. QED
    BY <2>1, <2>2, <2>3, AgreeReads
<1>4. CASE UNCHANGED vars
  BY <1>4 DEF AgreeInv, MidChange, Syncing, Followed, Agree, Steady, AtOdds, Exists, vars, ghosts
<1>5. QED
  BY <1>1, <1>2, <1>3, <1>4 DEF Next

-----------------------------------------------------------------------------
(* The two halves of a user's status *)

InStep(row) == row.active = (row.status \in {"active", "pending"})

\* What PatchUser has read of the row is still there when it writes, unless
\* another change of the user is on its way.
SeenInv ==
  \A c \in Calls : call[c].pc = "patched" /\ call[c].user \notin mixed =>
    users[call[c].user].status = call[c].seen.status

ActiveInv == ActiveFollowsStatus /\ SeenInv

LEMMA ActiveAgain ==
  ASSUME Sound, Sound', SoleChange, SoleChange', ActiveInv, NEW c \in Calls,
         \A d \in Calls \ {c} : call'[d] = call[d],
         mixed \subseteq mixed',
         call'[c].pc = "patched" => UNCHANGED users /\ call'[c].seen = users'[call'[c].user],
         \/ UNCHANGED users
         \/ \E u \in Users, row \in UserRow :
              /\ Write(u, row)
              /\ u \notin mixed' => InStep(row)
              /\ Busy(c, u) \/ Busy(c, u)' \/ ~Exists(u)
  PROVE  ActiveInv'
<1>1. CASE UNCHANGED users
  <2>1. ActiveFollowsStatus'
    BY <1>1 DEF ActiveInv, ActiveFollowsStatus, Exists
  <2>2. SeenInv'
    BY <1>1 DEF ActiveInv, SeenInv
  <2>3. QED
    BY <2>1, <2>2 DEF ActiveInv
<1>2. ASSUME NEW u \in Users, NEW row \in UserRow, Write(u, row),
             u \notin mixed' => InStep(row),
             Busy(c, u) \/ Busy(c, u)' \/ ~Exists(u), ~UNCHANGED users
      PROVE  ActiveInv'
  <2>1. users'[u] = row /\ \A v \in Users \ {u} : users'[v] = users[v]
    BY <1>2 DEF Write, Sound, TypeOK
  <2>2. ActiveFollowsStatus'
    <3> SUFFICES ASSUME NEW v \in Users \ mixed', Exists(v)'
                 PROVE  users'[v].active = (users'[v].status \in {"active", "pending"})
      BY DEF ActiveFollowsStatus
    <3>1. CASE v = u
      BY <1>2, <2>1, <3>1 DEF InStep
    <3>2. CASE v # u
      <4>1. users'[v] = users[v] /\ Exists(v) /\ v \in Users \ mixed
        BY <2>1, <3>2 DEF Exists
      <4>2. QED
        BY <4>1 DEF ActiveInv, ActiveFollowsStatus
    <3>3. QED
      BY <3>1, <3>2
  <2>3. SeenInv'
    <3> SUFFICES ASSUME NEW d \in Calls \ {c}, call'[d].pc = "patched", call'[d].user \notin mixed'
                 PROVE  users'[call'[d].user].status = call'[d].seen.status
      BY <1>2 DEF SeenInv
    <3>1. call'[d] = call[d] /\ call[d].user \notin mixed /\ call[d].pc = "patched"
      OBVIOUS
    <3>2. users[call[d].user].status = call[d].seen.status
      BY <3>1 DEF ActiveInv, SeenInv
    <3>3. Busy(d, call[d].user) /\ call[d].user \in Users /\ Exists(call[d].user)
      BY <3>1, AtOddsBusy
    <3>4. CASE call[d].user = u
      <4>1. Busy(d, u) /\ Busy(d, u)' /\ u \in Users \ mixed /\ u \in Users \ mixed'
        BY <3>1, <3>3, <3>4 DEF Busy
      <4>2. d = c
        BY <1>2, <3>3, <3>4, <4>1 DEF SoleChange
      <4>3. QED
        BY <4>2
    <3>5. CASE call[d].user # u
      BY <2>1, <3>1, <3>2, <3>3, <3>5
    <3>6. QED
      BY <3>4, <3>5
  <2>4. QED
    BY <2>2, <2>3 DEF ActiveInv
<1>3. QED
  BY <1>1, <1>2

\* The rows that the steps of a request write keep Active in step with Status.
LEMMA StepActive ==
  ASSUME Sound, Sound', SoleChange, SoleChange', ActiveInv, NEW c \in Calls, NEW u,
         u = call[c].user, Step(c)
  PROVE  ActiveInv'
<1>1. /\ TypeOK /\ call[c] \in CallRow
      /\ \A d \in Calls \ {c} : call'[d] = call[d]
      /\ call'[c].user = u /\ mixed' = mixed
  BY OneMoves, StepWho DEF Sound, TypeOK
<1>2. CASE AcceptInvite(c)
  <2> DEFINE row == [users[u] EXCEPT !.status = "active", !.active = TRUE, !.invite = "empty"]
  <2>1. /\ u \in Users /\ users[u] \in UserRow /\ Busy(c, u) /\ call'[c].pc = "activated"
    BY <1>1, <1>2, UserRows, GotoDoes
       DEF Sound, TypeOK, CallsSound, CallSound, AcceptInvite, OnUser, PCs, Busy, Changing
  <2>2. row \in UserRow /\ InStep(row)
    BY <2>1 DEF UserRow, UserStatuses, InStep
  <2>3. UNCHANGED users \/ Write(u, row)
    BY <1>2 DEF AcceptInvite, KeepUsers
  <2> HIDE DEF row
  <2>4. QED
    BY <1>1, <2>1, <2>2, <2>3, ActiveAgain
<1>3. CASE SetUserStatus(c)
  <2> DEFINE status == UserOps[call[c].op]
             row == [users[u] EXCEPT !.status = status, !.active = (status = "active"),
                                     !.deleted = @ \/ status = "deleted"]
  <2>1. /\ u \in Users /\ users[u] \in UserRow /\ Busy(c, u)
        /\ call[c].op \in DOMAIN UserOps
        /\ call'[c].pc # "patched"
    BY <1>1, <1>3, UserRows, GotoDoes
       DEF Sound, TypeOK, CallsSound, CallSound, SetUserStatus, Finish, OnUser, PCs, Busy, Changing
  <2>2. status \in {"suspended", "banned", "active", "deleted"}
    BY <2>1, OpStatuses
  <2>3. UNCHANGED users \/ Write(u, row)
    BY <1>3 DEF SetUserStatus, KeepUsers
  <2> HIDE DEF status
  <2>4. row \in UserRow /\ row.status = status /\ row.active = (status = "active")
    <3>1. (users[u].deleted \/ status = "deleted") \in BOOLEAN /\ (status = "active") \in BOOLEAN
      OBVIOUS
    <3>2. row \in UserRow
      BY <2>1, <2>2, <3>1, NewRows DEF UserStatuses
    <3>3. DOMAIN users[u] = {"status", "active", "deleted", "invite"}
      BY <2>1 DEF UserRow
    <3>4. row.status = status
      BY <3>3
    <3>5. row.active = (status = "active")
      BY <3>3
    <3>6. QED
      BY <3>2, <3>4, <3>5
  <2> HIDE DEF row
  <2>5. InStep(row)
    BY <2>2, <2>4 DEF InStep
  <2>6. QED
    BY <1>1, <2>1, <2>3, <2>4, <2>5, ActiveAgain
<1>4. CASE PatchUser(c)
  <2> DEFINE on == call[c].op = "switchOn"
             status == SwitchedStatus(on, call[c].seen.status, users[u].status)
             row == [users[u] EXCEPT !.status = status, !.active = on]
  <2>1. /\ u \in Users /\ users[u] \in UserRow /\ Busy(c, u) /\ call[c].pc = "patched"
        /\ call'[c].pc # "patched"
    BY <1>1, <1>4, UserRows, GotoDoes
       DEF Sound, TypeOK, CallsSound, CallSound, PatchUser, Finish, OnUser, PCs, Busy, Changing,
           Switches
  <2>2. UNCHANGED users \/ (Write(u, row) /\ status # "refused")
    BY <1>4 DEF PatchUser, KeepUsers
  <2>3. u \notin mixed => users[u].status = call[c].seen.status
    BY <2>1 DEF ActiveInv, SeenInv
  <2>4. status # "refused" => status \in UserStatuses
    BY <2>1 DEF SwitchedStatus, UserRow, UserStatuses
  <2>5. status # "refused" /\ u \notin mixed => on = (status \in {"active", "pending"})
    BY <2>3 DEF SwitchedStatus
  <2>6. status # "refused" => row \in UserRow /\ row.status = status /\ row.active = on
    BY <2>1, <2>4 DEF UserRow
  <2> HIDE DEF row, status, on
  <2>7. QED
    BY <1>1, <2>1, <2>2, <2>5, <2>6, ActiveAgain DEF InStep
<1>5. CASE SyncUser(c)
  <2> DEFINE status == TalentOps[call[c].op]
             row == [users[u] EXCEPT !.status = status, !.active = (status = "active")]
  <2>1. /\ u \in Users /\ users[u] \in UserRow /\ Busy(c, u)
        /\ call[c].op \in DOMAIN TalentOps
        /\ call'[c].pc # "patched"
    BY <1>1, <1>5, UserRows, GotoDoes
       DEF Sound, TypeOK, CallsSound, CallSound, SyncUser, Finish, OnUser, PCs, Busy, Changing
  <2>2. status \in {"active", "rejected", "suspended"}
    BY <2>1, OpStatuses
  <2>3. UNCHANGED users \/ Write(u, row)
    BY <1>5 DEF SyncUser, KeepUsers
  <2> HIDE DEF status
  <2>4. row \in UserRow /\ row.status = status /\ row.active = (status = "active")
    <3>1. (users[u].deleted \/ status = "deleted") \in BOOLEAN /\ (status = "active") \in BOOLEAN
      OBVIOUS
    <3>2. row \in UserRow
      BY <2>1, <2>2, <3>1, NewRows DEF UserStatuses
    <3>3. DOMAIN users[u] = {"status", "active", "deleted", "invite"}
      BY <2>1 DEF UserRow
    <3>4. row.status = status
      BY <3>3
    <3>5. row.active = (status = "active")
      BY <3>3
    <3>6. QED
      BY <3>2, <3>4, <3>5
  <2> HIDE DEF row
  <2>5. InStep(row)
    BY <2>2, <2>4 DEF InStep
  <2>6. QED
    BY <1>1, <2>1, <2>3, <2>4, <2>5, ActiveAgain
<1>6. CASE ReadPatched(c)
  <2>1. UNCHANGED users /\ call'[c].seen = users[u]
    BY <1>1, <1>6 DEF ReadPatched, CallRow, Sound, TypeOK
  <2>2. QED
    BY <1>1, <2>1, ActiveAgain
<1>7. CASE \/ IssueSession(c) \/ CreatePendingTalent(c) \/ AnswerActivated(c)
           \/ ReadCaller(c) \/ ServeOther(c) \/ LogOut(c)
           \/ RevokeSessions(c) \/ SyncTalent(c) \/ ReadSettled(c) \/ UpdateTalent(c)
  <2>1. UNCHANGED users
    BY <1>7 DEF IssueSession, CreatePendingTalent, AnswerActivated, ReadCaller, ServeOther, LogOut,
                RevokeSessions, SyncTalent, ReadSettled, UpdateTalent
  <2>2. call'[c].pc # "patched"
    <3>1. CASE AnswerActivated(c)
      BY <1>1, <3>1 DEF AnswerActivated, CallRow, Sound, TypeOK
    <3>2. \A label \in PCs : Goto(c, label) => call'[c].pc = label
      BY GotoDoes DEF Sound, TypeOK
    <3>3. QED
      BY <1>7, <3>1, <3>2
         DEF IssueSession, CreatePendingTalent, ReadCaller, ServeOther, LogOut, RevokeSessions,
             SyncTalent, ReadSettled, UpdateTalent, Finish, PCs
  <2>3. QED
    BY <1>1, <2>1, <2>2, ActiveAgain
<1>8. QED
  BY <1>2, <1>3, <1>4, <1>5, <1>6, <1>7 DEF Step

LEMMA StepOnActive ==
  ASSUME Sound, Sound', SoleChange, SoleChange', ActiveInv, NEW c \in Calls, NEW u \in Users,
         StepOn(c, u)
  PROVE  ActiveInv'
<1>1. TypeOK
  BY DEF Sound
<1>2. /\ \A d \in Calls \ {c} : call'[d] = call[d]
      /\ mixed \subseteq mixed' /\ call'[c].pc # "patched"
  BY OneMoves, StepOnWho
<1>3. CASE Register(c, u)
  <2> DEFINE row == Row("pending", TRUE, "null")
  <2>1. row \in UserRow /\ InStep(row)
    <3>1. row \in UserRow
      BY NewRows DEF UserStatuses
    <3>2. row.status = "pending" /\ row.active = TRUE
      BY DEF Row
    <3> HIDE DEF row
    <3>3. QED
      BY <3>1, <3>2 DEF InStep
  <2>2. Write(u, row) /\ ~Exists(u)
    BY <1>3 DEF Register
  <2> HIDE DEF row
  <2>3. QED
    BY <1>2, <2>1, <2>2, ActiveAgain
<1>4. CASE Invite(c, u)
  <2> DEFINE row == Row("invited", FALSE, "open")
  <2>1. row \in UserRow /\ InStep(row)
    <3>1. row \in UserRow
      BY NewRows DEF UserStatuses
    <3>2. row.status = "invited" /\ row.active = FALSE
      BY DEF Row
    <3> HIDE DEF row
    <3>3. row.status \notin {"active", "pending"}
      BY <3>2
    <3>4. (row.status \in {"active", "pending"}) = FALSE
      BY <3>3
    <3>5. QED
      BY <3>1, <3>2, <3>4, Zenon DEF InStep
  <2>2. Write(u, row) /\ ~Exists(u)
    BY <1>4 DEF Invite
  <2> HIDE DEF row
  <2>3. QED
    BY <1>2, <2>1, <2>2, ActiveAgain
<1>5. CASE ~(Register(c, u) \/ Invite(c, u))
  <2>1. UNCHANGED users
    BY <1>5 DEF StepOn, Login, ReadInvite, AskUserStatus, AskSwitch, AskTalentStatus
  <2>2. QED
    BY <1>2, <2>1, ActiveAgain
<1>6. QED
  BY <1>3, <1>4, <1>5

LEMMA NextActive ==
  Sound /\ Sound' /\ SoleChange /\ SoleChange' /\ ActiveInv /\ [Next]_vars => ActiveInv'
<1> SUFFICES ASSUME Sound, Sound', SoleChange, SoleChange', ActiveInv, [Next]_vars PROVE ActiveInv'
  OBVIOUS
<1>1. ASSUME NEW c \in Calls, NEW k \in Tokens, PresentToken(c, k) \/ IdleToken(c, k)
      PROVE  ActiveInv'
  <2>1. /\ \A d \in Calls \ {c} : call'[d] = call[d]
        /\ UNCHANGED <<users, mixed>> /\ call'[c].pc # "patched"
    BY <1>1, OneMoves, TokenWho
  <2>2. QED
    BY <2>1, ActiveAgain
<1>2. CASE UNCHANGED vars
  BY <1>2 DEF ActiveInv, ActiveFollowsStatus, SeenInv, Exists, vars, ghosts
<1>3. QED
  BY <1>1, <1>2, StepActive, StepOnActive DEF Next

LEMMA InitChanges == Init => SoleChange /\ AgreeInv /\ ActiveInv
<1> SUFFICES ASSUME Init PROVE SoleChange /\ AgreeInv /\ ActiveInv
  OBVIOUS
<1>1. \A c \in Calls : call[c] = Idle
  BY DEF Init
<1>2. SoleChange
  BY <1>1 DEF SoleChange, Busy, Idle
<1>3. \A u \in TalentUsers : Exists(u) => Agree(u)
  BY DEF Init, Users, Exists, Agree, TalentStatusFor, Row, Absent
<1>4. AgreeInv
  BY <1>1, <1>3 DEF AgreeInv, MidChange, Syncing, Idle
<1>5. \A u \in Users : Exists(u) => users[u].active = (users[u].status \in {"active", "pending"})
  <2> SUFFICES ASSUME NEW u \in Users, Exists(u)
               PROVE  users[u].active = (users[u].status \in {"active", "pending"})
    OBVIOUS
  <2>1. \/ users[u] = Row("active", TRUE, "null")
        \/ users[u] = Row("pending", TRUE, "null")
        \/ users[u] = Row("invited", FALSE, "open")
    BY DEF Init, Exists
  <2>2. CASE users[u] = Row("active", TRUE, "null")
    <3>1. users[u].status = "active" /\ users[u].active = TRUE
      BY <2>2 DEF Row
    <3>2. QED
      BY <3>1
  <2>3. CASE users[u] = Row("pending", TRUE, "null")
    <3>1. users[u].status = "pending" /\ users[u].active = TRUE
      BY <2>3 DEF Row
    <3>2. QED
      BY <3>1
  <2>4. CASE users[u] = Row("invited", FALSE, "open")
    <3>1. users[u].status = "invited" /\ users[u].active = FALSE
      BY <2>4 DEF Row
    <3>2. users[u].status \notin {"active", "pending"}
      BY <3>1
    <3>3. (users[u].status \in {"active", "pending"}) = FALSE
      BY <3>2
    <3>4. QED
      BY <3>1, <3>3, Zenon
  <2>5. QED
    BY <2>1, <2>2, <2>3, <2>4
<1>6. ActiveInv
  BY <1>1, <1>5 DEF ActiveInv, ActiveFollowsStatus, SeenInv, Idle
<1>7. QED
  BY <1>2, <1>4, <1>6

StatusInv == SoleChange /\ AgreeInv /\ ActiveInv

LEMMA StatusStep == Sound /\ Sound' /\ StatusInv /\ [Next]_vars => StatusInv'
BY NextSole, NextAgree, NextActive DEF StatusInv

\* Once no call is changing a talent, the user's status and the talent's agree,
\* unless two calls changed them at a time, a write failed, or PatchUser
\* switched the account; and Active is in step with Status but beside another
\* change of the same user (internal/src/admin/service.go:85-130, 152, 201).
THEOREM StatusesCorrect == Spec => []StatusesInStep
<1>1. Init => StatusInv
  BY InitChanges DEF StatusInv
<1>2. Sound /\ StatusInv => StatusesInStep
  <2> SUFFICES ASSUME Sound, StatusInv PROVE StatusesInStep
    OBVIOUS
  <2>1. ASSUME NEW u \in TalentUsers,
               \A c \in Calls : call[c].op \in Changing /\ call[c].user = u => call[c].pc = "done"
        PROVE  Steady(u)
    BY <2>1, AtOddsBusy DEF Steady, Busy
  <2>2. StatusesAgree
    BY <2>1 DEF StatusInv, AgreeInv, StatusesAgree, Followed, Agree
  <2>3. QED
    BY <2>2 DEF StatusInv, ActiveInv, StatusesInStep
<1>3. QED
  BY <1>1, <1>2, StatusStep, SoundAlways, PTL DEF Spec
=============================================================================
