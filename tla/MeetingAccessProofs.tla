------------------------ MODULE MeetingAccessProofs ------------------------
(***************************************************************************)
(* Accounts, the meetings they own and who may see them, for any number of *)
(* people, requests, meetings, logins, display credentials and deletion    *)
(* workers: the inductive invariant behind AccessInv, part by part.        *)
(***************************************************************************)
EXTENDS MeetingAccess, FiniteSetTheorems, FunctionTheorems, TLAPS

LoginPcs == {"exchange", "verified", "known"}
Pcs == {"idle", "opening", "answer", "display", "drain"} \cup LoginPcs
           \cup AccountOperations \cup OwnerOperations
RequestRows == [pc : Pcs, login : 0 .. MaxLogins, subject : Subjects \cup {None},
                user : {Nobody} \cup Users, token : Nat, meeting : Meetings \cup {None}]
WebRows == [state : {"none", "live", "revoked", "withdrawn"}, user : {Nobody} \cup Users,
            login : 0 .. MaxLogins]
MeetingRows == [state : {"none", "open", "ended", "deleting", "gone"}, owner : {Nobody} \cup Users]
JobRows == [state : {"none", "pending", "processing"}, holder : Workers \cup {None}, live : BOOLEAN]
Claims == [pc : {"idle", "claimed", "destroyed", "failing"}, meeting : Meetings \cup {None}]
ViewRows == [meeting : Meetings \cup {None}, state : {"none", "live", "revoked", "expired"}]

\* Accounts and Web Sessions: a live one has its account, a withdrawn one its receipt, and
\* each is of a login that is over.
Rows ==
    /\ user \in [Subjects -> {Nobody} \cup Users] /\ created \in 0 .. MaxUsers
    /\ attempt \in [Logins -> {"none", "saved", "gone"}] /\ receipt \subseteq Tokens
    /\ web \in [Tokens -> WebRows]
    /\ \A t \in Tokens :
          /\ web[t].state = "live" => web[t].user \in Users /\ Exists(web[t].user)
          /\ web[t].state = "none" => web[t].login = 0
          /\ web[t].state = "withdrawn" => t \in receipt
          /\ web[t].login # 0 => attempt[web[t].login] = "gone"
    /\ OneSessionPerLogin

\* Meetings: what is kept has its account and its key, what is fenced its job.
Owned ==
    /\ meeting \in [Meetings -> MeetingRows] /\ key \subseteq Meetings
    /\ job \in [Meetings -> JobRows]
    /\ \A m \in Meetings :
          /\ meeting[m].state \in {"open", "ended"} =>
                 meeting[m].owner \in Users /\ Exists(meeting[m].owner) /\ m \in key
          /\ meeting[m].state = "gone" => m \notin key
          /\ job[m].state # "none" <=> meeting[m].state = "deleting"

\* A worker never has a claim on a meeting that somebody may still use.
Claimed ==
    /\ worker \in [Workers -> Claims]
    /\ \A w \in Workers : worker[w].pc # "idle" =>
          worker[w].meeting \in Meetings /\ meeting[worker[w].meeting].state \in {"deleting", "gone"}

Displayed ==
    /\ view \in [Views -> ViewRows]
    /\ \A v \in Views : view[v] = NoView \/ (view[v].state # "none" /\ view[v].meeting \in Meetings)
    /\ offered \in {AccountOperations, OwnerOperations}

\* What a request knows when it gives way to others.
Knows(q) ==
    /\ q.pc = "opening" => /\ q.meeting \in Meetings /\ q.meeting \in key
                           /\ meeting[q.meeting] = NoMeeting
                           /\ q.user \in Users /\ Exists(q.user)
    /\ q.pc \in LoginPcs => /\ q.login \in Logins /\ attempt[q.login] = "gone"
                            /\ \A t \in Tokens : web[t].login # q.login
    /\ q.pc = "verified" => q.subject \in Subjects
    /\ q.pc \in {"known", "open"} => q.user \in Users
    /\ q.pc = "withdraw" => /\ q.token \in Tokens /\ q.user \in Users
                            /\ web[q.token].user = q.user /\ web[q.token].state # "none"
    /\ q.pc = "logout" => q.token \in Tokens
    /\ q.pc = "drain" => q.meeting \in Meetings /\ meeting[q.meeting].state # "none"
    /\ q.pc = "answer" => /\ q.meeting \in Meetings /\ meeting[q.meeting].state # "none"
                          /\ \/ meeting[q.meeting].state = "gone"
                             \/ meeting[q.meeting].owner = q.user
    /\ q.pc = "display" => /\ q.token \in Views /\ view[q.token].state # "none"
                           /\ view[q.token].meeting = q.meeting

\* Two requests never open meetings, or use one login, at the same time.
Apart(p, q) ==
    /\ ~(p.pc = "opening" /\ q.pc = "opening")
    /\ p.pc \in LoginPcs /\ q.pc \in LoginPcs => p.login # q.login

Requested ==
    /\ request \in [Requests -> RequestRows]
    /\ \A r \in Requests : Knows(request[r])
    /\ \A r, k \in Requests : r # k => Apart(request[r], request[k])

\* The inductive invariant.
AccessInd == Rows /\ Owned /\ Claimed /\ Displayed /\ Requested

LEMMA Bounds ==
    /\ MaxUsers \in Nat /\ MaxLogins \in Nat /\ MaxViews \in Nat /\ Nobody \notin Users
    /\ None \notin Subjects /\ None \notin Meetings /\ Newcomers \subseteq Subjects
    /\ \A n \in Logins : n \in 0 .. MaxLogins /\ n # 0 /\ n \in Nat
    /\ \A t \in Tokens : t \in Nat
    /\ \A v \in Views : v \in Nat
    /\ 0 \in 0 .. MaxLogins /\ 0 \in Nat
BY AccountAssumption, AccessAssumption DEF Users, Logins, Tokens, Views, Nobody

LEMMA AccessIndIsInv == AccessInd => AccessInv
<1> SUFFICES ASSUME AccessInd PROVE AccessInv
    OBVIOUS
<1>1. TypeOK /\ AccessTypeOK
    BY DEF AccessInd, Rows, Owned, Displayed, TypeOK, AccessTypeOK, WebRows, MeetingRows, JobRows,
           ViewRows
<1>2. NoOrphanMeeting /\ KeyFollowsMeeting
    BY DEF AccessInd, Owned, NoOrphanMeeting, KeyFollowsMeeting, Kept
<1>3. OneSessionPerLogin /\ NoLoginOutlivesAccount
    BY DEF AccessInd, Rows, NoLoginOutlivesAccount
<1>4. WithdrawalIsAnswered
    <2> SUFFICES ASSUME NEW r \in Requests, request[r].pc = "withdraw", ~Exists(request[r].user),
                        web[request[r].token].state # "revoked"
                 PROVE  request[r].token \in receipt
        BY DEF WithdrawalIsAnswered
    <2> DEFINE t == request[r].token
    <2>1. t \in Tokens /\ web[t].user = request[r].user /\ web[t].state # "none"
        BY DEF AccessInd, Requested, Knows
    <2>2. web[t].state # "live"
        BY <2>1 DEF AccessInd, Rows
    <2>3. web[t].state \in {"none", "live", "revoked", "withdrawn"}
        BY <2>1 DEF AccessInd, Rows, WebRows
    <2> QED BY <2>1, <2>2, <2>3 DEF AccessInd, Rows
<1>5. DisplaysWhatGoesOn
    BY DEF AccessInd, Displayed, Owned, DisplaysWhatGoesOn, Shows, NoView
<1>6. AnswersToItsOwner
    BY DEF AccessInd, Requested, Knows, AnswersToItsOwner
<1> QED BY <1>1, <1>2, <1>3, <1>4, <1>5, <1>6 DEF AccessInv, AccountInv

-----------------------------------------------------------------------------
(* Requests.                                                               *)

\* What most steps leave true of everything a request or a worker knows.
AccountsStay == \A u \in Users : Exists(u) => Exists(u)'

LoginsGoOn ==
    /\ \A n \in Logins : attempt[n] = "gone" => attempt'[n] = "gone"
    /\ \A t \in Tokens : /\ web'[t].login = web[t].login /\ web'[t].user = web[t].user
                         /\ web[t].state # "none" => web'[t].state # "none"

MeetingsGoOn ==
    \A m \in Meetings :
        /\ meeting[m] = NoMeeting => meeting'[m] = NoMeeting /\ (m \in key => m \in key')
        /\ meeting[m].state # "none" => meeting'[m].state # "none"
        /\ meeting[m].state = "gone" => meeting'[m].state = "gone"
        /\ meeting[m].state = "deleting" => meeting'[m].state \in {"deleting", "gone"}
        /\ \/ meeting'[m].owner = meeting[m].owner
           \/ meeting'[m].state = "gone"

ViewsGoOn ==
    \A v \in Views : view[v].state # "none" =>
        view'[v].state # "none" /\ view'[v].meeting = view[v].meeting

Monotone == AccountsStay /\ LoginsGoOn /\ MeetingsGoOn /\ ViewsGoOn

LEMMA KnowsMore == ASSUME Monotone, NEW q, Knows(q) PROVE Knows(q)'
<1> USE DEF Knows, Monotone, AccountsStay, LoginsGoOn, MeetingsGoOn, ViewsGoOn, LoginPcs
<1>1. CASE q.pc = "opening"
    BY <1>1
<1>2. CASE q.pc \in LoginPcs
    BY <1>2
<1>3. CASE q.pc = "answer"
    BY <1>3
<1>4. CASE q.pc \notin LoginPcs \cup {"opening", "answer"}
    BY <1>4
<1> QED BY <1>1, <1>2, <1>3, <1>4

\* The requests other than r.
Others(r) == {request[k] : k \in Requests \ {r}}

LEMMA OneRequest ==
    ASSUME Requested, NEW r \in Requests, NEW q \in RequestRows, request' = [request EXCEPT ![r] = q],
           Knows(q)', \A p \in Others(r) : Knows(p) => Knows(p)' /\ Apart(p, q)
    PROVE  Requested'
<1>1. request' \in [Requests -> RequestRows] /\ request'[r] = q
      /\ \A k \in Requests : k # r => request'[k] = request[k] /\ request[k] \in Others(r)
    BY DEF Requested, Others
<1>2. ASSUME NEW k \in Requests PROVE Knows(request[k])'
    <2>1. CASE k = r
        BY <1>1, <2>1 DEF Knows
    <2>2. CASE k # r
        <3>1. PICK p : p = request[k]
            OBVIOUS
        <3>2. Knows(p) /\ p \in Others(r) /\ request'[k] = p
            BY <1>1, <2>2, <3>1 DEF Requested
        <3>3. Knows(p)'
            BY <3>2
        <3> QED BY <3>2, <3>3 DEF Knows
    <2> QED BY <2>1, <2>2
<1>3. ASSUME NEW k \in Requests, NEW j \in Requests, k # j PROVE Apart(request[k], request[j])'
    <2>1. \A i \in Requests : i # r => Apart(request[i], q) /\ Apart(q, request[i])
        BY <1>1 DEF Requested, Apart
    <2>2. Apart(request'[k], request'[j])
        BY <1>1, <1>3, <2>1 DEF Requested
    <2> QED BY <2>2 DEF Apart
<1> QED BY <1>1, <1>2, <1>3 DEF Requested

LEMMA NoRequestMoves == ASSUME Requested, Monotone, UNCHANGED request PROVE Requested'
<1>1. ASSUME NEW k \in Requests PROVE Knows(request[k])'
    <2>1. PICK p : p = request[k]
        OBVIOUS
    <2>2. Knows(p) /\ request'[k] = p
        BY <2>1 DEF Requested
    <2>3. Knows(p)'
        BY <2>2, KnowsMore
    <2> QED BY <2>2, <2>3 DEF Knows
<1> QED BY <1>1 DEF Requested, Apart

\* A request that knows nothing any more.
LEMMA Quiet ==
    /\ NoRequest \in RequestRows /\ Knows(NoRequest)' /\ \A p : Apart(p, NoRequest)
BY Bounds DEF NoRequest, RequestRows, Pcs, Knows, Apart, LoginPcs, Nobody

LEMMA RequestEnds == ASSUME Requested, Monotone, NEW r \in Requests, Done(r) PROVE Requested'
BY OneRequest, KnowsMore, Quiet DEF Done

-----------------------------------------------------------------------------
(* Accounts and Web Sessions.                                              *)

LEMMA RowsStay == ASSUME Rows, UNCHANGED identity PROVE Rows'
BY DEF Rows, identity, Exists, OneSessionPerLogin

\* A step on logins that are not over.
LEMMA AttemptMoves ==
    ASSUME Rows, NEW n \in Logins, attempt[n] # "gone", NEW x \in {"saved", "gone"},
           attempt' = [attempt EXCEPT ![n] = x], UNCHANGED <<user, created, web, receipt>>
    PROVE  Rows' /\ \A k \in Logins : attempt[k] = "gone" => attempt'[k] = "gone"
<1>1. attempt' \in [Logins -> {"none", "saved", "gone"}]
      /\ \A k \in Logins : k # n => attempt'[k] = attempt[k]
    BY DEF Rows
<1>2. \A t \in Tokens : web[t].login # 0 => web[t].login \in Logins
    BY Bounds DEF Rows, WebRows, Logins
<1>3. \A t \in Tokens : web[t].login # 0 => attempt'[web[t].login] = "gone"
    BY <1>1, <1>2 DEF Rows
<1> QED BY <1>1, <1>3 DEF Rows, Exists, OneSessionPerLogin

\* The row of one token that had no session, or whose session was live.
LEMMA SessionRevoked ==
    ASSUME Rows, NEW t \in Tokens, web[t].state = "live",
           web' = [web EXCEPT ![t].state = "revoked"], UNCHANGED <<user, created, attempt, receipt>>
    PROVE  Rows'
<1>1. web' \in [Tokens -> WebRows]
    BY DEF Rows, WebRows
<1>2. \A k \in Tokens : /\ web'[k].user = web[k].user /\ web'[k].login = web[k].login
                        /\ web'[k].state = IF k = t THEN "revoked" ELSE web[k].state
    BY DEF Rows, WebRows
<1> QED BY <1>1, <1>2 DEF Rows, Exists, OneSessionPerLogin

LEMMA AccountFound ==
    ASSUME Rows, NEW r \in Requests, request[r].subject \in Subjects, get_or_create_user(r)
    PROVE  Rows' /\ \A u \in Users : Exists(u) => Exists(u)'
<1> DEFINE s == request[r].subject
           u == IF user[s] = Nobody THEN created + 1 ELSE user[s]
<1>1. /\ u \in Users /\ user' = [user EXCEPT ![s] = u]
      /\ created' = IF user[s] = Nobody THEN u ELSE created
      /\ UNCHANGED <<attempt, web, receipt>>
    BY DEF get_or_create_user
<1> HIDE DEF u
<1>2. created' \in 0 .. MaxUsers
    BY <1>1 DEF Rows, Users
<1>3. \A k \in Subjects : user[k] \in Users => user'[k] = user[k]
    BY <1>1, Bounds DEF Rows, u
<1>4. \A v \in Users : Exists(v) => Exists(v)'
    BY <1>3 DEF Exists
<1> QED BY <1>1, <1>2, <1>4 DEF Rows, OneSessionPerLogin

LEMMA SessionIssued ==
    ASSUME Rows, NEW q, Knows(q), q.pc = "known", Exists(q.user), NEW t \in FreeTokens,
           web' = [web EXCEPT ![t] = [state |-> "live", user |-> q.user, login |-> q.login]],
           UNCHANGED <<user, created, attempt, receipt>>
    PROVE  Rows'
<1>1. q.user \in Users /\ q.login \in Logins /\ attempt[q.login] = "gone"
      /\ \A k \in Tokens : web[k].login # q.login
    BY DEF Knows, LoginPcs
<1>2. web' \in [Tokens -> WebRows]
    BY <1>1, Bounds DEF Rows, WebRows, FreeTokens
<1>3. \A k \in Tokens : web'[k] = IF k = t THEN [state |-> "live", user |-> q.user, login |-> q.login]
                                  ELSE web[k]
    BY DEF Rows
<1>4. OneSessionPerLogin'
    BY <1>1, <1>3 DEF Rows, OneSessionPerLogin
<1>5. ASSUME NEW k \in Tokens
      PROVE  /\ web'[k].state = "live" => web'[k].user \in Users /\ Exists(web[k].user)'
             /\ web'[k].state = "none" => web'[k].login = 0
             /\ web'[k].state = "withdrawn" => k \in receipt'
             /\ web'[k].login # 0 => attempt'[web'[k].login] = "gone"
    BY <1>1, <1>3 DEF Rows, Exists
<1> QED BY <1>2, <1>4, <1>5 DEF Rows

LEMMA SessionsWithdrawn ==
    ASSUME Rows, NEW r \in Requests, Withdraw(r)
    PROVE  /\ Rows' /\ \A u \in Users : u # request[r].user /\ Exists(u) => Exists(u)'
           /\ \A t \in Tokens : /\ web'[t].login = web[t].login /\ web'[t].user = web[t].user
                                /\ web[t].state # "none" => web'[t].state # "none"
<1> DEFINE u == request[r].user
           Goes(t) == web[t].user = u /\ web[t].state = "live"
<1>1. /\ receipt' = receipt \cup {t \in Tokens : Goes(t)}
      /\ user' = [s \in Subjects |-> IF user[s] = u THEN Nobody ELSE user[s]]
      /\ web' = [t \in Tokens |-> IF Goes(t) THEN [web[t] EXCEPT !.state = "withdrawn"] ELSE web[t]]
      /\ UNCHANGED <<created, attempt>>
    BY DEF Withdraw, Receipts
<1>2. user' \in [Subjects -> {Nobody} \cup Users]
    BY <1>1 DEF Rows
<1>3. \A v \in Users : v # u /\ Exists(v) => Exists(v)'
    BY <1>1 DEF Exists, Rows
<1>4. \A t \in Tokens : /\ web'[t].login = web[t].login /\ web'[t].user = web[t].user
                        /\ web'[t].state = IF Goes(t) THEN "withdrawn" ELSE web[t].state
    BY <1>1 DEF Rows, WebRows
<1>5. web' \in [Tokens -> WebRows]
    BY <1>1 DEF Rows, WebRows
<1>6. ASSUME NEW t \in Tokens
      PROVE  /\ web'[t].state = "live" => web'[t].user \in Users /\ Exists(web[t].user)'
             /\ web'[t].state = "none" => web'[t].login = 0
             /\ web'[t].state = "withdrawn" => t \in receipt'
             /\ web'[t].login # 0 => attempt'[web'[t].login] = "gone"
    <2>1. web'[t].state = "live" => web[t].state = "live" /\ web[t].user # u
        BY <1>4
    <2>2. web'[t].state = "live" => web'[t].user \in Users /\ Exists(web[t].user)'
        BY <2>1, <1>3, <1>4 DEF Rows
    <2> QED BY <1>1, <1>4, <2>2 DEF Rows, Exists
<1>7. OneSessionPerLogin'
    BY <1>4 DEF Rows, OneSessionPerLogin
<1> QED BY <1>1, <1>2, <1>3, <1>4, <1>5, <1>6, <1>7 DEF Rows

-----------------------------------------------------------------------------
(* Meetings, their keys and their deletion jobs.                           *)

LEMMA OwnedStays == ASSUME Owned, UNCHANGED <<meeting, key, job>>, AccountsStay PROVE Owned'
BY DEF Owned, AccountsStay

LEMMA Waits == ASSUME UNCHANGED <<meeting, key>> PROVE MeetingsGoOn
BY DEF MeetingsGoOn

LEMMA MeetingFenced ==
    ASSUME Owned, NEW ms \in SUBSET Kept, Fenced(ms), UNCHANGED key,
           \A m \in Kept \ ms : Exists(meeting[m].owner)'
    PROVE  Owned' /\ MeetingsGoOn
<1>1. \A m \in Meetings : /\ meeting'[m].state = IF m \in ms THEN "deleting" ELSE meeting[m].state
                          /\ meeting'[m].owner = meeting[m].owner
                          /\ m \notin ms => meeting'[m] = meeting[m]
                          /\ job'[m].state = IF m \in ms THEN "pending" ELSE job[m].state
    BY DEF Owned, Fenced, MeetingRows, NoJob
<1>2. meeting' \in [Meetings -> MeetingRows]
    BY DEF Owned, Fenced, MeetingRows
<1>3. job' \in [Meetings -> JobRows]
    BY DEF Owned, Fenced, JobRows, NoJob
<1>4. \A m \in ms : m \in Meetings /\ meeting[m].state \in {"open", "ended"}
    BY DEF Kept
<1>5. MeetingsGoOn
    BY <1>1, <1>4 DEF MeetingsGoOn, NoMeeting
<1>6. ASSUME NEW m \in Meetings
      PROVE  /\ meeting'[m].state \in {"open", "ended"} =>
                    meeting'[m].owner \in Users /\ Exists(meeting[m].owner)' /\ m \in key'
             /\ meeting'[m].state = "gone" => m \notin key'
             /\ job'[m].state # "none" <=> meeting'[m].state = "deleting"
    BY <1>1, <1>4 DEF Owned, Kept
<1> QED BY <1>2, <1>3, <1>5, <1>6 DEF Owned

LEMMA KeyCreated ==
    ASSUME Owned, NEW m \in Meetings, meeting[m] = NoMeeting, key' = key \cup {m},
           UNCHANGED <<user, meeting, job>>
    PROVE  Owned' /\ MeetingsGoOn
BY DEF Owned, MeetingsGoOn, NoMeeting, Exists

\* What a commit says of the meeting that was opened.
LEMMA MeetingOpened ==
    ASSUME Owned, NEW q, Knows(q), q.pc = "opening", UNCHANGED <<user, key, job>>,
           meeting' = [meeting EXCEPT ![q.meeting] = [NoMeeting EXCEPT !.state = "open",
                                                                       !.owner = q.user]]
    PROVE  Owned' /\ \A k \in Meetings : k # q.meeting => meeting'[k] = meeting[k]
<1>1. /\ q.meeting \in Meetings /\ q.meeting \in key /\ meeting[q.meeting] = NoMeeting
      /\ q.user \in Users /\ Exists(q.user)
    BY DEF Knows
<1>2. /\ meeting'[q.meeting].state = "open" /\ meeting'[q.meeting].owner = q.user
      /\ \A k \in Meetings : k # q.meeting => meeting'[k] = meeting[k]
    BY <1>1 DEF Owned, NoMeeting
<1>3. meeting' \in [Meetings -> MeetingRows]
    BY <1>1 DEF Owned, MeetingRows, NoMeeting
<1>4. ASSUME NEW k \in Meetings
      PROVE  /\ meeting'[k].state \in {"open", "ended"} =>
                    meeting'[k].owner \in Users /\ Exists(meeting[k].owner)' /\ k \in key'
             /\ meeting'[k].state = "gone" => k \notin key'
             /\ job'[k].state # "none" <=> meeting'[k].state = "deleting"
    BY <1>1, <1>2 DEF Owned, Exists, NoMeeting
<1> QED BY <1>2, <1>3, <1>4 DEF Owned

LEMMA MeetingEnded ==
    ASSUME Owned, NEW m \in Meetings, NEW x, x = meeting[m].state \/ x = "ended",
           meeting[m].state = "open" \/ (meeting[m].state # "none" /\ x = meeting[m].state),
           meeting' = [meeting EXCEPT ![m].state = x], UNCHANGED <<user, key, job>>
    PROVE  Owned' /\ MeetingsGoOn
<1>1. /\ meeting' \in [Meetings -> MeetingRows]
      /\ \A k \in Meetings : /\ meeting'[k].owner = meeting[k].owner
                             /\ meeting'[k].state = IF k = m THEN x ELSE meeting[k].state
                             /\ k # m => meeting'[k] = meeting[k]
    BY DEF Owned, MeetingRows
<1>2. Owned'
    BY <1>1 DEF Owned, Exists
<1> QED BY <1>1, <1>2 DEF MeetingsGoOn, NoMeeting

\* A step of a job that stays.
LEMMA JobMoves ==
    ASSUME Owned, NEW m \in Meetings, job[m].state # "none",
           NEW j \in JobRows, j.state # "none", job' = [job EXCEPT ![m] = j],
           UNCHANGED <<user, meeting, key>>
    PROVE  Owned'
BY DEF Owned, Exists

LEMMA KeyDestroyed ==
    ASSUME Owned, NEW m \in Meetings, meeting[m].state \in {"deleting", "gone"},
           key' \in {key, key \ {m}}, UNCHANGED <<user, meeting, job>>
    PROVE  Owned' /\ MeetingsGoOn
BY DEF Owned, MeetingsGoOn, NoMeeting, Exists

LEMMA MeetingPurged ==
    ASSUME Owned, NEW m \in Meetings, meeting[m].state = "deleting", m \notin key, Purged(m),
           UNCHANGED <<user, key>>
    PROVE  Owned' /\ MeetingsGoOn
<1>1. /\ meeting' \in [Meetings -> MeetingRows] /\ job' \in [Meetings -> JobRows]
      /\ meeting'[m].state = "gone" /\ job'[m].state = "none"
      /\ \A k \in Meetings : k # m => meeting'[k] = meeting[k] /\ job'[k] = job[k]
    BY Bounds DEF Owned, Purged, MeetingRows, NoMeeting, JobRows, NoJob, Nobody
<1>2. Owned'
    BY <1>1 DEF Owned, Exists
<1> QED BY <1>1, <1>2 DEF MeetingsGoOn, NoMeeting

-----------------------------------------------------------------------------
(* Deletion workers.                                                       *)

LEMMA ClaimsStay == ASSUME Claimed, MeetingsGoOn, UNCHANGED worker PROVE Claimed'
BY DEF Claimed, MeetingsGoOn

\* A worker that goes on with its claim, takes one, or has none.
LEMMA ClaimMoves ==
    ASSUME Claimed, MeetingsGoOn, NEW w \in Workers, NEW c \in Claims,
           worker' = [worker EXCEPT ![w] = c],
           c.pc # "idle" => c.meeting \in Meetings /\ meeting'[c.meeting].state \in {"deleting", "gone"}
    PROVE  Claimed'
BY DEF Claimed, MeetingsGoOn

\* The job a worker holds is that of a meeting that is being deleted.
LEMMA HeldIsDeleting ==
    ASSUME Owned, Claimed, NEW w \in Workers, worker[w].pc # "idle"
    PROVE  /\ worker[w].meeting \in Meetings /\ worker[w] \in Claims
           /\ meeting[worker[w].meeting].state \in {"deleting", "gone"}
           /\ Holds(w) => /\ meeting[worker[w].meeting].state = "deleting"
                          /\ job[worker[w].meeting].state # "none"
BY DEF Owned, Claimed, Holds

-----------------------------------------------------------------------------
(* The steps.                                                              *)

LEMMA IdentityStays == ASSUME UNCHANGED identity PROVE AccountsStay /\ LoginsGoOn
BY DEF identity, AccountsStay, LoginsGoOn, Exists

LEMMA DisplayStays == ASSUME Displayed, UNCHANGED <<view, offered>> PROVE Displayed' /\ ViewsGoOn
BY DEF Displayed, ViewsGoOn

\* What a request other than r knows, and how it is apart from r.
LEMMA OthersKnow ==
    ASSUME Requested, NEW r \in Requests, NEW p \in Others(r)
    PROVE  Knows(p) /\ Apart(p, request[r]) /\ p \in RequestRows
BY DEF Requested, Others

LEMMA RequestMoves ==
    ASSUME Requested, Monotone, NEW r \in Requests, NEW q \in RequestRows,
           request' = [request EXCEPT ![r] = q], Knows(q)', \A p \in Others(r) : Apart(p, q)
    PROVE  Requested'
BY OneRequest, KnowsMore

\* A request that neither opens a meeting nor logs in.
LEMMA Alone == ASSUME NEW q, q.pc \notin LoginPcs \cup {"opening"} PROVE \A p : Apart(p, q)
BY DEF Apart

\* A login and its Web Session.
LEMMA AttemptStep ==
    ASSUME AccessInd, UNCHANGED <<view, offered>>, NEW n \in Logins,
           SaveAttempt(n) \/ AttemptExpires(n)
    PROVE  AccessInd'
<1>1. /\ UNCHANGED <<user, created, web, receipt, request, meeting, key, job, worker>>
      /\ attempt[n] # "gone"
      /\ \E x \in {"saved", "gone"} : attempt' = [attempt EXCEPT ![n] = x]
    BY DEF SaveAttempt, AttemptExpires, deletion
<1>2. Rows' /\ \A k \in Logins : attempt[k] = "gone" => attempt'[k] = "gone"
    BY <1>1, AttemptMoves DEF AccessInd
<1>3. Monotone /\ Displayed'
    BY <1>1, <1>2, Waits, DisplayStays DEF AccessInd, Monotone, AccountsStay, LoginsGoOn, Exists
<1> QED BY <1>1, <1>2, <1>3, OwnedStays, ClaimsStay, NoRequestMoves DEF AccessInd, Monotone

LEMMA ConsumeStep ==
    ASSUME AccessInd, UNCHANGED <<view, offered>>, NEW r \in Requests, NEW n \in Logins,
           ConsumeAttempt(r, n)
    PROVE  AccessInd'
<1>1. /\ UNCHANGED <<user, created, web, receipt, meeting, key, job, worker>>
      /\ attempt[n] = "saved" /\ attempt' = [attempt EXCEPT ![n] = "gone"]
    BY DEF ConsumeAttempt, Consumed, deletion
<1>2. Rows' /\ \A k \in Logins : attempt[k] = "gone" => attempt'[k] = "gone"
    BY <1>1, AttemptMoves DEF AccessInd
<1>3. Monotone /\ Displayed'
    BY <1>1, <1>2, Waits, DisplayStays DEF AccessInd, Monotone, AccountsStay, LoginsGoOn, Exists
<1>4. PICK q : q = [NoRequest EXCEPT !.pc = "exchange", !.login = n]
    OBVIOUS
<1>5. q \in RequestRows /\ q.pc = "exchange" /\ q.login = n
    BY <1>4, Bounds DEF NoRequest, RequestRows, Pcs, LoginPcs, Nobody
<1>6. attempt'[n] = "gone" /\ \A t \in Tokens : web[t].login # n
    BY <1>1, Bounds DEF AccessInd, Rows
<1>7. Knows(q)'
    BY <1>1, <1>5, <1>6 DEF Knows, LoginPcs
<1>8. \A p \in Others(r) : Apart(p, q)
    BY <1>1, <1>5, OthersKnow DEF AccessInd, Knows, Apart
<1>9. request' = [request EXCEPT ![r] = q]
    BY <1>4 DEF ConsumeAttempt
<1>10. Requested'
    BY <1>3, <1>5, <1>7, <1>8, <1>9, RequestMoves DEF AccessInd
<1> QED BY <1>1, <1>2, <1>3, <1>10, OwnedStays, ClaimsStay DEF AccessInd, Monotone

LEMMA ExchangeStep ==
    ASSUME AccessInd, UNCHANGED <<view, offered>>, NEW r \in Requests, Exchange(r)
    PROVE  AccessInd'
<1>1. UNCHANGED <<identity, meeting, key, job, worker>> /\ request[r].pc = "exchange"
    BY DEF Exchange, deletion
<1>2. Monotone /\ Rows' /\ Displayed' /\ Owned' /\ Claimed'
    BY <1>1, RowsStay, IdentityStays, DisplayStays, Waits, OwnedStays, ClaimsStay
       DEF AccessInd, Monotone
<1>3. Requested'
    <2>1. CASE Done(r)
        BY <1>2, <2>1, RequestEnds DEF AccessInd
    <2>2. ASSUME NEW s \in Newcomers,
                 request' = [request EXCEPT ![r].pc = "verified", ![r].subject = s]
          PROVE  Requested'
        <3>1. PICK q : q = [request[r] EXCEPT !.pc = "verified", !.subject = s]
            OBVIOUS
        <3>2. request[r] \in RequestRows /\ Knows(request[r])
            BY DEF AccessInd, Requested
        <3>3. /\ q \in RequestRows /\ q.pc = "verified" /\ q.login = request[r].login
              /\ q.subject = s /\ s \in Subjects
            BY <3>1, <3>2, Bounds DEF RequestRows, Pcs, LoginPcs
        <3>4. Knows(q)'
            BY <1>1, <3>2, <3>3 DEF Knows, LoginPcs, identity
        <3>5. \A p \in Others(r) : Apart(p, q)
            BY <1>1, <3>3, OthersKnow DEF AccessInd, Apart, LoginPcs
        <3>6. request' = [request EXCEPT ![r] = q]
            BY <2>2, <3>1
        <3> QED BY <1>2, <3>3, <3>4, <3>5, <3>6, RequestMoves DEF AccessInd
    <2> QED BY <2>1, <2>2 DEF Exchange, IdTokens
<1> QED BY <1>2, <1>3 DEF AccessInd

LEMMA UserStep ==
    ASSUME AccessInd, UNCHANGED <<view, offered>>, NEW r \in Requests, get_or_create_user(r)
    PROVE  AccessInd'
<1>1. /\ UNCHANGED <<attempt, web, receipt, meeting, key, job, worker>>
      /\ request[r].pc = "verified" /\ request[r].subject \in Subjects
    BY DEF get_or_create_user, deletion, AccessInd, Requested, Knows
<1>2. Rows' /\ AccountsStay
    BY <1>1, AccountFound DEF AccessInd, AccountsStay
<1>3. Monotone /\ Displayed'
    BY <1>1, <1>2, Waits, DisplayStays DEF AccessInd, Monotone, LoginsGoOn
<1>4. PICK u \in Users : request' = [request EXCEPT ![r].pc = "known", ![r].user = u]
    BY DEF get_or_create_user
<1>5. PICK q : q = [request[r] EXCEPT !.pc = "known", !.user = u]
    OBVIOUS
<1>6. request[r] \in RequestRows /\ Knows(request[r])
    BY DEF AccessInd, Requested
<1>7. q \in RequestRows /\ q.pc = "known" /\ q.login = request[r].login /\ q.user = u
    BY <1>5, <1>6 DEF RequestRows, Pcs, LoginPcs
<1>8. Knows(q)'
    BY <1>1, <1>6, <1>7 DEF Knows, LoginPcs
<1>9. \A p \in Others(r) : Apart(p, q)
    BY <1>1, <1>7, OthersKnow DEF AccessInd, Apart, LoginPcs
<1>10. request' = [request EXCEPT ![r] = q]
    BY <1>4, <1>5
<1>11. Requested'
    BY <1>3, <1>7, <1>8, <1>9, <1>10, RequestMoves DEF AccessInd
<1> QED BY <1>1, <1>2, <1>3, <1>11, OwnedStays, ClaimsStay DEF AccessInd, Monotone

LEMMA SessionStep ==
    ASSUME AccessInd, UNCHANGED <<view, offered>>, NEW r \in Requests, issue_web_session(r)
    PROVE  AccessInd'
<1> DEFINE q == request[r]
<1>1. /\ UNCHANGED <<user, created, attempt, receipt, meeting, key, job, worker>>
      /\ q.pc = "known" /\ Knows(q) /\ Done(r)
    BY DEF issue_web_session, deletion, AccessInd, Requested
<1>2. AccountsStay /\ MeetingsGoOn /\ ViewsGoOn /\ Displayed'
    BY <1>1, Waits, DisplayStays DEF AccessInd, AccountsStay, Exists
<1>3. CASE UNCHANGED web
    <2>1. Rows' /\ Monotone
        BY <1>1, <1>2, <1>3, RowsStay, IdentityStays DEF AccessInd, Monotone, identity
    <2>2. Requested'
        BY <1>1, <2>1, RequestEnds DEF AccessInd
    <2> QED BY <1>1, <1>2, <2>1, <2>2, OwnedStays, ClaimsStay DEF AccessInd
<1>4. ASSUME Exists(q.user), NEW t \in FreeTokens,
             web' = [web EXCEPT ![t] = [state |-> "live", user |-> q.user, login |-> q.login]]
      PROVE  AccessInd'
    <2>1. Rows'
        BY <1>1, <1>4, SessionIssued DEF AccessInd
    <2>2. \A k \in Tokens : k # t => web'[k] = web[k]
        BY <1>4 DEF AccessInd, Rows
    <2>3. t \in Tokens /\ web'[t].login = q.login /\ web[t].state = "none"
        BY <1>4 DEF AccessInd, Rows, FreeTokens
    <2>4. ASSUME NEW p \in Others(r) PROVE Knows(p)'
        <3>1. Knows(p) /\ (p.pc \in LoginPcs => p.login # q.login)
            BY <1>1, OthersKnow DEF AccessInd, Apart, LoginPcs
        <3> QED BY <1>1, <1>2, <2>2, <2>3, <3>1
                DEF Knows, AccountsStay, LoginPcs
    <2>5. Requested'
        BY <1>1, <2>4, OneRequest, Quiet DEF AccessInd, Done
    <2> QED BY <1>1, <1>2, <2>1, <2>5, OwnedStays, ClaimsStay DEF AccessInd
<1> QED BY <1>3, <1>4 DEF issue_web_session

LEMMA RevokeStep ==
    ASSUME AccessInd, UNCHANGED <<view, offered>>, NEW t \in Tokens, RevokeWebSession(t)
    PROVE  AccessInd'
<1>1. /\ UNCHANGED <<user, created, attempt, receipt, request, meeting, key, job, worker>>
      /\ web[t].state = "live" /\ web' = [web EXCEPT ![t].state = "revoked"]
    BY DEF RevokeWebSession, deletion
<1>2. Rows'
    BY <1>1, SessionRevoked DEF AccessInd
<1>3. LoginsGoOn
    BY <1>1 DEF AccessInd, Rows, WebRows, LoginsGoOn
<1>4. Monotone /\ Displayed'
    BY <1>1, <1>3, Waits, DisplayStays DEF AccessInd, Monotone, AccountsStay, Exists
<1> QED BY <1>1, <1>2, <1>4, OwnedStays, ClaimsStay, NoRequestMoves DEF AccessInd, Monotone

LEMMA AuthenticateStep ==
    ASSUME AccessInd, UNCHANGED <<view, offered>>, NEW r \in Requests, NEW t \in Tokens,
           NEW o \in offered, Authenticate(r, t, o)
    PROVE  AccessInd'
<1>1. UNCHANGED <<identity, meeting, key, job, worker>> /\ web[t].state = "live"
    BY DEF Authenticate, deletion
<1>2. Monotone /\ Rows' /\ Displayed' /\ Owned' /\ Claimed'
    BY <1>1, RowsStay, IdentityStays, DisplayStays, Waits, OwnedStays, ClaimsStay
       DEF AccessInd, Monotone
<1>3. PICK q : q = [NoRequest EXCEPT !.pc = o, !.token = t, !.user = web[t].user]
    OBVIOUS
<1>4. o \in AccountOperations \cup OwnerOperations
    BY DEF AccessInd, Displayed
<1>5. web[t].user \in Users
    BY <1>1 DEF AccessInd, Rows
<1>6. q \in RequestRows /\ q.pc = o /\ q.token = t /\ q.user = web[t].user
    BY <1>3, <1>4, <1>5, Bounds DEF NoRequest, RequestRows, Pcs
<1>7. Knows(q)'
    BY <1>1, <1>4, <1>5, <1>6 DEF Knows, LoginPcs, AccountOperations, OwnerOperations, identity
<1>8. \A p \in Others(r) : Apart(p, q)
    BY <1>4, <1>6, Alone DEF LoginPcs, AccountOperations, OwnerOperations
<1>9. request' = [request EXCEPT ![r] = q]
    BY <1>3 DEF Authenticate
<1>10. Requested'
    BY <1>2, <1>6, <1>7, <1>8, <1>9, RequestMoves DEF AccessInd
<1> QED BY <1>2, <1>10 DEF AccessInd

\* A meeting is opened.
LEMMA OpenStep ==
    ASSUME AccessInd, UNCHANGED <<view, offered>>, NEW r \in Requests, NEW m \in Meetings,
           OpenSession(r, m)
    PROVE  AccessInd'
<1>1. /\ UNCHANGED <<identity, meeting, job, worker>> /\ key' = key \cup {m}
      /\ request[r].pc = "open" /\ meeting[m] = NoMeeting /\ Exists(request[r].user)
      /\ \A k \in Requests : request[k].pc # "opening"
    BY DEF OpenSession, ActiveUser, deletion
<1>2. Owned' /\ MeetingsGoOn
    BY <1>1, KeyCreated DEF AccessInd, identity
<1>3. Monotone /\ Rows' /\ Displayed' /\ Claimed'
    BY <1>1, <1>2, RowsStay, IdentityStays, DisplayStays, ClaimsStay DEF AccessInd, Monotone
<1>4. PICK q : q = [request[r] EXCEPT !.pc = "opening", !.meeting = m]
    OBVIOUS
<1>5. request[r] \in RequestRows /\ request[r].user \in Users
    BY <1>1 DEF AccessInd, Requested, Knows
<1>6. q \in RequestRows /\ q.pc = "opening" /\ q.meeting = m /\ q.user = request[r].user
    BY <1>4, <1>5 DEF RequestRows, Pcs
<1>7. Knows(q)'
    BY <1>1, <1>5, <1>6 DEF Knows, LoginPcs, identity, Exists
<1>8. \A p \in Others(r) : Apart(p, q)
    BY <1>1, <1>6 DEF Others, Apart, LoginPcs
<1>9. request' = [request EXCEPT ![r] = q]
    BY <1>4 DEF OpenSession
<1>10. Requested'
    BY <1>3, <1>6, <1>7, <1>8, <1>9, RequestMoves DEF AccessInd
<1> QED BY <1>2, <1>3, <1>10 DEF AccessInd

\* The opening is over, with the meeting or without it.
LEMMA OpeningEnds ==
    ASSUME AccessInd, UNCHANGED <<view, offered>>, NEW r \in Requests,
           OpenCommits(r) \/ OpenFails(r)
    PROVE  AccessInd'
<1> DEFINE q == request[r]
<1>1. /\ UNCHANGED <<identity, key, job, worker>> /\ q.pc = "opening" /\ Knows(q) /\ Done(r)
      /\ Opened(r) \/ UNCHANGED meeting
    BY DEF OpenCommits, OpenFails, KeysLeft, deletion, AccessInd, Requested
<1>2. Rows' /\ AccountsStay /\ LoginsGoOn /\ ViewsGoOn /\ Displayed'
    BY <1>1, RowsStay, IdentityStays, DisplayStays DEF AccessInd
<1>3. CASE UNCHANGED meeting
    <2>1. Monotone /\ Owned' /\ Claimed'
        BY <1>1, <1>2, <1>3, Waits, OwnedStays, ClaimsStay DEF AccessInd, Monotone
    <2>2. Requested'
        BY <1>1, <2>1, RequestEnds DEF AccessInd
    <2> QED BY <1>2, <2>1, <2>2 DEF AccessInd
<1>4. CASE Opened(r)
    <2>1. Owned' /\ \A k \in Meetings : k # q.meeting => meeting'[k] = meeting[k]
        BY <1>1, <1>4, MeetingOpened DEF AccessInd, Opened, identity
    <2>2. meeting[q.meeting].state = "none"
        BY <1>1 DEF Knows, NoMeeting
    <2>3. Claimed'
        BY <1>1, <2>1, <2>2 DEF AccessInd, Claimed
    <2>4. ASSUME NEW p \in Others(r) PROVE Knows(p)'
        <3>1. Knows(p) /\ p.pc # "opening"
            BY <1>1, OthersKnow DEF AccessInd, Apart
        <3>2. CASE p.pc \in LoginPcs
            BY <1>2, <3>1, <3>2 DEF Knows, LoginsGoOn, LoginPcs
        <3>3. CASE p.pc \in {"answer", "drain"}
            <4>1. p.meeting \in Meetings /\ p.meeting # q.meeting
                BY <2>2, <3>1, <3>3 DEF Knows
            <4> QED BY <2>1, <3>1, <3>3, <4>1 DEF Knows, LoginPcs
        <3>4. CASE p.pc \notin LoginPcs \cup {"answer", "drain"}
            BY <1>2, <3>1, <3>4 DEF Knows, LoginsGoOn, ViewsGoOn, LoginPcs
        <3> QED BY <3>2, <3>3, <3>4
    <2>5. Requested'
        BY <1>1, <2>4, OneRequest, Quiet DEF AccessInd, Done
    <2> QED BY <1>2, <2>1, <2>3, <2>5 DEF AccessInd
<1> QED BY <1>1, <1>3, <1>4

\* A request that ends, with nothing done.
LEMMA NothingDone ==
    ASSUME AccessInd, UNCHANGED <<view, offered, identity, meeting, key, job, worker>>,
           NEW r \in Requests, Done(r)
    PROVE  AccessInd'
<1>1. Monotone /\ Rows' /\ Displayed' /\ Owned' /\ Claimed'
    BY RowsStay, IdentityStays, DisplayStays, Waits, OwnedStays, ClaimsStay DEF AccessInd, Monotone
<1> QED BY <1>1, RequestEnds DEF AccessInd

LEMMA DeletionStep ==
    ASSUME AccessInd, UNCHANGED <<view, offered>>, NEW r \in Requests, NEW m \in Meetings,
           BeginOwnerDeletion(r, m)
    PROVE  AccessInd'
<1>1. UNCHANGED <<identity, key, worker>> /\ Done(r)
    BY DEF BeginOwnerDeletion
<1>2. PICK ms \in SUBSET Kept : Fenced(ms)
    BY DEF BeginOwnerDeletion
<1>3. \A k \in Kept \ ms : Exists(meeting[k].owner)'
    <2>1. \A k \in Kept : Exists(meeting[k].owner) /\ meeting'[k].owner = meeting[k].owner
        BY <1>2 DEF AccessInd, Owned, Kept, Fenced, MeetingRows
    <2> QED BY <1>1, <2>1 DEF identity, Exists
<1>4. Owned' /\ MeetingsGoOn
    BY <1>1, <1>2, <1>3, MeetingFenced DEF AccessInd
<1>5. Monotone /\ Rows' /\ Displayed' /\ Claimed'
    BY <1>1, <1>4, RowsStay, IdentityStays, DisplayStays, ClaimsStay DEF AccessInd, Monotone
<1> QED BY <1>1, <1>4, <1>5, RequestEnds DEF AccessInd

\* The withdrawal: no opening of the account is under way.
LEMMA WithdrawStep ==
    ASSUME AccessInd, UNCHANGED <<view, offered>>, NEW r \in Requests, Withdraw(r)
    PROVE  AccessInd'
<1> DEFINE u == request[r].user
<1>1. /\ UNCHANGED <<created, attempt, key, worker>> /\ Fenced(OwnedBy(u))
      /\ request[r].pc = "withdraw" /\ Knows(request[r]) /\ request[r] \in RequestRows
      /\ \A k \in Requests : request[k].pc = "opening" => request[k].user # u
    BY DEF Withdraw, Locked, AccessInd, Requested
<1>2. /\ Rows' /\ \A v \in Users : v # u /\ Exists(v) => Exists(v)'
      /\ LoginsGoOn
    BY <1>1, SessionsWithdrawn DEF AccessInd, LoginsGoOn
<1>3. Owned' /\ MeetingsGoOn
    <2>1. \A k \in Kept : /\ meeting[k].owner \in Users /\ Exists(meeting[k].owner)
                          /\ meeting'[k].owner = meeting[k].owner
        BY <1>1 DEF AccessInd, Owned, Kept, Fenced, MeetingRows
    <2>2. \A k \in Kept \ OwnedBy(u) : Exists(meeting[k].owner)'
        BY <1>2, <2>1 DEF OwnedBy, Exists
    <2>3. OwnedBy(u) \in SUBSET Kept
        BY DEF OwnedBy
    <2> QED BY <1>1, <2>2, <2>3, MeetingFenced DEF AccessInd
<1>4. Claimed' /\ Displayed' /\ ViewsGoOn
    BY <1>1, <1>3, ClaimsStay, DisplayStays DEF AccessInd
<1>5. ASSUME NEW p, Knows(p), p.pc = "opening" => p.user # u PROVE Knows(p)'
    <2> USE <1>2, <1>3, <1>4, <1>5 DEF Knows, LoginPcs, LoginsGoOn, MeetingsGoOn, ViewsGoOn
    <2>1. CASE p.pc = "opening"
        BY <2>1
    <2>2. CASE p.pc \in LoginPcs
        BY <1>1, <2>2
    <2>3. CASE p.pc = "answer"
        BY <2>3
    <2>4. CASE p.pc \notin LoginPcs \cup {"opening", "answer"}
        BY <2>4
    <2> QED BY <2>1, <2>2, <2>3, <2>4
<1>6. \A p \in Others(r) : Knows(p)'
    BY <1>1, <1>5, OthersKnow DEF AccessInd, Others
<1>7. Requested'
    <2>1. CASE Done(r)
        BY <1>6, <2>1, OneRequest, Quiet DEF AccessInd, Done
    <2>2. CASE request' = [request EXCEPT ![r].pc = "withdraw"]
        <3>1. PICK q : q = [request[r] EXCEPT !.pc = "withdraw"]
            OBVIOUS
        <3>2. /\ q \in RequestRows /\ q.pc = "withdraw" /\ q.token = request[r].token
              /\ q.user = request[r].user /\ q.meeting = request[r].meeting
            BY <1>1, <3>1 DEF RequestRows
        <3>3. Knows(q)
            BY <1>1, <3>2 DEF Knows, LoginPcs
        <3>4. Knows(q)' /\ \A p \in Others(r) : Apart(p, q)
            BY <1>5, <3>2, <3>3, Alone DEF LoginPcs
        <3>5. request' = [request EXCEPT ![r] = q]
            BY <2>2, <3>1
        <3> QED BY <1>6, <3>2, <3>4, <3>5, OneRequest DEF AccessInd
    <2> QED BY <2>1, <2>2 DEF Withdraw
<1> QED BY <1>2, <1>3, <1>4, <1>7 DEF AccessInd

\* The clock, and the worker's first transaction.
LEMMA TimeStep == ASSUME AccessInd, UNCHANGED <<view, offered>>, Time PROVE AccessInd'
<1>1. UNCHANGED <<identity, request, key, worker>>
    BY DEF Time, begin_due_deletion, End, deletion
<1>2. PICK m \in Meetings : begin_due_deletion(m) \/ End(m)
    BY DEF Time
<1>3. Owned' /\ MeetingsGoOn
    <2>1. CASE begin_due_deletion(m)
        <3>1. Fenced({m}) /\ {m} \in SUBSET Kept
            BY <2>1 DEF begin_due_deletion, Kept
        <3>2. \A k \in Kept : Exists(meeting[k].owner) /\ meeting'[k].owner = meeting[k].owner
            BY <3>1 DEF AccessInd, Owned, Kept, Fenced, MeetingRows
        <3>3. \A k \in Kept \ {m} : Exists(meeting[k].owner)'
            BY <1>1, <3>2 DEF identity, Exists
        <3> QED BY <1>1, <3>1, <3>3, MeetingFenced DEF AccessInd
    <2>2. CASE End(m)
        BY <2>2, MeetingEnded DEF AccessInd, End, identity, deletion
    <2> QED BY <1>2, <2>1, <2>2
<1>4. Monotone /\ Rows' /\ Displayed' /\ Claimed'
    BY <1>1, <1>3, RowsStay, IdentityStays, DisplayStays, ClaimsStay DEF AccessInd, Monotone
<1> QED BY <1>1, <1>3, <1>4, NoRequestMoves DEF AccessInd

\* A step that only the deletion worker and its tables take part in.
LEMMA WorkersOnly ==
    ASSUME AccessInd, UNCHANGED <<view, offered, identity, request>>, Owned', MeetingsGoOn, Claimed'
    PROVE  AccessInd'
<1>1. Monotone /\ Rows' /\ Displayed'
    BY RowsStay, IdentityStays, DisplayStays DEF AccessInd, Monotone
<1> QED BY <1>1, NoRequestMoves DEF AccessInd

LEMMA ClaimStep ==
    ASSUME AccessInd, UNCHANGED <<view, offered>>, NEW w \in Workers, NEW m \in Meetings,
           claim_deletion_job(w, m)
    PROVE  AccessInd'
<1>1. UNCHANGED <<identity, request, meeting, key>> /\ job[m].state # "none"
    BY DEF claim_deletion_job, Claimable
<1>2. PICK j, c : /\ j = [NoJob EXCEPT !.state = "processing", !.holder = w, !.live = TRUE]
                  /\ c = [pc |-> "claimed", meeting |-> m]
    OBVIOUS
<1>3. j \in JobRows /\ j.state # "none" /\ c \in Claims /\ c.meeting = m
    BY <1>2 DEF JobRows, NoJob, Claims
<1>4. job' = [job EXCEPT ![m] = j] /\ worker' = [worker EXCEPT ![w] = c]
    BY <1>2 DEF claim_deletion_job
<1>5. Owned' /\ MeetingsGoOn
    BY <1>1, <1>3, <1>4, JobMoves, Waits DEF AccessInd, identity
<1>6. meeting'[m].state = "deleting"
    BY <1>1 DEF AccessInd, Owned
<1>7. Claimed'
    BY <1>3, <1>4, <1>5, <1>6, ClaimMoves DEF AccessInd
<1> QED BY <1>1, <1>5, <1>7, WorkersOnly

\* A worker goes on with its claim, or has none any more.
LEMMA ClaimGoesOn ==
    ASSUME Owned, Claimed, MeetingsGoOn, NEW w \in Workers, worker[w].pc # "idle",
           \/ \E pc \in {"destroyed", "failing"} : worker' = [worker EXCEPT ![w].pc = pc]
           \/ worker' = [worker EXCEPT ![w] = NoClaim]
    PROVE  Claimed'
<1>1. CASE worker' = [worker EXCEPT ![w] = NoClaim]
    <2>1. NoClaim \in Claims /\ NoClaim.pc = "idle"
        BY DEF NoClaim, Claims
    <2> QED BY <1>1, <2>1, ClaimMoves
<1>2. ASSUME NEW pc \in {"destroyed", "failing"}, worker' = [worker EXCEPT ![w].pc = pc]
      PROVE  Claimed'
    <2>1. PICK c : c = [worker[w] EXCEPT !.pc = pc]
        OBVIOUS
    <2>2. worker[w] \in Claims /\ worker[w].meeting \in Meetings
          /\ meeting[worker[w].meeting].state \in {"deleting", "gone"}
        BY HeldIsDeleting
    <2>3. c \in Claims /\ c.meeting = worker[w].meeting
        BY <2>1, <2>2 DEF Claims
    <2>4. meeting'[c.meeting].state \in {"deleting", "gone"}
        BY <2>2, <2>3 DEF MeetingsGoOn
    <2>5. worker' = [worker EXCEPT ![w] = c]
        BY <1>2, <2>1
    <2> QED BY <2>2, <2>3, <2>4, <2>5, ClaimMoves
<1> QED BY <1>1, <1>2

LEMMA DestroyStep ==
    ASSUME AccessInd, UNCHANGED <<view, offered>>, NEW w \in Workers,
           delete_key(w) \/ DeleteKeyFails(w)
    PROVE  AccessInd'
<1> DEFINE m == worker[w].meeting
<1>1. /\ UNCHANGED <<identity, request, meeting, job>> /\ worker[w].pc = "claimed"
      /\ key' \in {key, key \ {m}}
      /\ \E pc \in {"destroyed", "failing"} : worker' = [worker EXCEPT ![w].pc = pc]
    BY DEF delete_key, DeleteKeyFails
<1>2. m \in Meetings /\ meeting[m].state \in {"deleting", "gone"}
    BY <1>1, HeldIsDeleting DEF AccessInd
<1>3. Owned' /\ MeetingsGoOn
    BY <1>1, <1>2, KeyDestroyed DEF AccessInd, identity
<1>4. Claimed'
    BY <1>1, <1>3, ClaimGoesOn DEF AccessInd
<1> QED BY <1>1, <1>3, <1>4, WorkersOnly

LEMMA CompletionStep ==
    ASSUME AccessInd, UNCHANGED <<view, offered>>, NEW w \in Workers,
           complete_deletion_job(w) \/ CompletionFails(w)
    PROVE  AccessInd'
<1> DEFINE m == worker[w].meeting
<1>1. /\ UNCHANGED <<identity, request, key>> /\ worker[w].pc = "destroyed"
      /\ \/ UNCHANGED <<meeting, job>>
         \/ Holds(w) /\ m \notin key /\ Purged(m)
      /\ \/ \E pc \in {"destroyed", "failing"} : worker' = [worker EXCEPT ![w].pc = pc]
         \/ worker' = [worker EXCEPT ![w] = NoClaim]
    BY DEF complete_deletion_job, CompletionFails, Unreadable, Readable
<1>2. Owned' /\ MeetingsGoOn
    <2>1. CASE UNCHANGED <<meeting, job>>
        BY <1>1, <2>1, OwnedStays, Waits, IdentityStays DEF AccessInd
    <2>2. CASE Holds(w) /\ m \notin key /\ Purged(m)
        <3>1. m \in Meetings /\ meeting[m].state = "deleting"
            BY <1>1, <2>2, HeldIsDeleting DEF AccessInd
        <3> QED BY <1>1, <2>2, <3>1, MeetingPurged DEF AccessInd, identity
    <2> QED BY <1>1, <2>1, <2>2
<1>3. Claimed'
    BY <1>1, <1>2, ClaimGoesOn DEF AccessInd
<1> QED BY <1>1, <1>2, <1>3, WorkersOnly

LEMMA FailStep ==
    ASSUME AccessInd, UNCHANGED <<view, offered>>, NEW w \in Workers,
           fail_deletion_job(w) \/ Crash(w)
    PROVE  AccessInd'
<1> DEFINE m == worker[w].meeting
<1>1. /\ UNCHANGED <<identity, request, meeting, key>> /\ worker[w].pc # "idle"
      /\ \/ UNCHANGED job
         \/ Holds(w) /\ job' = [job EXCEPT ![m] = [NoJob EXCEPT !.state = "pending"]]
      /\ worker' = [worker EXCEPT ![w] = NoClaim]
    BY DEF fail_deletion_job, Crash
<1>2. Owned'
    <2>1. CASE UNCHANGED job
        BY <1>1, <2>1, OwnedStays, IdentityStays DEF AccessInd
    <2>2. CASE Holds(w) /\ job' = [job EXCEPT ![m] = [NoJob EXCEPT !.state = "pending"]]
        <3>1. m \in Meetings /\ job[m].state # "none"
            BY <1>1, <2>2, HeldIsDeleting DEF AccessInd
        <3>2. PICK j : j = [NoJob EXCEPT !.state = "pending"]
            OBVIOUS
        <3>3. j \in JobRows /\ j.state # "none"
            BY <3>2 DEF JobRows, NoJob
        <3>4. job' = [job EXCEPT ![m] = j]
            BY <2>2, <3>2
        <3> QED BY <1>1, <3>1, <3>3, <3>4, JobMoves DEF AccessInd, identity
    <2> QED BY <1>1, <2>1, <2>2
<1>3. MeetingsGoOn
    BY <1>1, Waits
<1>4. Claimed'
    BY <1>1, <1>3, ClaimGoesOn DEF AccessInd
<1> QED BY <1>1, <1>2, <1>3, <1>4, WorkersOnly

LEMMA ExpiryStep ==
    ASSUME AccessInd, UNCHANGED <<view, offered>>, NEW m \in Meetings, ClaimExpires(m)
    PROVE  AccessInd'
<1>1. UNCHANGED <<identity, request, meeting, key, worker>>
    BY DEF ClaimExpires
<1>2. Owned'
    <2>1. /\ job' \in [Meetings -> JobRows]
          /\ \A k \in Meetings : job'[k].state = job[k].state
        BY DEF ClaimExpires, AccessInd, Owned, JobRows
    <2> QED BY <1>1, <2>1 DEF AccessInd, Owned, Exists, identity
<1>3. MeetingsGoOn
    BY <1>1, Waits
<1>4. Claimed'
    BY <1>1, <1>3, ClaimsStay DEF AccessInd
<1> QED BY <1>1, <1>2, <1>3, <1>4, WorkersOnly

\* What the owner of a meeting is told of it.
LEMMA WhatIsTold ==
    ASSUME Owned, NEW m \in Meetings
    PROVE  Told(m) = IF meeting[m].state \in {"open", "ended"} THEN meeting[m].state
                     ELSE IF meeting[m].state = "deleting" /\ m \in key THEN "session_deleted"
                     ELSE "session_not_found"
<1>1. meeting[m].state \in {"none", "open", "ended", "deleting", "gone"}
    BY DEF Owned, MeetingRows
<1>2. m \in Kept <=> meeting[m].state \in {"open", "ended"}
    BY DEF Kept
<1>3. m \in Kept => m \in key
    BY <1>2 DEF Owned
<1>4. CASE meeting[m].state \in {"none", "gone"}
    BY <1>4, <1>2 DEF Told
<1>5. CASE meeting[m].state = "deleting"
    BY <1>5, <1>2 DEF Told, Readable
<1>6. CASE meeting[m].state \in {"open", "ended"}
    BY <1>6, <1>2, <1>3 DEF Told, Readable
<1> QED BY <1>1, <1>4, <1>5, <1>6

\* A step of one request that leaves accounts, meetings and workers alone.
LEMMA RequestOnly ==
    ASSUME AccessInd, UNCHANGED <<identity, meeting, key, job, worker>>, Displayed', ViewsGoOn,
           NEW r \in Requests, NEW q \in RequestRows, request' = [request EXCEPT ![r] = q],
           Knows(q)', q.pc \notin LoginPcs \cup {"opening"}
    PROVE  AccessInd'
<1>1. Monotone /\ Rows' /\ Owned' /\ Claimed'
    BY RowsStay, IdentityStays, Waits, OwnedStays, ClaimsStay DEF AccessInd, Monotone
<1> QED BY <1>1, Alone, RequestMoves DEF AccessInd

\* The owner asks for the end of a meeting, or for what is in it.
LEMMA OwnerAsks ==
    ASSUME AccessInd, UNCHANGED <<identity, meeting, key, job, worker, view, offered>>,
           NEW r \in Requests, NEW m \in Meetings, Authorized(r, m), NEW pc \in {"answer", "drain"},
           request' = [request EXCEPT ![r].pc = pc, ![r].meeting = m]
    PROVE  AccessInd'
<1>1. Displayed' /\ ViewsGoOn
    BY DisplayStays DEF AccessInd
<1>2. PICK q : q = [request[r] EXCEPT !.pc = pc, !.meeting = m]
    OBVIOUS
<1>3. request[r] \in RequestRows
    BY DEF AccessInd, Requested
<1>4. q \in RequestRows /\ q.pc = pc /\ q.meeting = m /\ q.user = request[r].user
    BY <1>2, <1>3 DEF RequestRows, Pcs
<1>5. meeting[m].state \in {"open", "ended"} /\ meeting[m].owner = request[r].user
    BY WhatIsTold DEF Authorized, AccessInd
<1>6. Knows(q)'
    BY <1>4, <1>5 DEF Knows, LoginPcs
<1>7. request' = [request EXCEPT ![r] = q]
    BY <1>2
<1> QED BY <1>1, <1>4, <1>6, <1>7, RequestOnly DEF LoginPcs

LEMMA EndStep ==
    ASSUME AccessInd, NEW r \in Requests, NEW m \in Meetings, RequestEnd(r, m) PROVE AccessInd'
<1>1. UNCHANGED <<identity, meeting, key, job, worker, view, offered>>
    BY DEF RequestEnd, deletion
<1> QED BY <1>1, NothingDone, OwnerAsks DEF RequestEnd

LEMMA LoadStep ==
    ASSUME AccessInd, NEW r \in Requests, NEW m \in Meetings,
           LoadOwnerCanvas(r, m) \/ LoadFinalRecord(r, m)
    PROVE  AccessInd'
<1>1. UNCHANGED <<identity, meeting, key, job, worker, view, offered>>
    BY DEF LoadOwnerCanvas, LoadFinalRecord, deletion
<1>2. Done(r) \/ (Authorized(r, m) /\ Load(r, m))
    BY DEF LoadOwnerCanvas, LoadFinalRecord
<1> QED BY <1>1, <1>2, NothingDone, OwnerAsks DEF Load

LEMMA DrainStep == ASSUME AccessInd, NEW r \in Requests, CompleteDrainIfReady(r) PROVE AccessInd'
<1> DEFINE m == request[r].meeting
<1>1. UNCHANGED <<identity, key, job, worker, view, offered>> /\ Done(r)
    BY DEF CompleteDrainIfReady, deletion
<1>2. m \in Meetings /\ meeting[m].state # "none"
    BY DEF CompleteDrainIfReady, Asked, AccessInd, Requested, Knows
<1>3. PICK x \in Drained(m) : meeting' = [meeting EXCEPT ![m].state = x]
    BY DEF CompleteDrainIfReady
<1>4. Owned' /\ MeetingsGoOn
    BY <1>1, <1>2, <1>3, MeetingEnded DEF Drained, AccessInd, identity
<1>5. Monotone /\ Rows' /\ Displayed' /\ Claimed'
    BY <1>1, <1>4, RowsStay, IdentityStays, DisplayStays, ClaimsStay DEF AccessInd, Monotone
<1> QED BY <1>1, <1>4, <1>5, RequestEnds DEF AccessInd

\* Display credentials.
LEMMA ViewMoves ==
    ASSUME AccessInd, UNCHANGED <<identity, meeting, key, job, worker, offered>>,
           NEW v \in Views, NEW c \in ViewRows, c.state # "none", c.meeting \in Meetings,
           view[v] # NoView => c.meeting = view[v].meeting,
           view' = [view EXCEPT ![v] = c],
           UNCHANGED request \/ \E r \in Requests : Done(r)
    PROVE  AccessInd'
<1>1. Displayed'
    BY DEF AccessInd, Displayed
<1>2. ViewsGoOn
    BY DEF AccessInd, Displayed, ViewsGoOn, NoView
<1>3. Monotone /\ Rows' /\ Owned' /\ Claimed'
    BY <1>2, RowsStay, IdentityStays, Waits, OwnedStays, ClaimsStay DEF AccessInd, Monotone
<1> QED BY <1>1, <1>3, NoRequestMoves, RequestEnds DEF AccessInd

LEMMA IssueStep ==
    ASSUME AccessInd, NEW r \in Requests, NEW m \in Meetings, IssueView(r, m) PROVE AccessInd'
<1>1. UNCHANGED <<identity, meeting, key, job, worker, offered>> /\ Done(r)
    BY DEF IssueView, deletion
<1>2. CASE UNCHANGED view
    BY <1>1, <1>2, NothingDone
<1>3. ASSUME NEW v \in FreeViews, view' = [view EXCEPT ![v] = [meeting |-> m, state |-> "live"]]
      PROVE  AccessInd'
    <2>1. PICK c : c = [meeting |-> m, state |-> "live"]
        OBVIOUS
    <2>2. c \in ViewRows /\ c.state # "none" /\ c.meeting \in Meetings
        BY <2>1 DEF ViewRows
    <2>3. v \in Views /\ view[v] = NoView /\ view' = [view EXCEPT ![v] = c]
        BY <1>3, <2>1 DEF FreeViews
    <2> QED BY <1>1, <2>2, <2>3, ViewMoves
<1> QED BY <1>2, <1>3 DEF IssueView

LEMMA ViewEnds ==
    ASSUME AccessInd, UNCHANGED <<identity, meeting, key, job, worker, offered>>,
           NEW v \in Views, view[v].state # "none", NEW state \in {"revoked", "expired"},
           view' = [view EXCEPT ![v].state = state],
           UNCHANGED request \/ \E r \in Requests : Done(r)
    PROVE  AccessInd'
<1>1. PICK c : c = [view[v] EXCEPT !.state = state]
    OBVIOUS
<1>2. view[v] \in ViewRows /\ view[v].meeting \in Meetings
    BY DEF AccessInd, Displayed, NoView
<1>3. c \in ViewRows /\ c.state # "none" /\ c.meeting = view[v].meeting
    BY <1>1, <1>2 DEF ViewRows
<1>4. view' = [view EXCEPT ![v] = c]
    BY <1>1
<1> QED BY <1>2, <1>3, <1>4, ViewMoves

LEMMA DisplayStep ==
    ASSUME AccessInd, NEW r \in Requests, NEW v \in Views, LoadLiveCanvas(r, v) PROVE AccessInd'
<1>1. /\ UNCHANGED <<identity, meeting, key, job, worker, view, offered>>
      /\ view[v].state = "live"
    BY DEF LoadLiveCanvas, deletion, Shows
<1>2. Displayed' /\ ViewsGoOn
    BY <1>1, DisplayStays DEF AccessInd
<1>3. PICK q : q = [NoRequest EXCEPT !.pc = "display", !.token = v, !.meeting = view[v].meeting]
    OBVIOUS
<1>4. view[v].meeting \in Meetings
    BY <1>1 DEF AccessInd, Displayed, NoView
<1>5. q \in RequestRows /\ q.pc = "display" /\ q.token = v /\ q.meeting = view[v].meeting
    BY <1>3, <1>4, Bounds DEF NoRequest, RequestRows, Pcs, Nobody
<1>6. Knows(q)'
    BY <1>1, <1>5 DEF Knows, LoginPcs
<1>7. request' = [request EXCEPT ![r] = q]
    BY <1>3 DEF LoadLiveCanvas
<1> QED BY <1>1, <1>2, <1>5, <1>6, <1>7, RequestOnly DEF LoginPcs

LEMMA LogoutStep == ASSUME AccessInd, NEW r \in Requests, Logout(r) PROVE AccessInd'
<1> DEFINE t == request[r].token
<1>1. /\ UNCHANGED <<user, created, attempt, receipt, meeting, key, job, worker, view, offered>>
      /\ Done(r) /\ t \in Tokens
      /\ \/ web[t].state = "live" /\ web' = [web EXCEPT ![t].state = "revoked"]
         \/ UNCHANGED web
    BY DEF Logout, Asked, deletion, AccessInd, Requested, Knows
<1>2. Rows'
    BY <1>1, SessionRevoked, RowsStay DEF AccessInd, identity
<1>3. LoginsGoOn
    BY <1>1 DEF AccessInd, Rows, WebRows, LoginsGoOn
<1>4. Monotone /\ Displayed'
    BY <1>1, <1>3, Waits, DisplayStays DEF AccessInd, Monotone, AccountsStay, Exists
<1> QED BY <1>1, <1>2, <1>4, OwnedStays, ClaimsStay, RequestEnds DEF AccessInd, Monotone

LEMMA LoginStep == ASSUME AccessInd, UNCHANGED <<view, offered>>, Login PROVE AccessInd'
BY AttemptStep, ConsumeStep, ExchangeStep, UserStep, SessionStep, RevokeStep DEF Login

LEMMA OperateStep == ASSUME AccessInd, UNCHANGED <<view, offered>>, Operate PROVE AccessInd'
<1>1. ASSUME NEW r \in Requests, OpenRefused(r) \/ WithdrawnBefore(r) PROVE AccessInd'
    <2>1. UNCHANGED <<identity, meeting, key, job, worker>> /\ Done(r)
        BY <1>1 DEF OpenRefused, WithdrawnBefore, deletion
    <2> QED BY <2>1, NothingDone
<1> QED BY <1>1, OpenStep, DeletionStep, OpeningEnds, WithdrawStep DEF Operate

LEMMA WorkerStep ==
    ASSUME AccessInd, UNCHANGED <<view, offered>>, Faults \/ \E w \in Workers : Succeeds(w)
    PROVE  AccessInd'
BY ClaimStep, DestroyStep, CompletionStep, FailStep, ExpiryStep DEF Faults, Succeeds, Fails

LEMMA OwnerStep == ASSUME AccessInd, Owner PROVE AccessInd'
<1>1. ASSUME NEW r \in Requests, NEW v \in Views, RevokeView(r, v) PROVE AccessInd'
    <2>1. UNCHANGED <<identity, meeting, key, job, worker, offered>> /\ Done(r) /\ view[v] # NoView
        BY <1>1 DEF RevokeView, deletion
    <2>2. view[v].state # "none"
        BY <2>1 DEF AccessInd, Displayed
    <2>3. CASE UNCHANGED view
        BY <2>1, <2>3, NothingDone
    <2>4. CASE view' = [view EXCEPT ![v].state = "revoked"]
        BY <2>1, <2>2, <2>4, ViewEnds
    <2> QED BY <1>1, <2>3, <2>4 DEF RevokeView
<1>2. ASSUME NEW v \in Views, ViewExpires(v) PROVE AccessInd'
    <2>1. /\ UNCHANGED <<identity, request, meeting, key, job, worker, offered>>
          /\ view[v].state # "none" /\ view' = [view EXCEPT ![v].state = "expired"]
        BY <1>2 DEF ViewExpires, vars, deletion
    <2> QED BY <2>1, ViewEnds
<1>3. ASSUME NEW r \in Requests, Answer(r) PROVE AccessInd'
    <2>1. UNCHANGED <<identity, meeting, key, job, worker, view, offered>> /\ Done(r)
        BY <1>3 DEF Answer, deletion
    <2> QED BY <2>1, NothingDone
<1> QED BY <1>1, <1>2, <1>3, EndStep, IssueStep, LoadStep, DisplayStep, DrainStep, LogoutStep DEF Owner

\* A stuttering step.
LEMMA AccessStutters == ASSUME AccessInd, UNCHANGED accessVars PROVE AccessInd'
<1>1. UNCHANGED <<identity, meeting, key, job, worker, view, offered, request>>
    BY DEF accessVars, vars, deletion
<1> QED BY <1>1, WorkersOnly, OwnedStays, ClaimsStay, Waits, IdentityStays DEF AccessInd

LEMMA AccessStep == ASSUME AccessInd, [AccessNext]_accessVars PROVE AccessInd'
<1>1. CASE Kernel
    BY <1>1, LoginStep, AuthenticateStep, OperateStep, TimeStep, WorkerStep DEF Kernel
<1> QED BY <1>1, OwnerStep, AccessStutters DEF AccessNext

-----------------------------------------------------------------------------
(* The initial states.                                                     *)

\* Everybody can have an account of their own.
LEMMA Numbering == \E f \in [Subjects -> Users] : {f[s] : s \in Subjects} = 1 .. Cardinality(Subjects)
<1> DEFINE n == Cardinality(Subjects)
<1>1. n \in Nat /\ ExistsBijection(1 .. n, Subjects)
    BY AccessAssumption, FS_CardinalityType
<1> HIDE DEF n
<1>2. ExistsBijection(Subjects, 1 .. n)
    BY <1>1, Fun_ExistsBijSymmetric
<1>3. PICK f : f \in Bijection(Subjects, 1 .. n)
    BY <1>2, Fun_ExistsBij
<1>4. f \in [Subjects -> 1 .. n] /\ \A k \in 1 .. n : \E s \in Subjects : f[s] = k
    BY <1>3 DEF Bijection, Injection, Surjection
<1>5. 1 .. n \subseteq Users
    BY <1>1, AccountAssumption, AccessAssumption DEF Users, n
<1>6. f \in [Subjects -> Users] /\ {f[s] : s \in Subjects} = 1 .. n
    BY <1>4, <1>5
<1> QED BY <1>6 DEF n

LEMMA NobodyIsBusy ==
    ASSUME request = [r \in Requests |-> NoRequest] PROVE Requested
BY Bounds DEF Requested, NoRequest, RequestRows, Pcs, Knows, Apart, LoginPcs, Nobody

LEMMA AccessIndInit == AccessInit => AccessInd
<1> SUFFICES ASSUME AccessInit PROVE AccessInd
    OBVIOUS
<1>1. Displayed
    BY DEF AccessInit, Displayed, NoView, ViewRows
<1>2. Requested /\ Claimed
    BY NobodyIsBusy DEF AccessInit, Init, SignedIn, Claimed, NoClaim, Claims
<1>3. CASE Init
    <2>1. Rows
        BY <1>3, Bounds DEF Init, Rows, WebRows, OneSessionPerLogin, Nobody
    <2>2. Owned
        BY <1>3, Bounds DEF Init, Owned, MeetingRows, JobRows, NoMeeting, NoJob, Nobody
    <2> QED BY <1>1, <1>2, <2>1, <2>2 DEF AccessInd
<1>4. CASE SignedIn
    <2> DEFINE n == Cardinality(Subjects)
    <2>1. PICK m \in Meetings :
              /\ created = n
              /\ user = CHOOSE f \in [Subjects -> Users] : {f[s] : s \in Subjects} = 1 .. n
              /\ attempt = [k \in Logins |-> IF k <= n THEN "gone" ELSE "none"]
              /\ web = [t \in Tokens |-> IF t <= n THEN [state |-> "live", user |-> t, login |-> t]
                                         ELSE [state |-> "none", user |-> Nobody, login |-> 0]]
              /\ receipt = {} /\ key = {m}
              /\ meeting = [k \in Meetings |-> IF k = m THEN [state |-> "open", owner |-> 1]
                                               ELSE NoMeeting]
              /\ job = [k \in Meetings |-> NoJob]
        BY <1>4 DEF SignedIn
    <2>2. n \in Nat /\ n # 0 /\ n <= MaxUsers /\ n <= MaxLogins
        BY AccessAssumption, FS_CardinalityType, FS_EmptySet
    <2>3. user \in [Subjects -> Users] /\ {user[s] : s \in Subjects} = 1 .. n
        BY <2>1, Numbering
    <2> HIDE DEF n
    <2>4. \A k \in 1 .. n : k \in Users /\ Exists(k)
        BY <2>2, <2>3, Bounds DEF Users, Exists
    <2>5. Rows
        <3>1. created \in 0 .. MaxUsers
            BY <2>1, <2>2, Bounds
        <3>2. web \in [Tokens -> WebRows]
            BY <2>1, <2>2, Bounds DEF WebRows, Tokens, Users, Nobody
        <3>3. \A t \in Tokens : /\ web[t].state = "live" => t \in 1 .. n /\ web[t].user = t
                                /\ web[t].state = "none" => web[t].login = 0
                                /\ web[t].state # "withdrawn"
                                /\ web[t].login # 0 => web[t].login = t /\ attempt[t] = "gone"
            BY <2>1, <2>2, Bounds DEF Tokens, Logins
        <3>4. OneSessionPerLogin
            BY <3>3 DEF OneSessionPerLogin
        <3>5. \A t \in Tokens : web[t].state = "live" => web[t].user \in Users /\ Exists(web[t].user)
            BY <2>4, <3>3
        <3> QED BY <2>1, <2>3, <3>1, <3>2, <3>3, <3>4, <3>5 DEF Rows
    <2>6. 1 \in Users /\ Exists(1)
        BY <2>2, <2>4
    <2>7. Owned
        BY <2>1, <2>6 DEF Owned, MeetingRows, JobRows, NoMeeting, NoJob, Nobody
    <2> QED BY <1>1, <1>2, <2>5, <2>7 DEF AccessInd
<1> QED BY <1>3, <1>4 DEF AccessInit

-----------------------------------------------------------------------------
(* The theorems.                                                           *)

\* What the store keeps together stays together: a live login has its account, a meeting
\* its owner and its key, a fenced one its job, a display its open meeting; a withdrawal is
\* answered however it is repeated, and an answer is its owner's, in every behaviour of
\* logins, openings, deletions, withdrawals, displays and workers that fail or crash.
THEOREM NobodySeesTooMuch == AccessSpec => []AccessInv
<1>1. AccessInit => AccessInd
    BY AccessIndInit
<1>2. AccessInd /\ [AccessNext]_accessVars => AccessInd'
    BY AccessStep
<1>3. AccessInd => AccessInv
    BY AccessIndIsInv
<1> QED BY <1>1, <1>2, <1>3, PTL DEF AccessSpec

\* A meeting's state goes one way, and a key that is gone is not made again.
Onward ==
    \A m \in Meetings : meeting[m].state # "none" =>
        /\ meeting'[m].state # "none"
        /\ meeting[m].state = "ended" => meeting'[m].state # "open"
        /\ meeting[m].state = "deleting" => meeting'[m].state \in {"deleting", "gone"}
        /\ meeting[m].state = "gone" => meeting'[m].state = "gone"
        /\ m \in key' => m \in key

LEMMA FenceIsOnward ==
    ASSUME Owned, NEW ms \in SUBSET Kept, Fenced(ms), UNCHANGED key PROVE Onward
<1>1. \A m \in Meetings : meeting'[m].state = IF m \in ms THEN "deleting" ELSE meeting[m].state
    BY DEF Owned, Fenced, MeetingRows
<1>2. \A m \in ms : meeting[m].state \in {"open", "ended"}
    BY DEF Kept
<1> QED BY <1>1, <1>2 DEF Onward

LEMMA RestIsOnward == ASSUME UNCHANGED <<meeting, key>> PROVE Onward
BY DEF Onward

LEMMA StateMoves ==
    ASSUME Owned, NEW m \in Meetings, NEW x, meeting' = [meeting EXCEPT ![m].state = x],
           x = meeting[m].state \/ (meeting[m].state = "open" /\ x = "ended"), UNCHANGED key
    PROVE  Onward
BY DEF Owned, Onward, MeetingRows

LEMMA OpeningIsOnward ==
    ASSUME AccessInd, NEW r \in Requests, OpenCommits(r) \/ OpenFails(r) PROVE Onward
<1> DEFINE m == request[r].meeting
<1>1. UNCHANGED key /\ (Opened(r) \/ UNCHANGED meeting)
    BY DEF OpenCommits, OpenFails, KeysLeft
<1>2. m \in Meetings /\ meeting[m].state = "none"
    BY DEF OpenCommits, OpenFails, AccessInd, Requested, Knows, NoMeeting
<1>3. CASE Opened(r)
    BY <1>1, <1>2, <1>3 DEF Opened, AccessInd, Owned, Onward
<1> QED BY <1>1, <1>3, RestIsOnward

LEMMA OperationIsOnward == ASSUME AccessInd, Operate PROVE Onward
<1>1. ASSUME NEW r \in Requests, NEW m \in Meetings, OpenSession(r, m) PROVE Onward
    BY <1>1 DEF OpenSession, Onward, NoMeeting
<1>2. ASSUME NEW r \in Requests, NEW m \in Meetings, BeginOwnerDeletion(r, m) PROVE Onward
    <2>1. UNCHANGED key /\ \E ms \in SUBSET Kept : Fenced(ms)
        BY <1>2 DEF BeginOwnerDeletion
    <2> QED BY <2>1, FenceIsOnward DEF AccessInd
<1>3. ASSUME NEW r \in Requests, Withdraw(r) PROVE Onward
    <2>1. UNCHANGED key /\ \E ms \in SUBSET Kept : Fenced(ms)
        BY <1>3 DEF Withdraw, OwnedBy
    <2> QED BY <2>1, FenceIsOnward DEF AccessInd
<1>4. ASSUME NEW r \in Requests, OpenRefused(r) \/ WithdrawnBefore(r) PROVE Onward
    BY <1>4, RestIsOnward DEF OpenRefused, WithdrawnBefore
<1> QED BY <1>1, <1>2, <1>3, <1>4, OpeningIsOnward DEF Operate

LEMMA TimeIsOnward == ASSUME AccessInd, Time PROVE Onward
<1>1. ASSUME NEW m \in Meetings, begin_due_deletion(m) PROVE Onward
    <2>1. UNCHANGED key /\ Fenced({m}) /\ {m} \in SUBSET Kept
        BY <1>1 DEF begin_due_deletion, Kept
    <2> QED BY <2>1, FenceIsOnward DEF AccessInd
<1>2. ASSUME NEW m \in Meetings, End(m) PROVE Onward
    BY <1>2, StateMoves DEF End, AccessInd
<1> QED BY <1>1, <1>2 DEF Time

LEMMA WorkersAreOnward ==
    ASSUME AccessInd, Faults \/ \E w \in Workers : Succeeds(w) PROVE Onward
<1>1. ASSUME NEW w \in Workers, NEW m \in Meetings, claim_deletion_job(w, m) PROVE Onward
    BY <1>1, RestIsOnward DEF claim_deletion_job
<1>2. ASSUME NEW w \in Workers, delete_key(w) \/ DeleteKeyFails(w) PROVE Onward
    BY <1>2 DEF delete_key, DeleteKeyFails, Onward
<1>3. ASSUME NEW w \in Workers, complete_deletion_job(w) \/ CompletionFails(w) PROVE Onward
    <2> DEFINE m == worker[w].meeting
    <2>1. /\ UNCHANGED key /\ worker[w].pc # "idle"
          /\ UNCHANGED meeting \/ (Holds(w) /\ Purged(m))
        BY <1>3 DEF complete_deletion_job, CompletionFails
    <2>2. CASE Holds(w) /\ Purged(m)
        <3>1. m \in Meetings /\ meeting[m].state = "deleting"
            BY <2>1, <2>2, HeldIsDeleting DEF AccessInd
        <3> QED BY <2>1, <2>2, <3>1 DEF Purged, AccessInd, Owned, Onward, NoMeeting
    <2> QED BY <2>1, <2>2, RestIsOnward
<1>4. ASSUME NEW w \in Workers, fail_deletion_job(w) \/ Crash(w) PROVE Onward
    BY <1>4, RestIsOnward DEF fail_deletion_job, Crash
<1>5. ASSUME NEW m \in Meetings, ClaimExpires(m) PROVE Onward
    BY <1>5, RestIsOnward DEF ClaimExpires
<1> QED BY <1>1, <1>2, <1>3, <1>4, <1>5 DEF Faults, Succeeds, Fails

LEMMA OwnerIsOnward == ASSUME AccessInd, Owner PROVE Onward
<1>1. ASSUME NEW r \in Requests, CompleteDrainIfReady(r) PROVE Onward
    <2> DEFINE m == request[r].meeting
    <2>1. m \in Meetings /\ UNCHANGED key
        BY <1>1 DEF CompleteDrainIfReady, Asked, AccessInd, Requested, Knows
    <2>2. PICK x \in Drained(m) : meeting' = [meeting EXCEPT ![m].state = x]
        BY <1>1 DEF CompleteDrainIfReady
    <2> QED BY <2>1, <2>2, StateMoves DEF Drained, AccessInd
<1>2. CASE \E r \in Requests, m \in Meetings :
               RequestEnd(r, m) \/ IssueView(r, m) \/ LoadOwnerCanvas(r, m) \/ LoadFinalRecord(r, m)
    BY <1>2, RestIsOnward DEF RequestEnd, IssueView, LoadOwnerCanvas, LoadFinalRecord
<1>3. CASE \E r \in Requests, v \in Views : RevokeView(r, v) \/ LoadLiveCanvas(r, v)
    BY <1>3, RestIsOnward DEF RevokeView, LoadLiveCanvas
<1>4. CASE (\E r \in Requests : Answer(r) \/ Logout(r)) \/ \E v \in Views : ViewExpires(v)
    BY <1>4, RestIsOnward DEF Answer, Logout, ViewExpires, vars
<1> QED BY <1>1, <1>2, <1>3, <1>4 DEF Owner

LEMMA StepsAreOnward == ASSUME AccessInd, [AccessNext]_accessVars PROVE Onward
<1>1. ASSUME Login PROVE Onward
    BY <1>1, RestIsOnward
       DEF Login, SaveAttempt, AttemptExpires, ConsumeAttempt, Exchange, get_or_create_user,
           issue_web_session, RevokeWebSession
<1>2. ASSUME NEW r \in Requests, NEW t \in Tokens, NEW o \in offered, Authenticate(r, t, o) PROVE Onward
    BY <1>2, RestIsOnward DEF Authenticate
<1>3. CASE Kernel
    BY <1>1, <1>2, <1>3, OperationIsOnward, TimeIsOnward, WorkersAreOnward DEF Kernel
<1>4. CASE UNCHANGED accessVars
    BY <1>4, RestIsOnward DEF accessVars, vars
<1> QED BY <1>3, <1>4, OwnerIsOnward DEF AccessNext

\* What every owner is told.
Tells ==
    \A m \in Meetings :
        /\ meeting[m].state \in {"none", "open", "ended", "deleting", "gone"}
        /\ Told(m) = IF meeting[m].state \in {"open", "ended"} THEN meeting[m].state
                     ELSE IF meeting[m].state = "deleting" /\ m \in key THEN "session_deleted"
                     ELSE "session_not_found"

LEMMA Telling == Owned => Tells
BY WhatIsTold DEF Owned, MeetingRows, Tells

\* The owner of a meeting is never told that it is back, nor that the service failed,
\* whatever the deletion worker, the clock and other requests of the account do meanwhile.
THEOREM OwnerIsToldOneWay == AccessSpec => OwnerAnswersAdvance
<1>1. AccessInit => AccessInd
    BY AccessIndInit
<1>2. AccessInd /\ [AccessNext]_accessVars => AccessInd'
    BY AccessStep
<1>3. Owned' => Tells'
    BY Telling, PTL
<1>4. ASSUME AccessInd, AccessInd', [AccessNext]_accessVars
      PROVE  \A m \in Meetings : meeting[m].state # "none" =>
                 Stage(Told(m)) <= Stage(Told(m)') /\ Told(m)' # "service_unavailable"
    <2> SUFFICES ASSUME NEW m \in Meetings, meeting[m].state # "none"
                 PROVE  Stage(Told(m)) <= Stage(Told(m)') /\ Told(m)' # "service_unavailable"
        OBVIOUS
    <2>1. Onward
        BY <1>4, StepsAreOnward
    <2>2. Stage("open") = 1 /\ Stage("ended") = 2 /\ Stage("session_deleted") = 3
          /\ Stage("session_not_found") = 4
        BY DEF Stage
    <2>3. Tells /\ Tells'
        BY <1>3, <1>4, Telling DEF AccessInd
    <2> QED BY <2>1, <2>2, <2>3 DEF Onward, Tells
<1>5. AccessInd /\ AccessInd' /\ [AccessNext]_accessVars =>
          [\A m \in Meetings :
              meeting[m].state # "none" =>
                  Stage(Told(m)) <= Stage(Told(m)') /\ Told(m)' # "service_unavailable"]_accessVars
    BY <1>4
<1> QED BY <1>1, <1>2, <1>5, PTL DEF AccessSpec, OwnerAnswersAdvance
=============================================================================
