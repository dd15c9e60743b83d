-------------------------- MODULE ServiceAccount --------------------------
(***************************************************************************)
(* Accounts of the service, the meetings they own, and how both go away:   *)
(* logins and Web Sessions (prototype/service_identity_store.py,           *)
(* prototype/service_auth_http.py), admission and the deletion fence       *)
(* (prototype/postgres_service_store.py), the withdrawal of an account     *)
(* (prototype/service_account_withdrawal.py), the key registry, and the    *)
(* worker that destroys keys and purges rows                               *)
(* (prototype/service_deletion_worker.py).                                 *)
(*                                                                         *)
(* A request first authenticates and then acts, in a transaction of its    *)
(* own.  The key registry is another system: what is done there is not     *)
(* undone with a transaction.  What happens in a meeting until it ends is  *)
(* in ServiceCapture and ServiceJobs; every write there asks for an open   *)
(* meeting under the lock of its row, which the fence takes as well.       *)
(***************************************************************************)
EXTENDS Integers, FiniteSets

CONSTANTS
    Subjects,   \* identities the issuer knows
    Newcomers,  \* bound: those of them who log in
    Requests,   \* requests handled at the same time
    Meetings,   \* opaque session ids, each made up for one opening
    Workers,    \* deletion workers
    None,
    MaxUsers,   \* bound: accounts, numbered as they are created
    MaxLogins,  \* bound: logins; a Web Session has the number of its token
    Capacity    \* max_open_sessions

ASSUME AccountAssumption ==
    /\ None \notin Subjects \cup Meetings /\ Newcomers \subseteq Subjects
    /\ MaxUsers \in Nat /\ MaxLogins \in Nat /\ Capacity \in Nat \ {0}

Users == 1 .. MaxUsers
Logins == 1 .. MaxLogins
Tokens == 1 .. MaxLogins
Nobody == 0

VARIABLES
    user,       \* service_user: the account of each subject
    created,    \* accounts created so far
    attempt,    \* service_auth_attempt
    web,        \* service_web_session: whose it is, and from which login
    receipt,    \* tokens in service_withdrawal_receipt
    request,    \* what each request is doing
    meeting,    \* service_session: its state and owner
    key,        \* meetings whose key the registry has
    job,        \* service_deletion_job of each meeting
    worker      \* what each deletion worker is doing

identity == <<user, created, attempt, web, receipt>>
deletion == <<job, worker>>
vars == <<identity, request, meeting, key, deletion>>

NoRequest == [pc |-> "idle", login |-> 0, subject |-> None, user |-> Nobody, token |-> 0,
              meeting |-> None]
NoMeeting == [state |-> "none", owner |-> Nobody]
NoJob == [state |-> "none", holder |-> None, live |-> FALSE]
NoClaim == [pc |-> "idle", meeting |-> None]

Init ==
    /\ user = [s \in Subjects |-> Nobody] /\ created = 0
    /\ attempt = [n \in Logins |-> "none"]
    /\ web = [t \in Tokens |-> [state |-> "none", user |-> Nobody, login |-> 0]]
    /\ receipt = {}
    /\ request = [r \in Requests |-> NoRequest]
    /\ meeting = [m \in Meetings |-> NoMeeting] /\ key = {}
    /\ job = [m \in Meetings |-> NoJob] /\ worker = [w \in Workers |-> NoClaim]

Exists(u) == \E s \in Subjects : user[s] = u

\* get_key: what is stored of a meeting can be decrypted, its owner as well.
Readable(m) == m \in key

\* The transaction of an opening holds the user's row.
Locked(u) == \E r \in Requests : request[r].pc = "opening" /\ request[r].user = u
Done(r) == request' = [request EXCEPT ![r] = NoRequest]
Idle(r) == request[r].pc = "idle"

-----------------------------------------------------------------------------
(* Login, Web Sessions, authentication.                                    *)

SaveAttempt(n) ==
    /\ attempt[n] = "none" /\ \A k \in 1 .. n - 1 : attempt[k] # "none"
    /\ attempt' = [attempt EXCEPT ![n] = "saved"]
    /\ UNCHANGED <<user, created, web, receipt, request, meeting, key, deletion>>

AttemptExpires(n) ==
    /\ attempt[n] = "saved" /\ attempt' = [attempt EXCEPT ![n] = "gone"]
    /\ UNCHANGED <<user, created, web, receipt, request, meeting, key, deletion>>

Consumed(n) == [attempt EXCEPT ![n] = "gone"]

\* A callback of the browser that began the login; it may come more than once.
ConsumeAttempt(r, n) ==
    /\ Idle(r) /\ attempt[n] = "saved"
    /\ attempt' = Consumed(n)
    /\ request' = [request EXCEPT ![r] = [NoRequest EXCEPT !.pc = "exchange", !.login = n]]
    /\ UNCHANGED <<user, created, web, receipt, meeting, key, deletion>>

\* exchange_code: the ID token of some login that the issuer gives for the code.
IdTokens == [nonce : Logins, subject : Newcomers, signed : BOOLEAN]

\* verify_id_token: signed with a key of the issuer, for the attempt that was consumed.
Verified(r, id) == id.signed /\ id.nonce = request[r].login

\* complete_authorization, or the login ends: no answer, no keys, a token that is refused.
Exchange(r) ==
    /\ request[r].pc = "exchange"
    /\ \/ \E id \in IdTokens :
             /\ Verified(r, id)
             /\ request' = [request EXCEPT ![r].pc = "verified", ![r].subject = id.subject]
       \/ Done(r)
    /\ UNCHANGED <<identity, meeting, key, deletion>>

get_or_create_user(r) ==
    /\ request[r].pc = "verified"
    /\ LET s == request[r].subject
           new == user[s] = Nobody
           u == IF new THEN created + 1 ELSE user[s]
       IN  /\ u \in Users /\ ~Locked(u)
           /\ user' = [user EXCEPT ![s] = u]
           /\ created' = IF new THEN u ELSE created
           /\ request' = [request EXCEPT ![r].pc = "known", ![r].user = u]
    /\ UNCHANGED <<attempt, web, receipt, meeting, key, deletion>>

FreeTokens == {t \in Tokens : web[t].state = "none"}

\* The account may be gone since it was looked up.
issue_web_session(r) ==
    /\ request[r].pc = "known" /\ ~Locked(request[r].user)
    /\ IF Exists(request[r].user)
       THEN \E t \in FreeTokens :
              /\ \A k \in FreeTokens : t <= k
              /\ web' = [web EXCEPT ![t] = [state |-> "live", user |-> request[r].user,
                                            login |-> request[r].login]]
       ELSE UNCHANGED web
    /\ Done(r)
    /\ UNCHANGED <<user, created, attempt, receipt, meeting, key, deletion>>

\* A logout, or the end of its life.
RevokeWebSession(t) ==
    /\ web[t].state = "live" /\ web' = [web EXCEPT ![t].state = "revoked"]
    /\ UNCHANGED <<user, created, attempt, receipt, request, meeting, key, deletion>>

\* authenticate_mutation, before the operation that was asked for.
Authenticate(r, t, operation) ==
    /\ Idle(r) /\ web[t].state = "live"
    /\ request' = [request EXCEPT ![r] =
            [NoRequest EXCEPT !.pc = operation, !.token = t, !.user = web[t].user]]
    /\ UNCHANGED <<identity, meeting, key, deletion>>

-----------------------------------------------------------------------------
(* A meeting from its opening to the fence of its deletion.                *)

\* Mutated: that the request was authenticated is enough.
ActiveUserBug(u) == TRUE

ActiveUser(u) == Exists(u)

\* open_session up to the key: its locks keep other openings and the withdrawal out.
OpenSession(r, m) ==
    /\ request[r].pc = "open" /\ meeting[m] = NoMeeting /\ m \notin key
    /\ \A q \in Requests : request[q].pc # "opening"
    /\ ActiveUser(request[r].user)
    /\ Cardinality({k \in Meetings : meeting[k].state = "open"}) < Capacity
    /\ key' = key \cup {m}
    /\ request' = [request EXCEPT ![r].pc = "opening", ![r].meeting = m]
    /\ UNCHANGED <<identity, meeting, deletion>>

OpenRefused(r) ==
    /\ request[r].pc = "open"
    /\ \/ ~ActiveUser(request[r].user)
       \/ Cardinality({k \in Meetings : meeting[k].state = "open"}) >= Capacity
    /\ Done(r)
    /\ UNCHANGED <<identity, meeting, key, deletion>>

Opened(r) ==
    meeting' = [meeting EXCEPT ![request[r].meeting] =
                    [NoMeeting EXCEPT !.state = "open", !.owner = request[r].user]]

OpenCommits(r) ==
    /\ request[r].pc = "opening" /\ Opened(r) /\ Done(r)
    /\ UNCHANGED <<identity, key, deletion>>

KeysLeft(m) == key

\* The transaction is lost, or only its outcome.
OpenFails(r) ==
    /\ request[r].pc = "opening" /\ (Opened(r) \/ UNCHANGED meeting) /\ Done(r)
    /\ key' = KeysLeft(request[r].meeting)
    /\ UNCHANGED <<identity, deletion>>

End(m) ==
    /\ meeting[m].state = "open" /\ meeting' = [meeting EXCEPT ![m].state = "ended"]
    /\ UNCHANGED <<identity, request, key, deletion>>

\* _begin_deletion_locked
Fenced(ms) ==
    /\ meeting' = [m \in Meetings |-> IF m \in ms THEN [meeting[m] EXCEPT !.state = "deleting"]
                                      ELSE meeting[m]]
    /\ job' = [m \in Meetings |-> IF m \in ms THEN [NoJob EXCEPT !.state = "pending"] ELSE job[m]]

Kept == {m \in Meetings : meeting[m].state \in {"open", "ended"}}

\* With the meeting's key gone nobody is its owner any more.
BeginOwnerDeletion(r, m) ==
    /\ request[r].pc = "delete"
    /\ Fenced(IF m \in Kept /\ Readable(m) /\ meeting[m].owner = request[r].user THEN {m} ELSE {})
    /\ Done(r)
    /\ UNCHANGED <<identity, key, worker>>

-----------------------------------------------------------------------------
(* Withdrawal of an account.                                               *)

OwnedBy(u) == {m \in Kept : meeting[m].owner = u}

Receipts(u, t) == {k \in Tokens : web[k].user = u /\ web[k].state = "live"}

\* One transaction, with the user's row and every meeting's locked; it fails closed when
\* the owner of some meeting cannot be read.
Withdraw(r) ==
    LET u == request[r].user
    IN  /\ request[r].pc = "withdraw" /\ Exists(u) /\ ~Locked(u)
        /\ \A m \in Kept : Readable(m)
        /\ Fenced(OwnedBy(u))
        /\ receipt' = receipt \cup Receipts(u, request[r].token)
        /\ user' = [s \in Subjects |-> IF user[s] = u THEN Nobody ELSE user[s]]
        /\ web' = [t \in Tokens |-> IF web[t].user = u /\ web[t].state = "live"
                                    THEN [web[t] EXCEPT !.state = "withdrawn"] ELSE web[t]]
        /\ \/ Done(r)
           \/ request' = [request EXCEPT ![r].pc = "withdraw"]     \* its answer is lost, sent again
        /\ UNCHANGED <<created, attempt, key, worker>>

\* Another request was first: what it was told is told again.
WithdrawnBefore(r) ==
    /\ request[r].pc = "withdraw" /\ ~Exists(request[r].user)
    /\ Done(r)
    /\ UNCHANGED <<identity, meeting, key, deletion>>

-----------------------------------------------------------------------------
(* The deletion worker: process_one.                                       *)

\* Its first transaction; the second, the claim, knows nothing of it.  The deadline is any
\* time after the end.
begin_due_deletion(m) ==
    /\ meeting[m].state = "ended" /\ Fenced({m})
    /\ UNCHANGED <<identity, request, key, worker>>

\* Mutated: a claim that was given up is not taken over.
ClaimableBug(m) == job[m].state = "pending"

\* The time until a retry may be as short as the claim likes.
Claimable(m) == job[m].state = "pending" \/ (job[m].state = "processing" /\ ~job[m].live)

claim_deletion_job(w, m) ==
    /\ worker[w].pc = "idle" /\ Claimable(m)
    /\ job' = [job EXCEPT ![m] = [NoJob EXCEPT !.state = "processing", !.holder = w,
                                               !.live = TRUE]]
    /\ worker' = [worker EXCEPT ![w] = [pc |-> "claimed", meeting |-> m]]
    /\ UNCHANGED <<identity, request, meeting, key>>

\* The claim token of a worker: a claim it lost is another's, or expired.
Holds(w) ==
    LET m == worker[w].meeting
    IN  job[m].state = "processing" /\ job[m].live /\ job[m].holder = w

delete_key(w) ==
    /\ worker[w].pc = "claimed"
    /\ key' = key \ {worker[w].meeting}
    /\ worker' = [worker EXCEPT ![w].pc = "destroyed"]
    /\ UNCHANGED <<identity, request, meeting, job>>

\* The registry does not say that the key is destroyed, whether it is or not.
DeleteKeyFails(w) ==
    /\ worker[w].pc = "claimed"
    /\ key' \in {key, key \ {worker[w].meeting}}
    /\ worker' = [worker EXCEPT ![w].pc = "failing"]
    /\ UNCHANGED <<identity, request, meeting, job>>

Unreadable(m) == ~Readable(m)

Purged(m) ==
    /\ meeting' = [meeting EXCEPT ![m] = [NoMeeting EXCEPT !.state = "gone"]]
    /\ job' = [job EXCEPT ![m] = NoJob]

complete_deletion_job(w) ==
    /\ worker[w].pc = "destroyed" /\ Holds(w) /\ Unreadable(worker[w].meeting)
    /\ Purged(worker[w].meeting)
    /\ worker' = [worker EXCEPT ![w] = NoClaim]
    /\ UNCHANGED <<identity, request, key>>

\* It raises: the claim is stale, or the outcome of the transaction is not known.
CompletionFails(w) ==
    /\ worker[w].pc = "destroyed"
    /\ \/ UNCHANGED <<meeting, job>>
       \/ Holds(w) /\ Unreadable(worker[w].meeting) /\ Purged(worker[w].meeting)
    /\ worker' = [worker EXCEPT ![w].pc = "failing"]
    /\ UNCHANGED <<identity, request, key>>

fail_deletion_job(w) ==
    /\ worker[w].pc = "failing"
    /\ job' = IF Holds(w)
              THEN [job EXCEPT ![worker[w].meeting] = [NoJob EXCEPT !.state = "pending"]]
              ELSE job
    /\ worker' = [worker EXCEPT ![w] = NoClaim]
    /\ UNCHANGED <<identity, request, meeting, key>>

Crash(w) ==
    /\ worker[w].pc # "idle" /\ worker' = [worker EXCEPT ![w] = NoClaim]
    /\ UNCHANGED <<identity, request, meeting, key, job>>

ClaimExpires(m) ==
    /\ job[m].live /\ job' = [job EXCEPT ![m].live = FALSE]
    /\ UNCHANGED <<identity, request, meeting, key, worker>>

-----------------------------------------------------------------------------
Login == \/ \E n \in Logins : SaveAttempt(n) \/ AttemptExpires(n)
         \/ \E r \in Requests, n \in Logins : ConsumeAttempt(r, n)
         \/ \E r \in Requests : Exchange(r) \/ get_or_create_user(r) \/ issue_web_session(r)
         \/ \E t \in Tokens : RevokeWebSession(t)

AccountOperations == {"open", "delete", "withdraw"}

Operate == \/ \E r \in Requests, m \in Meetings : OpenSession(r, m) \/ BeginOwnerDeletion(r, m)
           \/ \E r \in Requests : \/ OpenRefused(r) \/ OpenCommits(r) \/ OpenFails(r)
                                  \/ Withdraw(r) \/ WithdrawnBefore(r)

Request ==
    \/ \E r \in Requests, t \in Tokens, o \in AccountOperations : Authenticate(r, t, o)
    \/ Operate

Time == \E m \in Meetings : begin_due_deletion(m) \/ End(m)

Succeeds(w) ==
    (\E m \in Meetings : claim_deletion_job(w, m)) \/ delete_key(w) \/ complete_deletion_job(w)

Fails(w) == DeleteKeyFails(w) \/ CompletionFails(w) \/ fail_deletion_job(w)

Process(w) == Succeeds(w) \/ Fails(w)

Faults == (\E w \in Workers : Fails(w) \/ Crash(w)) \/ \E m \in Meetings : ClaimExpires(m)

Next == Login \/ Request \/ Time \/ Faults \/ \E w \in Workers : Succeeds(w)

Spec == Init /\ [][Next]_vars

Works(w, m) == worker[w].meeting = m

\* The registry can destroy keys, which that of service_openbao_keys refuses to do so far.
\* Workers are started again, clocks run, a claim that can be taken again and again is taken,
\* and neither the registry nor the database fails, nor is slower than the claim, every time.
Fairness ==
    /\ WF_vars(\E w \in Workers : Process(w))
    /\ \A m \in Meetings :
          /\ WF_vars(ClaimExpires(m)) /\ SF_vars(\E w \in Workers : claim_deletion_job(w, m))
          /\ SF_vars(\E w \in Workers : Works(w, m) /\ delete_key(w) /\ Holds(w))
          /\ SF_vars(\E w \in Workers : Works(w, m) /\ complete_deletion_job(w))

FairSpec == Spec /\ Fairness

-----------------------------------------------------------------------------
\* Rows, requests and claims keep their types, and a fenced meeting has its job.
TypeOK ==
    /\ user \in [Subjects -> {Nobody} \cup Users] /\ created \in 0 .. MaxUsers
    /\ attempt \in [Logins -> {"none", "saved", "gone"}] /\ receipt \subseteq Tokens
    /\ web \in [Tokens -> [state : {"none", "live", "revoked", "withdrawn"}, user : {Nobody} \cup Users,
                           login : 0 .. MaxLogins]]
    /\ meeting \in [Meetings -> [state : {"none", "open", "ended", "deleting", "gone"},
                                 owner : {Nobody} \cup Users]]
    /\ key \subseteq Meetings
    /\ job \in [Meetings -> [state : {"none", "pending", "processing"},
                             holder : Workers \cup {None}, live : BOOLEAN]]
    /\ \A m \in Meetings : job[m].state # "none" <=> meeting[m].state = "deleting"

\* No meeting outlives the account that owns it, however its opening, its end and the
\* withdrawal meet.
NoOrphanMeeting == \A m \in Kept : Exists(meeting[m].owner)

\* A meeting that is not fenced can be read, and one whose rows are purged never again.
KeyFollowsMeeting ==
    \A m \in Meetings :
        /\ m \in Kept => m \in key
        /\ meeting[m].state = "gone" => m \notin key

\* A login makes at most one Web Session, however often its callback comes.
OneSessionPerLogin ==
    \A t, k \in Tokens : web[t].login = web[k].login /\ web[t].login # 0 => t = k

\* Accounts, meetings, keys and deletion jobs agree.
AccountInv ==
    /\ TypeOK
    /\ NoOrphanMeeting
    /\ KeyFollowsMeeting
    /\ OneSessionPerLogin

\* A browser that was authenticated for the withdrawal of an account that is gone since
\* has a receipt to be answered with, unless it logged out in between.
WithdrawalIsAnswered ==
    \A r \in Requests :
        request[r].pc = "withdraw" /\ ~Exists(request[r].user)
            /\ web[request[r].token].state # "revoked" =>
            request[r].token \in receipt

\* A meeting that was fenced is purged in the end, with its key destroyed first.
FencedIsPurged == \A m \in Meetings : meeting[m].state = "deleting" ~> meeting[m].state = "gone"
=============================================================================
