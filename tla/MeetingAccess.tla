--------------------------- MODULE MeetingAccess ---------------------------
(***************************************************************************)
(* Who may see and steer a meeting of ServiceAccount: the handlers of      *)
(* prototype/service_meeting_http.py and prototype/service_auth_http.py,   *)
(* the owner boundary of prototype/postgres_service_store.py, and the      *)
(* display credentials an owner gives to a screen others look at.          *)
(*                                                                         *)
(* A handler authenticates, does its operation in another transaction, and *)
(* answers after that one; what it answers with is out of the store by     *)
(* then.  A request with a display credential and a cookie is refused.     *)
(***************************************************************************)
EXTENDS ServiceAccount

CONSTANT MaxViews   \* bound: display credentials, numbered as they are issued

ASSUME AccessAssumption ==
    /\ MaxViews \in Nat /\ IsFiniteSet(Subjects) /\ Subjects # {}
    /\ Cardinality(Subjects) <= MaxUsers /\ Cardinality(Subjects) <= MaxLogins

Views == 1 .. MaxViews

VARIABLES
    view,      \* service_view_credential
    offered    \* the operations browsers use in this behaviour: those on accounts, where
               \* people log in and the worker meets faults, or those on one meeting

accessVars == <<vars, view, offered>>

NoView == [meeting |-> None, state |-> "none"]

OwnerOperations ==
    {"delete", "withdraw", "end", "issue", "revoke", "canvas", "record", "logout"}

\* Everybody has logged in, and one of them has opened a meeting.
SignedIn ==
    \E m \in Meetings :
        /\ created = Cardinality(Subjects)
        /\ user = CHOOSE f \in [Subjects -> Users] : {f[s] : s \in Subjects} = 1 .. created
        /\ attempt = [n \in Logins |-> IF n <= created THEN "gone" ELSE "none"]
        /\ web = [t \in Tokens |-> IF t <= created
                                   THEN [state |-> "live", user |-> t, login |-> t]
                                   ELSE [state |-> "none", user |-> Nobody, login |-> 0]]
        /\ receipt = {}
        /\ request = [r \in Requests |-> NoRequest]
        /\ meeting = [k \in Meetings |-> IF k = m THEN [state |-> "open", owner |-> 1]
                                         ELSE NoMeeting]
        /\ key = {m}
        /\ job = [k \in Meetings |-> NoJob] /\ worker = [w \in Workers |-> NoClaim]

AccessInit ==
    /\ view = [v \in Views |-> NoView]
    /\ \/ Init /\ offered = AccountOperations
       \/ SignedIn /\ offered = OwnerOperations

-----------------------------------------------------------------------------
(* The owner boundary.                                                     *)

\* _require_owner_locked: what the owner of a meeting is told of it.
Told(m) ==
    CASE meeting[m].state \in {"none", "gone"}            -> "session_not_found"
      [] meeting[m].state = "deleting" /\ ~Readable(m)   -> "session_not_found"
      [] meeting[m].state = "deleting" /\ Readable(m)    -> "session_deleted"
      [] m \in Kept /\ ~Readable(m)                      -> "service_unavailable"
      [] OTHER                                            -> meeting[m].state

\* The owner's operations lock the row of the meeting and ask again who owns it.
Authorized(r, m) == Told(m) \in {"open", "ended"} /\ meeting[m].owner = request[r].user

Asked(r, operation) == request[r].pc = operation

\* The content leaves the store.
Load(r, m) == request' = [request EXCEPT ![r].pc = "answer", ![r].meeting = m]

-----------------------------------------------------------------------------
(* The operations.                                                         *)

\* request_end; while a capture is to stop first, the rest is the audio gateway's.
RequestEnd(r, m) ==
    /\ Asked(r, "end")
    /\ \/ /\ Authorized(r, m) /\ Told(m) = "open"
          /\ request' = [request EXCEPT ![r].pc = "drain", ![r].meeting = m]
       \/ Done(r)
    /\ UNCHANGED <<identity, meeting, key, deletion, view, offered>>

\* Mutated: the state that was read when the end was asked for is written back.
DrainedBug(m) == IF meeting[m].state = "deleting" THEN {"deleting"} ELSE {"open", "ended"}

\* complete_drain_if_ready: a meeting with work left waits for the supervisor.
Drained(m) == IF meeting[m].state = "open" THEN {"open", "ended"} ELSE {meeting[m].state}

CompleteDrainIfReady(r) ==
    /\ Asked(r, "drain")
    /\ \E state \in Drained(request[r].meeting) :
           meeting' = [meeting EXCEPT ![request[r].meeting].state = state]
    /\ Done(r)
    /\ UNCHANGED <<identity, key, deletion, view, offered>>

FreeViews == {v \in Views : view[v] = NoView}

IssueView(r, m) ==
    /\ Asked(r, "issue")
    /\ IF Authorized(r, m) /\ Told(m) = "open"
       THEN \E v \in FreeViews :
              /\ \A k \in FreeViews : v <= k
              /\ view' = [view EXCEPT ![v] = [meeting |-> m, state |-> "live"]]
       ELSE UNCHANGED view
    /\ Done(r)
    /\ UNCHANGED <<identity, meeting, key, deletion, offered>>

RevokeView(r, v) ==
    /\ Asked(r, "revoke") /\ view[v] # NoView
    /\ IF Authorized(r, view[v].meeting)
       THEN view' = [view EXCEPT ![v].state = "revoked"]
       ELSE UNCHANGED view
    /\ Done(r)
    /\ UNCHANGED <<identity, meeting, key, deletion, offered>>

ViewExpires(v) ==
    /\ view[v].state = "live" /\ view' = [view EXCEPT ![v].state = "expired"]
    /\ UNCHANGED <<vars, offered>>

\* load_owner_canvas_source: the map, or the state, of a meeting that may have ended.
LoadOwnerCanvas(r, m) ==
    /\ Asked(r, "canvas")
    /\ IF Authorized(r, m) THEN Load(r, m) ELSE Done(r)
    /\ UNCHANGED <<identity, meeting, key, deletion, view, offered>>

\* load_owner_final_record_source: what the PDF is made of, once the meeting has ended.
LoadFinalRecord(r, m) ==
    /\ Asked(r, "record")
    /\ IF Authorized(r, m) /\ Told(m) = "ended" THEN Load(r, m) ELSE Done(r)
    /\ UNCHANGED <<identity, meeting, key, deletion, view, offered>>

\* authorize_live_canvas
Shows(v) == view[v].state = "live" /\ meeting[view[v].meeting].state = "open"

LoadLiveCanvas(r, v) ==
    /\ Idle(r) /\ "canvas" \in offered /\ Shows(v)
    /\ request' = [request EXCEPT ![r] = [NoRequest EXCEPT !.pc = "display", !.token = v,
                                                           !.meeting = view[v].meeting]]
    /\ UNCHANGED <<identity, meeting, key, deletion, view, offered>>

Answer(r) ==
    /\ request[r].pc \in {"answer", "display"} /\ Done(r)
    /\ UNCHANGED <<identity, meeting, key, deletion, view, offered>>

Logout(r) ==
    /\ Asked(r, "logout")
    /\ web' = IF web[request[r].token].state = "live"
              THEN [web EXCEPT ![request[r].token].state = "revoked"] ELSE web
    /\ Done(r)
    /\ UNCHANGED <<user, created, attempt, receipt, meeting, key, deletion, view, offered>>

-----------------------------------------------------------------------------
Owner ==
    \/ \E r \in Requests, m \in Meetings :
          \/ RequestEnd(r, m) \/ IssueView(r, m)
          \/ LoadOwnerCanvas(r, m) \/ LoadFinalRecord(r, m)
    \/ \E r \in Requests, v \in Views : RevokeView(r, v) \/ LoadLiveCanvas(r, v)
    \/ \E r \in Requests : CompleteDrainIfReady(r) \/ Answer(r) \/ Logout(r)
    \/ \E v \in Views : ViewExpires(v)

Kernel ==
    /\ \/ offered = AccountOperations /\ (Login \/ Faults)
       \/ \E r \in Requests, t \in Tokens, o \in offered : Authenticate(r, t, o)
       \/ Operate \/ Time \/ \E w \in Workers : Succeeds(w)
    /\ UNCHANGED <<view, offered>>

AccessNext == Kernel \/ Owner

AccessSpec == AccessInit /\ [][AccessNext]_accessVars /\ Fairness

-----------------------------------------------------------------------------
AccessTypeOK ==
    /\ TypeOK
    /\ view \in [Views -> [meeting : Meetings \cup {None},
                           state : {"none", "live", "revoked", "expired"}]]

\* No login outlives the account it was for, however the withdrawal meets the callback.
NoLoginOutlivesAccount == \A t \in Tokens : web[t].state = "live" => Exists(web[t].user)

\* A screen shows a meeting no longer than it goes on and its owner has an account.
DisplaysWhatGoesOn ==
    \A v \in Views :
        Shows(v) => LET m == view[v].meeting
                    IN  meeting[m].state = "open" /\ m \in key /\ Exists(meeting[m].owner)

\* Content on its way out is that of its owner's meeting, or of the one the credential is
\* for, whatever happened to the meeting since it was read.
AnswersToItsOwner ==
    \A r \in Requests :
        LET m == request[r].meeting
        IN  /\ request[r].pc = "answer" =>
                   meeting[m].state = "gone" \/ meeting[m].owner = request[r].user
            /\ request[r].pc = "display" => view[request[r].token].meeting = m

\* Accounts, meetings, keys, deletion jobs, logins and credentials agree, and nobody is
\* left without an answer to a withdrawal.
AccessInv ==
    /\ AccountInv /\ AccessTypeOK
    /\ WithdrawalIsAnswered
    /\ NoLoginOutlivesAccount
    /\ DisplaysWhatGoesOn
    /\ AnswersToItsOwner

Stage(told) == CASE told = "open" -> 1 [] told = "ended" -> 2 [] told = "session_deleted" -> 3
                 [] told = "session_not_found" -> 4 [] OTHER -> 5

\* What the owner of a meeting is told only goes one way: it is open, it has ended, it is
\* being deleted, it is not there; and never that the service failed.
OwnerAnswersAdvance ==
    [][\A m \in Meetings :
          meeting[m].state # "none" =>
              Stage(Told(m)) <= Stage(Told(m)') /\ Told(m)' # "service_unavailable"]_accessVars
=============================================================================
