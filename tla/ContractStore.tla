--------------------------- MODULE ContractStore ---------------------------
(***************************************************************************)
(* The other store the analyzer worker runs on: the SQLite contract        *)
(* harness of prototype/service_store.py, on the state and the worker of   *)
(* ServiceJobs.  It writes under one lock of the database, so each method  *)
(* is one step: no row lock is held while another is waited for, and no    *)
(* revision is read that may move before the claim is written.  In return  *)
(* any transaction may find the database locked for too long.              *)
(*                                                                         *)
(* It knows nothing of provider items and of drain deadlines: finals come  *)
(* in their sequence, and whoever finalizes a meeting says whether the     *)
(* record is incomplete.  Of lost audio (gap) only that caller knows.      *)
(***************************************************************************)
EXTENDS ServiceJobs

VARIABLE backend    \* the store behind this behaviour: "postgres" or "sqlite"

storeVars == <<vars, backend>>

-----------------------------------------------------------------------------
(* Intake.                                                                 *)

\* _require_open
Accepting(s) == state[s] = "open"

\* The final after the last one, with its job.  One that was accepted before is answered
\* and changes nothing; a gap in the sequence is refused.
AcceptNextFinal(s) ==
    /\ Accepting(s) /\ ~closed[s]
    /\ Len(jobs[s]) < MaxEvidence
    /\ jobs' = [jobs EXCEPT ![s] = Append(@, NewJob)]
    /\ UNCHANGED <<sessionVars, items, stream, turn, worker, faults, passed>>

\* _append_locked: a session_finalizing event closes intake with the batch it is in.
AppendLocked(s, events) ==
    /\ Write(s, events)
    /\ closed' = [closed EXCEPT ![s] = @ \/ \E i \in DOMAIN events : events[i].by = "system"]

\* append_events, of a person or of the caller who stops the intake.
AppendEvents(s, by) ==
    /\ Accepting(s) /\ ~closed[s]
    /\ by = "human" =>
           Cardinality({i \in DOMAIN stream[s] : stream[s][i].by = "human"}) < MaxHuman
    /\ AppendLocked(s, <<Event(by)>>)
    /\ UNCHANGED <<state, deadline, gap, items, jobs, turn, worker, faults, passed>>

AudioIsLost(s) ==
    /\ Accepting(s) /\ ~closed[s]
    /\ gap' = [gap EXCEPT ![s] = TRUE]
    /\ UNCHANGED <<state, closed, deadline, items, stream, jobs, turn, worker, faults, passed>>

\* finalize: refused while jobs are unresolved unless the caller says so.
FinalizeSession(s, incomplete) ==
    /\ Accepting(s) /\ closed[s]
    /\ Unresolved(s) # {} => incomplete
    /\ Finalize(s, incomplete)
    /\ UNCHANGED <<closed, deadline, gap, items, jobs, turn, worker, faults, passed>>

-----------------------------------------------------------------------------
(* The worker's calls.                                                     *)

\* claim_job: the row, its revision and the turn of its session in one transaction.
Claim(w, s, j) ==
    LET attempt == jobs[s][j].attempt + 1
    IN  /\ worker[w].pc = "asking"
        /\ Claimable(s, j)
        /\ NextInTurn(w, s)
        /\ jobs' = [jobs EXCEPT ![s][j] = [@ EXCEPT !.state = "processing", !.attempt = attempt,
                                                    !.expired = FALSE, !.start = Revision(s)]]
        /\ before' = Marked(s, w)
        /\ unseen' = {p \in unseen : p[1] # w}
        /\ worker' = [worker EXCEPT ![w] = [Idle EXCEPT
               !.pc = "claimed", !.session = s, !.job = j,
               !.attempt = attempt, !.start = Revision(s)]]
        /\ passed' = Passing(s, 1)
        /\ UNCHANGED <<sessionVars, items, stream, faults>>

\* renew_job_lease, or it is refused.
Renew(w) ==
    LET c == worker[w]
        mine == Accepting(c.session) /\ Owns(w)
    IN  /\ c.pc \in {"claimed", "analyzing"} /\ ~c.lost
        /\ jobs' = IF mine THEN [jobs EXCEPT ![c.session][c.job].expired = FALSE] ELSE jobs
        /\ worker' = IF mine THEN worker ELSE [worker EXCEPT ![w].lost = TRUE]
        /\ UNCHANGED <<sessionVars, items, stream, turn, faults, passed>>

\* accept_job_result, and what it checks in the transaction of the events.
Accepts(w) == Accepting(worker[w].session) /\ Owns(w) /\ Fresh(w)

AcceptJobResult(w, n) ==
    LET c == worker[w]
    IN  /\ c.pc = "analyzed" /\ Accepts(w)
        /\ AppendLocked(c.session,
               [i \in 1 .. n |-> [by |-> "analyzer", job |-> c.job, seen |-> c.seen]])
        /\ Settle(w, "completed")
        /\ worker' = [worker EXCEPT ![w] = Idle]
        /\ UNCHANGED <<state, deadline, gap, items, turn, faults, passed>>

\* A job that is completed is answered with the record as it is.
ResultRefused(w) ==
    LET answered == Accepting(worker[w].session) /\ AlreadyDone(w)
    IN  /\ worker[w].pc = "analyzed" /\ ~Accepts(w)
        /\ worker' = [worker EXCEPT ![w] = IF answered THEN Idle ELSE [@ EXCEPT !.pc = "failing"]]
        /\ UNCHANGED <<sessionVars, items, stream, jobs, turn, faults, passed>>

\* The database stays locked, or the events or their hints do not pass: rolled back.
RolledBack(w) ==
    /\ worker[w].pc \in {"analyzed", "failing"} /\ faults < MaxFaults
    /\ faults' = faults + 1
    /\ worker' = [worker EXCEPT ![w] =
           IF @.pc = "analyzed" THEN [@ EXCEPT !.pc = "failing"] ELSE Idle]
    /\ UNCHANGED <<sessionVars, items, stream, jobs, turn, passed>>

\* fail_job: a closed session and a stale claim are left alone.
RecordFailure(w) ==
    /\ worker[w].pc = "failing"
    /\ IF Accepting(worker[w].session) /\ Owns(w) THEN Settle(w, "failed") ELSE UNCHANGED jobs
    /\ worker' = [worker EXCEPT ![w] = Idle]
    /\ UNCHANGED <<sessionVars, items, stream, turn, faults, passed>>

\* retry_job: the attempts of a failed job are counted on.
RetryFailed(s, j) ==
    /\ Accepting(s) /\ jobs[s][j].state = "failed" /\ jobs[s][j].attempt < MaxAttempts
    /\ jobs' = [jobs EXCEPT ![s][j].state = "pending"]
    /\ UNCHANGED <<sessionVars, items, stream, turn, worker, faults, passed>>

-----------------------------------------------------------------------------
ContractNext ==
    \/ \E s \in Sessions :
          \/ AcceptNextFinal(s) \/ AudioIsLost(s)
          \/ \E by \in {"human", "system"} : AppendEvents(s, by)
          \/ FinalizeSession(s, Incomplete(s))
          \/ \E j \in Evidence(s) : LeaseExpires(s, j) \/ RetryFailed(s, j)
    \/ \E w \in Workers :
          \/ TakeTime(w) \/ FindNothing(w)
          \/ \E s \in Sessions : \E j \in Evidence(s) : Claim(w, s, j)
          \/ Renew(w) \/ Replay(w) \/ Analyze(w) \/ Fault(w)
          \/ \E n \in 0 .. MaxBatch : AcceptJobResult(w, n)
          \/ ResultRefused(w) \/ RolledBack(w) \/ RecordFailure(w)

\* Both stores start with empty tables.
ContractInit == Init /\ backend \in {"postgres", "sqlite"}

StoreNext ==
    \/ backend = "postgres" /\ Next /\ UNCHANGED backend
    \/ backend = "sqlite" /\ ContractNext /\ UNCHANGED backend

StoreSpec == ContractInit /\ [][StoreNext]_storeVars

\* The service itself: its store, with the processes and clocks that run against it.
ServiceInit == Init /\ backend = "postgres"

ServiceSpec == ServiceInit /\ [][StoreNext]_storeVars /\ Fairness
=============================================================================
