--------------------------- MODULE ServiceJobs ---------------------------
(***************************************************************************)
(* The durable analyzer jobs of the account service: what                  *)
(* prototype/postgres_service_store.py commits for a job, the worker of    *)
(* prototype/service_analyzer_worker.py that runs it, and the drain of     *)
(* prototype/service_drain_supervisor.py that ends a meeting.              *)
(*                                                                         *)
(* A store method is one transaction that holds the FOR UPDATE lock of the *)
(* session row, so most are one action here.  Two are not, because they    *)
(* hold one row lock while they wait for another: claim_job locks the job, *)
(* reads the revision without a lock and only then writes the session row; *)
(* accept_job_result and fail_job lock the session and then the job.       *)
(*                                                                         *)
(* What a meeting says, the capture of its audio and the lifecycle of      *)
(* provider items are left out: an item is counted until it becomes        *)
(* evidence, and gap says that an audio interval is recorded as lost.      *)
(***************************************************************************)
EXTENDS Integers, Sequences, FiniteSets

CONSTANTS
    Sessions,      \* meetings
    Workers,       \* analyzer workers, each with its own thread
    None,          \* no session
    MaxEvidence,   \* bound: utterances of one meeting
    MaxHuman,      \* bound: human corrections of one meeting
    MaxBatch,      \* bound: events one analysis proposes
    MaxAttempts,   \* bound: attempts of one job
    MaxFaults,     \* bound: crashes, analyzer errors and lost heartbeats
    Deadlines      \* whether drain deadlines pass

ASSUME JobsAssumption ==
    /\ IsFiniteSet(Sessions) /\ IsFiniteSet(Workers) /\ Workers # {}
    /\ Sessions \cap Workers = {} /\ None \notin Sessions
    /\ {MaxEvidence, MaxHuman, MaxBatch, MaxFaults} \subseteq Nat
    /\ MaxAttempts \in Nat \ {0}
    /\ Deadlines \in BOOLEAN

VARIABLES
    state,     \* service_state
    closed,    \* intake_closed, set with the session_finalizing event
    deadline,  \* the drain deadline has passed
    gap,       \* some capture_unavailable interval exists
    items,     \* provider items that have no evidence yet
    stream,    \* canonical events of the session; its length is graph_revision
    jobs,      \* one job for each piece of evidence, in utterance order
    before,    \* last_claim_at of the sessions and the times of claims that go on, in order
    unseen,    \* workers whose claim took its time before the lease of a session ended
    worker,    \* what each worker is doing, with which claim
    faults,    \* faults so far
    passed     \* history only: claims of others while a session waits, see Passing

sessionVars == <<state, closed, deadline, gap>>
turn == <<before, unseen>>
vars == <<sessionVars, items, stream, jobs, turn, worker, faults, passed>>

Revision(s) == Len(stream[s])
Evidence(s) == DOMAIN jobs[s]

\* A claim starts with the revision its SELECT saw; seen is what the worker replayed.
\* settled is history only: the attempt that completed the job or failed it.
NewJob == [state |-> "pending", attempt |-> 0, expired |-> FALSE, start |-> 0, settled |-> 0]
Idle == [pc |-> "idle", session |-> None, job |-> 0, attempt |-> 0, start |-> 0,
         seen |-> 0, lost |-> FALSE]

Event(by) == [by |-> by, job |-> 0, seen |-> 0]
Write(s, events) == stream' = [stream EXCEPT ![s] = @ \o events]

-----------------------------------------------------------------------------
(* Row locks that outlive a step.                                          *)

Holding == {"accepting", "recording"}   \* session row held, job row wanted

SessionHeld(s) == \E w \in Workers : worker[w].session = s /\ worker[w].pc \in Holding

RowHeld(s, j) ==
    \E w \in Workers : worker[w].session = s /\ worker[w].job = j /\ worker[w].pc = "selecting"

-----------------------------------------------------------------------------
\* b is the order of the times of S: no two are the same.
Ordered(b, S) ==
    /\ \A x \in S : <<x, x>> \notin b
    /\ \A x, y \in S : x # y => (<<x, y>> \in b) # (<<y, x>> \in b)
    /\ \A x, y, z \in S : <<x, y>> \in b /\ <<y, z>> \in b => <<x, z>> \in b

Init ==
    /\ state = [s \in Sessions |-> "open"]
    /\ closed = [s \in Sessions |-> FALSE]
    /\ deadline = [s \in Sessions |-> FALSE]
    /\ gap = [s \in Sessions |-> FALSE]
    /\ items = [s \in Sessions |-> 0]
    /\ stream = [s \in Sessions |-> <<>>]
    /\ jobs = [s \in Sessions |-> <<>>]
    /\ before \in {b \in SUBSET (Sessions \X Sessions) : Ordered(b, Sessions)}
    /\ unseen = {}
    /\ worker = [w \in Workers |-> Idle]
    /\ faults = 0
    /\ passed = [s \in Sessions |-> 0]

-----------------------------------------------------------------------------
(* The session: intake, human corrections, drain.                          *)

Open(s) == state[s] = "open" /\ ~SessionHeld(s)

\* record_provider_commit or record_provider_completion, whichever is first: an item
\* of audio received before may be recorded until the session ends.
TrackItem(s) ==
    /\ Open(s)
    /\ items[s] + Len(jobs[s]) < MaxEvidence
    /\ items' = [items EXCEPT ![s] = @ + 1]
    /\ UNCHANGED <<sessionVars, stream, jobs, turn, worker, faults, passed>>

\* A disconnect, an uncertain append or a resume records an interval.
LoseAudio(s) ==
    /\ Open(s) /\ ~closed[s]
    /\ gap' = [gap EXCEPT ![s] = TRUE]
    /\ UNCHANGED <<state, closed, deadline, items, stream, jobs, turn, worker, faults, passed>>

Awaited(s) == items[s] > 0

\* Evidence and its job are one transaction; a tracked item may arrive after intake
\* closed.
AcceptFinal(s) ==
    /\ Open(s)
    /\ Awaited(s)
    /\ items' = [items EXCEPT ![s] = @ - 1]
    /\ jobs' = [jobs EXCEPT ![s] = Append(@, NewJob)]
    /\ UNCHANGED <<sessionVars, stream, turn, worker, faults, passed>>

\* accept_final: the next final in sequence, of no provider item; only until intake is
\* closed.
AcceptSequencedFinal(s) ==
    /\ Open(s) /\ ~closed[s]
    /\ items[s] + Len(jobs[s]) < MaxEvidence
    /\ jobs' = [jobs EXCEPT ![s] = Append(@, NewJob)]
    /\ UNCHANGED <<sessionVars, items, stream, turn, worker, faults, passed>>

AppendHuman(s) ==
    /\ Open(s) /\ ~closed[s]
    /\ Cardinality({i \in DOMAIN stream[s] : stream[s][i].by = "human"}) < MaxHuman
    /\ Write(s, <<Event("human")>>)
    /\ UNCHANGED <<sessionVars, items, jobs, turn, worker, faults, passed>>

RequestFinalizing(s) ==
    /\ Open(s) /\ ~closed[s]
    /\ closed' = [closed EXCEPT ![s] = TRUE]
    /\ Write(s, <<Event("system")>>)
    /\ UNCHANGED <<state, deadline, gap, items, jobs, turn, worker, faults, passed>>

DeadlinePasses(s) ==
    /\ Deadlines
    /\ state[s] = "open" /\ closed[s] /\ ~deadline[s]
    /\ deadline' = [deadline EXCEPT ![s] = TRUE]
    /\ UNCHANGED <<state, closed, gap, items, stream, jobs, turn, worker, faults, passed>>

Unresolved(s) == {j \in Evidence(s) : jobs[s][j].state # "completed"}

\* Mutated: the drain waits for every job, however long.
DueBug(s) == Unresolved(s) = {} /\ items[s] = 0

Due(s) == deadline[s] \/ (Unresolved(s) = {} /\ items[s] = 0)

Incomplete(s) == Unresolved(s) # {} \/ items[s] > 0 \/ gap[s]

\* _finalize_locked: session_ended, and the revision it makes is the last one.
Finalize(s, incomplete) ==
    /\ state' = [state EXCEPT ![s] = IF incomplete THEN "ended_incomplete" ELSE "ended"]
    /\ Write(s, <<Event("system")>>)

\* A meeting the drain supervisor takes up, one after the other.
Supervised(s) == Open(s) /\ closed[s]

\* One tick of the drain supervisor that ends the session; one that only finds work
\* to wait for changes nothing.
CompleteDrain(s) ==
    /\ Supervised(s)
    /\ Due(s)
    /\ Finalize(s, Incomplete(s))
    /\ UNCHANGED <<closed, deadline, gap, items, jobs, turn, worker, faults, passed>>

-----------------------------------------------------------------------------
(* Claiming a job: the worker's claim_job transaction.                     *)

\* Mutated: a job does not wait for those spoken before it.
PredecessorsDoneBug(s, j) == TRUE

PredecessorsDone(s, j) == \A i \in 1 .. j - 1 : jobs[s][i].state = "completed"

\* Mutated: the claim of a worker that is gone is never taken over.
FreeBug(s, j) == jobs[s][j].state = "pending"

Free(s, j) ==
    \/ jobs[s][j].state = "pending"
    \/ jobs[s][j].state = "processing" /\ jobs[s][j].expired

Claimable(s, j) ==
    /\ state[s] = "open"
    /\ Free(s, j)
    /\ PredecessorsDone(s, j)
    /\ ~RowHeld(s, j)

\* A worker whose claim goes on, and whose time is therefore in the order.
Timed(w) == worker[w].pc \in {"asking", "selecting"}

Clocked == Sessions \cup {w \in Workers : Timed(w)}

\* claim_job takes the time first: by it leases are judged and sessions are marked.
TakeTime(w) ==
    /\ worker[w].pc = "idle"
    /\ worker' = [worker EXCEPT ![w].pc = "asking"]
    /\ before' = before \cup (Clocked \X {w})
    /\ UNCHANGED <<sessionVars, items, stream, jobs, unseen, faults, passed>>

\* The worker's call ends with nothing.
Leaves(w) ==
    /\ worker' = [worker EXCEPT ![w] = Idle]
    /\ before' = {p \in before : w \notin {p[1], p[2]}}
    /\ unseen' = {p \in unseen : p[1] # w}

\* The session has a job for this worker: no lease that ended after its time.
Offers(s, w) ==
    \E j \in Evidence(s) :
        Claimable(s, j) /\ (jobs[s][j].state = "pending" \/ <<w, s>> \notin unseen)

\* No row: the supervisor's thread calls again.
FindNothing(w) ==
    /\ worker[w].pc = "asking"
    /\ \A s \in Sessions : ~Offers(s, w)
    /\ Leaves(w)
    /\ UNCHANGED <<sessionVars, items, stream, jobs, faults, passed>>

\* Mutated: sessions are taken in any order.
FirstBug(s, r) == TRUE

\* ORDER BY last_claim_at NULLS FIRST.
First(s, r) == <<r, s>> \notin before

NextInTurn(w, s) ==
    /\ Offers(s, w)
    /\ \A r \in Sessions : Offers(r, w) => First(s, r)

\* A session another claim may come before: it has a job that nobody has selected and
\* that every worker looking for one would see.
Waits(s) == \A w \in Workers : Offers(s, w)

\* The count of every session while s is selected (n = 0) and when it is claimed
\* (n = 1); that of a session whose job is taken, or that has none, starts anew.
Passing(s, n) == [r \in Sessions |-> IF r # s /\ Waits(r) THEN passed[r] + n ELSE 0]

\* The SELECT: it locks the job row and reads graph_revision without a lock.
SelectJob(w, s, j) ==
    /\ worker[w].pc = "asking"
    /\ Claimable(s, j)
    /\ NextInTurn(w, s)
    /\ worker' = [worker EXCEPT ![w] =
           [Idle EXCEPT !.pc = "selecting", !.session = s, !.job = j,
                        !.attempt = jobs[s][j].attempt + 1, !.start = Revision(s)]]
    /\ unseen' = {p \in unseen : p[1] # w}
    /\ passed' = Passing(s, 0)
    /\ UNCHANGED <<sessionVars, items, stream, jobs, before, faults>>

\* last_claim_at of s becomes the time the worker took: s has its place from now on.
Marked(s, w) ==
    LET At(x) == IF x = s THEN w ELSE x
        clocked == Clocked \ {w}
    IN  {p \in clocked \X clocked : <<At(p[1]), At(p[2])>> \in before}

\* The two UPDATEs: the second waits for the session row.
ClaimJob(w) ==
    LET c == worker[w]
        job == jobs[c.session][c.job] IN
    /\ c.pc = "selecting"
    /\ ~SessionHeld(c.session)
    /\ jobs' = [jobs EXCEPT ![c.session][c.job] =
           [@ EXCEPT !.state = "processing", !.attempt = job.attempt + 1,
                     !.expired = FALSE, !.start = c.start]]
    /\ before' = Marked(c.session, w)
    /\ passed' = Passing(c.session, 1)
    /\ worker' = [worker EXCEPT ![w].pc = "claimed"]
    /\ UNCHANGED <<sessionVars, items, stream, unseen, faults>>

\* PostgreSQL aborts a claim whose job row the holder of the session row wants.
AbortClaim(w) ==
    LET c == worker[w] IN
    /\ c.pc = "selecting"
    /\ \E v \in Workers \ {w} :
           /\ worker[v].session = c.session /\ worker[v].job = c.job
           /\ worker[v].pc # "selecting"
    /\ Leaves(w)
    /\ UNCHANGED <<sessionVars, items, stream, jobs, faults, passed>>

-----------------------------------------------------------------------------
(* The lease.                                                              *)

\* Mutated: any attempt at a job in processing is taken for its owner.
OwnsBug(w) == jobs[worker[w].session][worker[w].job].state = "processing"

Owns(w) ==
    LET job == jobs[worker[w].session][worker[w].job]
    IN job.state = "processing" /\ job.attempt = worker[w].attempt

Working == {"claimed", "analyzing", "analyzed"}

\* The heartbeat thread; it stops before the result is committed.
RenewLease(w) ==
    LET c == worker[w] IN
    /\ c.pc \in {"claimed", "analyzing"} /\ ~c.lost
    /\ ~SessionHeld(c.session)
    /\ IF state[c.session] = "open" /\ Owns(w)
       THEN /\ ~RowHeld(c.session, c.job)
            /\ jobs' = [jobs EXCEPT ![c.session][c.job].expired = FALSE]
            /\ UNCHANGED worker
       ELSE /\ worker' = [worker EXCEPT ![w].lost = TRUE]
            /\ UNCHANGED jobs
    /\ UNCHANGED <<sessionVars, items, stream, turn, faults, passed>>

\* Renewal fails for a reason of its own: the database, or a deadlock it lost.
RenewFails(w) ==
    /\ worker[w].pc \in {"claimed", "analyzing"} /\ ~worker[w].lost
    /\ faults < MaxFaults
    /\ faults' = faults + 1
    /\ worker' = [worker EXCEPT ![w].lost = TRUE]
    /\ UNCHANGED <<sessionVars, items, stream, jobs, turn, passed>>

\* claim_until passes.  The bound on attempts lets it pass for the last attempt only
\* when no worker is at it any more.
LeaseExpires(s, j) ==
    LET job == jobs[s][j] IN
    /\ job.state = "processing" /\ ~job.expired
    /\ \/ job.attempt < MaxAttempts
       \/ \A w \in Workers : <<worker[w].session, worker[w].job>> # <<s, j>>
    /\ jobs' = [jobs EXCEPT ![s][j].expired = TRUE]
    /\ unseen' = unseen \cup ({w \in Workers : worker[w].pc = "asking"} \X {s})
    /\ UNCHANGED <<sessionVars, items, stream, before, worker, faults, passed>>

-----------------------------------------------------------------------------
(* Running a job: process_one and _process_claim.                          *)

\* _replay_locked: the revision the evidence and the events of the session rebuild.
Replayed(s) == Len(stream[s])

\* The worker replays the stream, without a lock, and gives up when the revision is
\* not the one it claimed.
Replay(w) ==
    LET c == worker[w] IN
    /\ c.pc = "claimed"
    /\ worker' = [worker EXCEPT ![w] =
           [c EXCEPT !.pc = IF Replayed(c.session) = c.start THEN "analyzing" ELSE "failing",
                     !.seen = Replayed(c.session)]]
    /\ UNCHANGED <<sessionVars, items, stream, jobs, turn, faults, passed>>

\* The analyzer answers; before_commit stops the heartbeat and looks at it.
Analyze(w) ==
    /\ worker[w].pc = "analyzing"
    /\ worker' = [worker EXCEPT ![w].pc = IF worker[w].lost THEN "failing" ELSE "analyzed"]
    /\ UNCHANGED <<sessionVars, items, stream, jobs, turn, faults, passed>>

AnalyzerError(w) ==
    /\ worker[w].pc = "analyzing"
    /\ faults < MaxFaults
    /\ faults' = faults + 1
    /\ worker' = [worker EXCEPT ![w].pc = "failing"]
    /\ UNCHANGED <<sessionVars, items, stream, jobs, turn, passed>>

\* accept_job_result and fail_job take the session row, and leave when it is closed.
LockSession(w) ==
    LET c == worker[w] IN
    /\ c.pc \in {"analyzed", "failing"}
    /\ ~SessionHeld(c.session)
    /\ worker' = [worker EXCEPT ![w] =
           CASE c.pc = "analyzed" /\ state[c.session] = "open" -> [c EXCEPT !.pc = "accepting"]
             [] c.pc = "analyzed" /\ state[c.session] # "open" -> [c EXCEPT !.pc = "failing"]
             [] c.pc = "failing" /\ state[c.session] = "open" -> [c EXCEPT !.pc = "recording"]
             [] OTHER -> Idle]
    /\ UNCHANGED <<sessionVars, items, stream, jobs, turn, faults, passed>>

\* Mutated: the claim's revision is compared with the job row only.
FreshBug(w) == jobs[worker[w].session][worker[w].job].start = worker[w].start

\* The graph has not moved since the claim.
Fresh(w) ==
    LET c == worker[w]
    IN jobs[c.session][c.job].start = c.start /\ Revision(c.session) = c.start

\* The worker holds the session row and now has the job row.
AtJob(w, pc) ==
    /\ worker[w].pc = pc
    /\ ~RowHeld(worker[w].session, worker[w].job)

AlreadyDone(w) == jobs[worker[w].session][worker[w].job].state = "completed"

Settle(w, result) ==
    jobs' = [jobs EXCEPT ![worker[w].session][worker[w].job] =
        [@ EXCEPT !.state = result, !.expired = FALSE, !.settled = worker[w].attempt]]

\* Events, revision and job completion are one transaction.
AcceptResult(w, n) ==
    LET c == worker[w] IN
    /\ AtJob(w, "accepting")
    /\ ~AlreadyDone(w) /\ Owns(w) /\ Fresh(w)
    /\ Write(c.session, [i \in 1 .. n |-> [by |-> "analyzer", job |-> c.job, seen |-> c.seen]])
    /\ Settle(w, "completed")
    /\ worker' = [worker EXCEPT ![w] = Idle]
    /\ UNCHANGED <<sessionVars, items, turn, faults, passed>>

\* A completed job answers with the stored stream; anything else is an error that
\* process_one reports by failing the job.
RefuseResult(w) ==
    /\ AtJob(w, "accepting")
    /\ AlreadyDone(w) \/ ~(Owns(w) /\ Fresh(w))
    /\ worker' = [worker EXCEPT ![w] = IF AlreadyDone(w) THEN Idle ELSE [@ EXCEPT !.pc = "failing"]]
    /\ UNCHANGED <<sessionVars, items, stream, jobs, turn, faults, passed>>

FailJob(w) ==
    /\ AtJob(w, "recording")
    /\ IF Owns(w) THEN Settle(w, "failed") ELSE UNCHANGED jobs
    /\ worker' = [worker EXCEPT ![w] = Idle]
    /\ UNCHANGED <<sessionVars, items, stream, turn, faults, passed>>

\* PostgreSQL aborts this side of the deadlock: a refused result is reported as a
\* failure, a report that is aborted leaves the job to its lease.
AbortSettle(w) ==
    /\ worker[w].pc \in Holding
    /\ RowHeld(worker[w].session, worker[w].job)
    /\ worker' = [worker EXCEPT ![w] =
           IF @.pc = "accepting" THEN [@ EXCEPT !.pc = "failing"] ELSE Idle]
    /\ UNCHANGED <<sessionVars, items, stream, jobs, turn, faults, passed>>

\* The process dies: its locks go, its claim stays until the lease expires.
Crash(w) ==
    /\ worker[w].pc # "idle"
    /\ faults < MaxFaults
    /\ faults' = faults + 1
    /\ Leaves(w)
    /\ UNCHANGED <<sessionVars, items, stream, jobs, passed>>

\* An operator retries a failed job; nothing in the program calls it.
RetryJob(s, j) ==
    /\ Open(s)
    /\ jobs[s][j].state = "failed" /\ jobs[s][j].attempt < MaxAttempts
    /\ jobs' = [jobs EXCEPT ![s][j].state = "pending"]
    /\ UNCHANGED <<sessionVars, items, stream, turn, worker, faults, passed>>

-----------------------------------------------------------------------------
WorkerStep(w) ==
    \/ TakeTime(w)
    \/ FindNothing(w)
    \/ \E s \in Sessions : \E j \in Evidence(s) : SelectJob(w, s, j)
    \/ ClaimJob(w)
    \/ AbortClaim(w)
    \/ Replay(w)
    \/ Analyze(w)
    \/ LockSession(w)
    \/ \E n \in 0 .. MaxBatch : AcceptResult(w, n)
    \/ RefuseResult(w)
    \/ FailJob(w)
    \/ AbortSettle(w)

SessionStep(s) ==
    \/ TrackItem(s)
    \/ LoseAudio(s)
    \/ AcceptFinal(s)
    \/ AcceptSequencedFinal(s)
    \/ AppendHuman(s)
    \/ RequestFinalizing(s)
    \/ DeadlinePasses(s)
    \/ CompleteDrain(s)
    \/ \E j \in Evidence(s) : LeaseExpires(s, j) \/ RetryJob(s, j)

Fault(w) == AnalyzerError(w) \/ RenewFails(w) \/ Crash(w)

Next ==
    \/ \E w \in Workers : WorkerStep(w) \/ RenewLease(w) \/ Fault(w)
    \/ \E s \in Sessions : SessionStep(s)

Spec == Init /\ [][Next]_vars

\* A worker's supervisor thread calls process_one again and again, a call it is in
\* goes on, deadlocks are detected, and the analyzer answers or times out.  Leases
\* expire by the clock, and so do drain deadlines; the drain supervisor rotates over
\* the sessions.  Nobody is made to speak, to correct or to end a meeting, and
\* nobody retries a failed job.
Fairness ==
    /\ \A w \in Workers : WF_vars(WorkerStep(w))
    /\ \A s \in Sessions :
        /\ WF_vars(DeadlinePasses(s))
        /\ WF_vars(CompleteDrain(s))
        /\ WF_vars(\E j \in Evidence(s) : LeaseExpires(s, j))

FairSpec == Spec /\ Fairness

-----------------------------------------------------------------------------
(* Properties.                                                             *)

JobStates == {"pending", "processing", "completed", "failed"}
Stages == {"idle", "asking", "selecting", "claimed", "analyzing", "analyzed", "failing"} \cup Holding

\* Every variable has its type.
TypeOK ==
    /\ state \in [Sessions -> {"open", "ended", "ended_incomplete"}]
    /\ closed \in [Sessions -> BOOLEAN]
    /\ deadline \in [Sessions -> BOOLEAN]
    /\ gap \in [Sessions -> BOOLEAN]
    /\ items \in [Sessions -> 0 .. MaxEvidence]
    /\ stream \in [Sessions -> Seq([by : {"human", "system", "analyzer"}, job : Nat, seen : Nat])]
    /\ jobs \in [Sessions -> Seq([state : JobStates, attempt : Nat, expired : BOOLEAN,
                                  start : Nat, settled : Nat])]
    /\ before \subseteq (Sessions \cup Workers) \X (Sessions \cup Workers)
    /\ unseen \subseteq Workers \X Sessions
    /\ worker \in [Workers -> [pc : Stages, session : Sessions \cup {None}, job : Nat,
                               attempt : Nat, start : Nat, seen : Nat, lost : BOOLEAN]]
    /\ faults \in 0 .. MaxFaults
    /\ passed \in [Sessions -> Nat]

\* What an analysis adds to the stream follows directly on the graph it was made
\* from: no correction, no other job and no session event lies between, whatever
\* was read before which lock.
BatchOnItsBasis ==
    \A s \in Sessions : \A i \in DOMAIN stream[s] :
        LET event == stream[s][i]
        IN event.by = "analyzer" =>
               \A k \in event.seen + 1 .. i :
                   stream[s][k].by = "analyzer" /\ stream[s][k].job = event.job

\* Only the attempt that claimed a job last completes it or fails it: a worker whose
\* lease was taken over changes nothing.
FencedSettlement ==
    \A s \in Sessions : \A j \in Evidence(s) :
        LET job == jobs[s][j]
        IN job.state \in {"completed", "failed"} => job.settled = job.attempt

\* Two workers never hold the same attempt of a job, so that a fence by the attempt
\* number tells them apart.
OneHolderPerAttempt ==
    \A v, w \in Workers :
        v # w /\ worker[v].session # None =>
            <<worker[v].session, worker[v].job, worker[v].attempt>>
                # <<worker[w].session, worker[w].job, worker[w].attempt>>

\* A job has one holder at a time, and only the last one's answer counts.
JobsInv ==
    /\ TypeOK
    /\ OneHolderPerAttempt
    /\ FencedSettlement

\* While a session waits with a job that nobody has selected, the others are claimed no
\* more often than there are other sessions and other workers: whoever is claimed goes
\* to the time its claim took, and only a claim that was slow comes before it again.
NoSessionPassedOver ==
    \A s \in Sessions :
        passed[s] <= Cardinality(Sessions) + Cardinality(Workers) - 2

\* What MeetingRecord sees of the service.
Author(event) == [by |-> event.by, job |-> event.job]

Heard == [s \in Sessions |-> Len(jobs[s])]
Missing == [s \in Sessions |-> gap[s] \/ items[s] > 0]
Analysed == [s \in Sessions |-> {j \in Evidence(s) : jobs[s][j].state = "completed"}]
Authors == [s \in Sessions |-> [i \in DOMAIN stream[s] |-> Author(stream[s][i])]]

Record == INSTANCE MeetingRecord WITH
    heard <- Heard, missing <- Missing, analysed <- Analysed, authors <- Authors, outcome <- state

\* The service keeps what MeetingRecord promises.
KeepsRecord == Record!Spec

JobIs(s, j, states) == j \in Evidence(s) /\ jobs[s][j].state \in states

\* A meeting whose intake was closed ends: by draining or by its deadline.
DrainEnds == \A s \in Sessions : closed[s] ~> state[s] # "open"

\* The next job of an open session is completed or failed, also when the worker
\* that claimed it died or a deadlock aborted it.
NextJobSettles ==
    \A s \in Sessions, j \in 1 .. MaxEvidence :
        (j \in Evidence(s) /\ PredecessorsDone(s, j)) ~>
            (state[s] # "open" \/ JobIs(s, j, {"completed", "failed"}))

-----------------------------------------------------------------------------
(* What documents of the repository say and the code does not keep.        *)

\* migrations/0002_final_intake_fence.sql: jobs accepted before the fence of
\* session_finalizing can still drain.
AcceptedJobsDrain ==
    \A s \in Sessions, j \in 1 .. MaxEvidence :
        (closed[s] /\ j \in Evidence(s)) ~> JobIs(s, j, {"completed"})
=============================================================================
