------------------------- MODULE ServiceJobsProofs -------------------------
(***************************************************************************)
(* The safety properties of the durable analyzer jobs, for every set of    *)
(* meetings and workers, every bound, and both stores: their inductive     *)
(* invariant, the steps that preserve it, and the refinement of            *)
(* MeetingRecord.                                                          *)
(***************************************************************************)
EXTENDS ContractStore, TLAPS, FiniteSetTheorems, SequenceTheorems

Row == [state : JobStates, attempt : Nat, expired : BOOLEAN, start : Nat, settled : Nat]
Claims == [pc : Stages, session : Sessions \cup {None}, job : Nat,
           attempt : Nat, start : Nat, seen : Nat, lost : BOOLEAN]
Events == [by : {"human", "system", "analyzer"}, job : Nat, seen : Nat]

\* A worker between two claims: it sleeps, or looks for a job.
Unclaimed == {"idle", "asking"}

\* A claim is of a job that waits for no other.  Until the row is written the claim is
\* ahead of it, and no one else may settle it; afterwards the row may only move ahead.
\* What is analysed is what was claimed, and a held session is open.
ClaimOf(c) ==
    /\ c.pc \in Unclaimed => c.session = None
    /\ c.pc \notin Unclaimed =>
        /\ c.session \in Sessions /\ c.job \in Evidence(c.session)
        /\ PredecessorsDone(c.session, c.job)
        /\ c.pc = "selecting" =>
               /\ c.attempt = jobs[c.session][c.job].attempt + 1
               /\ jobs[c.session][c.job].state \in {"pending", "processing"}
        /\ c.pc # "selecting" => c.attempt <= jobs[c.session][c.job].attempt
        /\ c.pc \in {"analyzing", "analyzed", "accepting"} => c.seen = c.start
        /\ c.pc \in Holding => state[c.session] = "open"

Claimed == \A w \in Workers : ClaimOf(worker[w])

TurnsTyped ==
    /\ before \subseteq (Sessions \cup Workers) \X (Sessions \cup Workers)
    /\ unseen \subseteq Workers \X Sessions

StoreInv == JobsInv /\ Claimed /\ BatchOnItsBasis

\* The SQLite store holds no row lock between two steps.
NoLockWaits == \A w \in Workers : worker[w].pc \notin {"selecting"} \cup Holding

-----------------------------------------------------------------------------
(* One row of the jobs, one worker.                                        *)

\* Row j of s is written anew.
Rewrites(s, j, r) == jobs' = [jobs EXCEPT ![s][j] = r]

LEMMA OneRow ==
    ASSUME TypeOK, NEW s \in Sessions, NEW j \in Evidence(s), NEW r \in Row,
           Rewrites(s, j, r)
    PROVE  /\ jobs' \in [Sessions -> Seq(Row)]
           /\ \A t \in Sessions : Len(jobs'[t]) = Len(jobs[t]) /\ Evidence(t)' = Evidence(t)
           /\ jobs'[s][j] = r
           /\ \A t \in Sessions : \A i \in Evidence(t) :
                  <<t, i>> # <<s, j>> => jobs'[t][i] = jobs[t][i]
<1>1. jobs \in [Sessions -> Seq(Row)]
    BY DEF TypeOK, Row
<1>2. jobs[s] \in Seq(Row) /\ j \in 1 .. Len(jobs[s])
    BY <1>1 DEF Evidence
<1>3. [jobs[s] EXCEPT ![j] = r] \in Seq(Row) /\ Len([jobs[s] EXCEPT ![j] = r]) = Len(jobs[s])
    BY <1>2
<1>4. jobs' = [jobs EXCEPT ![s] = [jobs[s] EXCEPT ![j] = r]]
    BY <1>1 DEF Rewrites
<1> QED BY <1>1, <1>2, <1>3, <1>4 DEF Evidence

LEMMA RowAdded ==
    ASSUME TypeOK, NEW s \in Sessions, jobs' = [jobs EXCEPT ![s] = Append(@, NewJob)]
    PROVE  /\ jobs' \in [Sessions -> Seq(Row)]
           /\ Evidence(s)' = Evidence(s) \cup {Len(jobs[s]) + 1}
           /\ Len(jobs'[s]) = Len(jobs[s]) + 1
           /\ jobs'[s][Len(jobs[s]) + 1] = NewJob
           /\ \A t \in Sessions : t # s => jobs'[t] = jobs[t]
           /\ \A t \in Sessions : \A i \in Evidence(t) :
                  i \in Evidence(t)' /\ jobs'[t][i] = jobs[t][i]
<1>1. jobs \in [Sessions -> Seq(Row)]
    BY DEF TypeOK, Row
<1>2. NewJob \in Row
    BY DEF NewJob, Row, JobStates
<1>3. jobs[s] \in Seq(Row)
    BY <1>1
<1>4. /\ Append(jobs[s], NewJob) \in Seq(Row)
      /\ Len(Append(jobs[s], NewJob)) = Len(jobs[s]) + 1
      /\ \A i \in 1 .. Len(jobs[s]) : Append(jobs[s], NewJob)[i] = jobs[s][i]
      /\ Append(jobs[s], NewJob)[Len(jobs[s]) + 1] = NewJob
    BY <1>2, <1>3
<1> QED BY <1>1, <1>3, <1>4 DEF Evidence

\* What the type invariant says of a session's rows, of a worker and of a stream.
LEMMA Types ==
    ASSUME TypeOK
    PROVE  /\ jobs \in [Sessions -> Seq(Row)] /\ worker \in [Workers -> Claims]
           /\ stream \in [Sessions -> Seq(Events)]
           /\ \A s \in Sessions : \A j \in Evidence(s) :
                  jobs[s][j] \in Row /\ j \in 1 .. Len(jobs[s]) /\ j \in Nat \ {0}
           /\ \A s \in Sessions : Len(stream[s]) \in Nat
<1>1. jobs \in [Sessions -> Seq(Row)] /\ worker \in [Workers -> Claims]
      /\ stream \in [Sessions -> Seq(Events)]
    BY DEF TypeOK, Row, Claims, Events
<1>2. ASSUME NEW s \in Sessions, NEW j \in Evidence(s)
      PROVE  jobs[s][j] \in Row /\ j \in 1 .. Len(jobs[s]) /\ j \in Nat \ {0}
    <2>1. jobs[s] \in Seq(Row)
        BY <1>1
    <2> QED BY <2>1 DEF Evidence
<1> QED BY <1>1, <1>2

\* The rows another worker looks at moved only ahead, so its claim is still what it was.
LEMMA OthersClaim ==
    ASSUME TypeOK, NEW c \in Claims, ClaimOf(c),
           \A t \in Sessions : \A i \in Evidence(t) :
               /\ i \in Evidence(t)'
               /\ jobs[t][i].state = "completed" => jobs'[t][i].state = "completed"
               /\ jobs[t][i].attempt <= jobs'[t][i].attempt
               /\ jobs[t][i].attempt \in Nat /\ jobs'[t][i].attempt \in Nat,
           c.pc = "selecting" =>
               /\ jobs'[c.session][c.job].attempt = jobs[c.session][c.job].attempt
               /\ jobs'[c.session][c.job].state \in {"pending", "processing"},
           c.pc \in Holding => state'[c.session] = "open"
    PROVE  ClaimOf(c)'
<1> SUFFICES ASSUME c.pc \notin Unclaimed PROVE ClaimOf(c)'
    BY DEF ClaimOf
<1>1. c.session \in Sessions /\ c.job \in Evidence(c.session) /\ c.attempt \in Nat
    BY DEF ClaimOf, Claims
<1>2. 1 .. c.job - 1 \subseteq Evidence(c.session)
    <2>1. jobs[c.session] \in Seq(Row)
        BY <1>1, Types
    <2>2. Len(jobs[c.session]) \in Nat
        BY <2>1
    <2>3. Evidence(c.session) = 1 .. Len(jobs[c.session])
        BY <1>1, <2>1 DEF Evidence
    <2> QED BY <1>1, <2>2, <2>3
<1>3. PredecessorsDone(c.session, c.job)'
    BY <1>1, <1>2 DEF PredecessorsDone, ClaimOf
<1> QED BY <1>1, <1>3 DEF ClaimOf

\* A row that is written anew by whoever may: its holders and its fence.
LEMMA RowStep ==
    ASSUME TypeOK, FencedSettlement,
           NEW s \in Sessions, NEW j \in Evidence(s), NEW r \in Row,
           Rewrites(s, j, r), UNCHANGED state,
           jobs[s][j].attempt <= r.attempt,
           jobs[s][j].state = "completed" => r.state = "completed",
           r.state \in {"completed", "failed"} => r.settled = r.attempt
    PROVE  /\ jobs' \in [Sessions -> Seq(Row)]
           /\ \A t \in Sessions : Len(jobs'[t]) = Len(jobs[t]) /\ Evidence(t)' = Evidence(t)
           /\ jobs'[s][j] = r
           /\ \A t \in Sessions : \A i \in Evidence(t) :
                  <<t, i>> # <<s, j>> => jobs'[t][i] = jobs[t][i]
           /\ FencedSettlement'
           /\ \A c \in Claims :
                  /\ ClaimOf(c)
                  /\ c.pc = "selecting" /\ <<c.session, c.job>> = <<s, j>> =>
                         r.attempt = jobs[s][j].attempt /\ r.state \in {"pending", "processing"}
                  => ClaimOf(c)'
<1>1. /\ jobs' \in [Sessions -> Seq(Row)]
      /\ \A t \in Sessions : Len(jobs'[t]) = Len(jobs[t]) /\ Evidence(t)' = Evidence(t)
      /\ jobs'[s][j] = r
      /\ \A t \in Sessions : \A i \in Evidence(t) :
             <<t, i>> # <<s, j>> => jobs'[t][i] = jobs[t][i]
    BY OneRow
<1>2. \A t \in Sessions : \A i \in Evidence(t) : jobs[t][i] \in Row
    BY Types
<1>3. FencedSettlement'
    BY <1>1 DEF FencedSettlement
<1>4. ASSUME NEW c \in Claims, ClaimOf(c),
             c.pc = "selecting" /\ <<c.session, c.job>> = <<s, j>> =>
                 r.attempt = jobs[s][j].attempt /\ r.state \in {"pending", "processing"}
      PROVE  ClaimOf(c)'
    <2>1. \A t \in Sessions : \A i \in Evidence(t) :
              /\ i \in Evidence(t)'
              /\ jobs[t][i].state = "completed" => jobs'[t][i].state = "completed"
              /\ jobs[t][i].attempt <= jobs'[t][i].attempt
              /\ jobs[t][i].attempt \in Nat /\ jobs'[t][i].attempt \in Nat
        <3> SUFFICES ASSUME NEW t \in Sessions, NEW i \in Evidence(t)
                     PROVE  /\ jobs[t][i].state = "completed" => jobs'[t][i].state = "completed"
                            /\ jobs[t][i].attempt <= jobs'[t][i].attempt
                            /\ jobs[t][i].attempt \in Nat /\ jobs'[t][i].attempt \in Nat
            BY <1>1
        <3>1. jobs[t][i].attempt \in Nat /\ r.attempt \in Nat
            BY <1>2 DEF Row
        <3> QED BY <1>1, <3>1
    <2>2. c.pc = "selecting" =>
              /\ jobs'[c.session][c.job].attempt = jobs[c.session][c.job].attempt
              /\ jobs'[c.session][c.job].state \in {"pending", "processing"}
        <3> SUFFICES ASSUME c.pc = "selecting" PROVE
              /\ jobs'[c.session][c.job].attempt = jobs[c.session][c.job].attempt
              /\ jobs'[c.session][c.job].state \in {"pending", "processing"}
            OBVIOUS
        <3>1. c.session \in Sessions /\ c.job \in Evidence(c.session)
              /\ jobs[c.session][c.job].state \in {"pending", "processing"}
            BY <1>4 DEF Unclaimed, ClaimOf
        <3> QED BY <1>1, <1>4, <3>1
    <2>3. c.pc \in Holding => state'[c.session] = "open"
        BY <1>4 DEF Unclaimed, ClaimOf, Holding
    <2>4. ClaimOf(c)
        BY <1>4
    <2> QED BY <2>1, <2>2, <2>3, <2>4, OthersClaim DEF Claims
<1> QED BY <1>1, <1>3, <1>4

\* A worker that goes on with its claim, or gives it up, shares it with nobody.
LEMMA HoldersKept ==
    ASSUME TypeOK, OneHolderPerAttempt, Claimed, NEW w \in Workers, NEW d \in Claims,
           worker' = [worker EXCEPT ![w] = d],
           d.session = None \/ /\ d.session = worker[w].session
                               /\ d.job = worker[w].job /\ d.attempt = worker[w].attempt
    PROVE  OneHolderPerAttempt'
<1>1. worker \in [Workers -> Claims]
    BY Types
<1>2. worker'[w] = d /\ \A v \in Workers \ {w} : worker'[v] = worker[v]
    BY <1>1
<1> SUFFICES ASSUME NEW u \in Workers, NEW v \in Workers, u # v, worker'[u].session # None
             PROVE  <<worker'[u].session, worker'[u].job, worker'[u].attempt>>
                        # <<worker'[v].session, worker'[v].job, worker'[v].attempt>>
    BY DEF OneHolderPerAttempt
<1>3. CASE d.session = None
    <2>1. u # w
        BY <1>2, <1>3
    <2>2. worker'[u] = worker[u] /\ worker[u].session # None
        BY <1>2, <2>1
    <2>3. CASE v = w
        BY <1>2, <1>3, <2>2, <2>3
    <2>4. CASE v # w
        BY <1>2, <2>2, <2>4 DEF OneHolderPerAttempt
    <2> QED BY <2>3, <2>4
<1>4. CASE d.session # None
    BY <1>2, <1>4 DEF OneHolderPerAttempt
<1> QED BY <1>3, <1>4

-----------------------------------------------------------------------------
(* The stream.                                                             *)

LEMMA Written ==
    ASSUME TypeOK, NEW s \in Sessions, NEW es \in Seq(Events), Write(s, es)
    PROVE  /\ stream' \in [Sessions -> Seq(Events)]
           /\ \A t \in Sessions : t # s => stream'[t] = stream[t]
           /\ stream'[s] = stream[s] \o es
           /\ Len(stream'[s]) = Len(stream[s]) + Len(es)
           /\ \A i \in 1 .. Len(stream[s]) : stream'[s][i] = stream[s][i]
           /\ \A i \in 1 .. Len(es) : stream'[s][Len(stream[s]) + i] = es[i]
<1>1. stream \in [Sessions -> Seq(Events)] /\ stream[s] \in Seq(Events)
    BY Types
<1>2. stream' = [stream EXCEPT ![s] = stream[s] \o es]
    BY DEF Write
<1>3. /\ stream[s] \o es \in Seq(Events)
      /\ Len(stream[s] \o es) = Len(stream[s]) + Len(es)
      /\ \A i \in 1 .. Len(stream[s]) : (stream[s] \o es)[i] = stream[s][i]
      /\ \A i \in 1 .. Len(es) : (stream[s] \o es)[Len(stream[s]) + i] = es[i]
    BY <1>1
<1> QED BY <1>1, <1>2, <1>3

\* A batch that is written keeps the order of what is known: its events are of one job and
\* were made from the stream they follow on.
LEMMA BatchKept ==
    ASSUME TypeOK, BatchOnItsBasis, NEW s \in Sessions, NEW es \in Seq(Events), Write(s, es),
           \A i \in 1 .. Len(es) : es[i].by = "analyzer" =>
               /\ es[i].seen = Len(stream[s])
               /\ \A k \in 1 .. Len(es) : es[k].by = "analyzer" /\ es[k].job = es[i].job
    PROVE  BatchOnItsBasis'
<1> DEFINE n == Len(stream[s])
<1>0. \A i \in 1 .. Len(es) : es[i].by = "analyzer" =>
          /\ es[i].seen = n
          /\ \A k \in 1 .. Len(es) : es[k].by = "analyzer" /\ es[k].job = es[i].job
    OBVIOUS
<1>1. /\ \A t \in Sessions : t # s => stream'[t] = stream[t]
      /\ Len(stream'[s]) = n + Len(es)
      /\ \A i \in 1 .. n : stream'[s][i] = stream[s][i]
      /\ \A i \in 1 .. Len(es) : stream'[s][n + i] = es[i]
      /\ stream' \in [Sessions -> Seq(Events)]
    BY Written DEF Events
<1>2. n \in Nat /\ Len(es) \in Nat /\ stream[s] \in Seq(Events) /\ DOMAIN stream[s] = 1 .. n
    BY Types
<1> HIDE DEF n
<1> SUFFICES ASSUME NEW t \in Sessions, NEW i \in DOMAIN stream'[t],
                    stream'[t][i].by = "analyzer",
                    NEW k \in stream'[t][i].seen + 1 .. i
             PROVE  stream'[t][k].by = "analyzer" /\ stream'[t][k].job = stream'[t][i].job
    BY DEF BatchOnItsBasis
<1>6. i \in Nat
    BY <1>1
<1>3. CASE t # s
    <2>1. i \in DOMAIN stream[t] /\ stream[t][i].by = "analyzer"
          /\ k \in stream[t][i].seen + 1 .. i
        BY <1>1, <1>3
    <2> QED BY <1>1, <1>3, <2>1 DEF BatchOnItsBasis
<1>4. CASE t = s /\ i <= n
    <2>1. i \in 1 .. n /\ i \in DOMAIN stream[s] /\ stream'[s][i] = stream[s][i]
        BY <1>1, <1>2, <1>4, <1>6
    <2>2. stream[s][i].seen \in Nat
        <3>1. stream[s][i] \in Events
            BY <1>2, <2>1
        <3> QED BY <3>1 DEF Events
    <2>3. k \in 1 .. n /\ stream'[s][k] = stream[s][k]
        BY <1>1, <1>2, <1>4, <2>1, <2>2
    <2>4. stream[s][k].by = "analyzer" /\ stream[s][k].job = stream[s][i].job
        BY <1>4, <2>1 DEF BatchOnItsBasis
    <2> QED BY <1>4, <2>1, <2>3, <2>4
<1>5. CASE t = s /\ i > n
    <2>1. i - n \in 1 .. Len(es) /\ stream'[s][i] = es[i - n]
        <3>1. i \in 1 .. n + Len(es)
            BY <1>1, <1>2, <1>5, <1>6
        <3>2. i - n \in 1 .. Len(es) /\ n + (i - n) = i
            BY <1>2, <1>5, <1>6, <3>1
        <3> QED BY <1>1, <3>2
    <2>2. stream'[s][i].seen = n
        BY <1>0, <1>5, <2>1
    <2>3. k - n \in 1 .. Len(es) /\ n + (k - n) = k
        <3>1. k \in n + 1 .. i
            BY <1>5, <2>2
        <3> QED BY <1>2, <1>6, <2>1, <3>1
    <2>4. stream'[s][k] = es[k - n]
        BY <1>1, <2>3
    <2> QED BY <1>0, <1>5, <2>1, <2>3, <2>4
<1> QED BY <1>2, <1>3, <1>4, <1>5, <1>6

LEMMA OneEvent ==
    ASSUME TypeOK, BatchOnItsBasis, NEW s \in Sessions, NEW by \in {"human", "system"},
           Write(s, <<Event(by)>>)
    PROVE  BatchOnItsBasis' /\ stream' \in [Sessions -> Seq(Events)]
<1> DEFINE es == <<Event(by)>>
<1>1. es \in Seq(Events) /\ Len(es) = 1 /\ es[1].by # "analyzer"
    BY DEF Event, Events
<1>2. Write(s, es)
    OBVIOUS
<1>3. \A i \in 1 .. Len(es) : es[i].by # "analyzer"
    BY <1>1
<1> HIDE DEF es
<1> QED BY <1>1, <1>2, <1>3, BatchKept, Written DEF Events

-----------------------------------------------------------------------------
(* Steps of the meeting.                                                   *)

\* What is said, corrected and ended leaves jobs and workers alone; a held session stays
\* open.
LEMMA MeetingStep ==
    ASSUME StoreInv, UNCHANGED <<jobs, worker>>,
           \A s \in Sessions : SessionHeld(s) => state'[s] = state[s],
           TypeOK', BatchOnItsBasis'
    PROVE  StoreInv'
<1>1. TypeOK /\ OneHolderPerAttempt /\ FencedSettlement /\ Claimed
    BY DEF StoreInv, JobsInv
<1>2. OneHolderPerAttempt' /\ FencedSettlement'
    BY <1>1 DEF OneHolderPerAttempt, FencedSettlement, Evidence
<1>3. ASSUME NEW w \in Workers PROVE ClaimOf(worker[w])'
    <2>1. ClaimOf(worker[w])
        BY <1>1 DEF Claimed
    <2>2. worker[w].pc \in Holding => state'[worker[w].session] = "open"
        BY <2>1 DEF Unclaimed, ClaimOf, SessionHeld, Holding
    <2> QED BY <2>1, <2>2 DEF ClaimOf, PredecessorsDone, Evidence
<1> QED BY <1>2, <1>3 DEF StoreInv, JobsInv, Claimed

LEMMA HearStep ==
    ASSUME StoreInv, NEW s \in Sessions, jobs' = [jobs EXCEPT ![s] = Append(@, NewJob)],
           items' \in [Sessions -> 0 .. MaxEvidence],
           UNCHANGED <<sessionVars, stream, turn, worker, faults, passed>>
    PROVE  StoreInv'
<1>1. TypeOK /\ OneHolderPerAttempt /\ FencedSettlement /\ Claimed /\ BatchOnItsBasis
    BY DEF StoreInv, JobsInv
<1>2. /\ jobs' \in [Sessions -> Seq(Row)]
      /\ Evidence(s)' = Evidence(s) \cup {Len(jobs[s]) + 1}
      /\ jobs'[s][Len(jobs[s]) + 1] = NewJob
      /\ \A t \in Sessions : t # s => jobs'[t] = jobs[t]
      /\ \A t \in Sessions : \A i \in Evidence(t) :
             i \in Evidence(t)' /\ jobs'[t][i] = jobs[t][i]
    BY <1>1, RowAdded
<1>3. TypeOK'
    BY <1>1, <1>2 DEF TypeOK, Row, turn, sessionVars
<1>4. FencedSettlement'
    BY <1>1, <1>2 DEF FencedSettlement, NewJob, Evidence
<1>5. OneHolderPerAttempt' /\ BatchOnItsBasis'
    BY <1>1 DEF OneHolderPerAttempt, BatchOnItsBasis
<1>6. ASSUME NEW w \in Workers PROVE ClaimOf(worker[w])'
    <2>1. ClaimOf(worker[w]) /\ worker[w] \in Claims
        BY <1>1, Types DEF Claimed
    <2>2. \A t \in Sessions : \A i \in Evidence(t) : jobs[t][i].attempt \in Nat
        BY <1>1, Types DEF Row
    <2>3. ClaimOf(worker[w]) /\ worker[w].pc \notin Unclaimed =>
              worker[w].session \in Sessions /\ worker[w].job \in Evidence(worker[w].session)
        BY DEF ClaimOf
    <2>4. \A t \in Sessions : \A i \in Evidence(t) :
              /\ i \in Evidence(t)'
              /\ jobs[t][i].state = "completed" => jobs'[t][i].state = "completed"
              /\ jobs[t][i].attempt <= jobs'[t][i].attempt
              /\ jobs[t][i].attempt \in Nat /\ jobs'[t][i].attempt \in Nat
        <3> TAKE t \in Sessions
        <3> TAKE i \in Evidence(t)
        <3>1. jobs[t][i].attempt \in Nat /\ jobs'[t][i] = jobs[t][i] /\ i \in Evidence(t)'
            BY <1>2, <2>2
        <3>2. jobs[t][i].attempt <= jobs[t][i].attempt
            BY <3>1
        <3> QED BY <3>1, <3>2
    <2>5. worker[w].pc = "selecting" =>
              /\ jobs'[worker[w].session][worker[w].job].attempt
                     = jobs[worker[w].session][worker[w].job].attempt
              /\ jobs'[worker[w].session][worker[w].job].state \in {"pending", "processing"}
        BY <1>2, <2>1, <2>3 DEF Unclaimed, ClaimOf
    <2>6. worker[w].pc \in Holding => state'[worker[w].session] = "open"
        BY <2>1 DEF Unclaimed, ClaimOf, Holding, sessionVars
    <2>7. ASSUME NEW c \in Claims, c = worker[w] PROVE ClaimOf(c)'
        BY <1>1, <2>1, <2>4, <2>5, <2>6, <2>7, OthersClaim
    <2> QED BY <2>1, <2>7
<1> QED BY <1>3, <1>4, <1>5, <1>6 DEF StoreInv, JobsInv, Claimed

LEMMA NothingHeld ==
    ASSUME NoLockWaits
    PROVE  \A s \in Sessions : ~SessionHeld(s) /\ \A j : ~RowHeld(s, j)
BY DEF NoLockWaits, SessionHeld, RowHeld, Holding

LEMMA MeetingSteps ==
    ASSUME StoreInv, NEW s \in Sessions,
           \/ TrackItem(s) \/ LoseAudio(s) \/ AudioIsLost(s)
           \/ AppendHuman(s) \/ RequestFinalizing(s)
           \/ \E by \in {"human", "system"} : AppendEvents(s, by)
           \/ DeadlinePasses(s) \/ CompleteDrain(s)
           \/ NoLockWaits /\ FinalizeSession(s, Incomplete(s))
    PROVE  StoreInv'
<1>1. TypeOK /\ BatchOnItsBasis
    BY DEF StoreInv, JobsInv
<1>2. CASE TrackItem(s)
    <2>1. items'[s] \in 0 .. MaxEvidence
        <3>1. items[s] \in 0 .. MaxEvidence /\ Len(jobs[s]) \in Nat
            BY <1>1, Types DEF TypeOK
        <3> QED BY <1>1, <1>2, <3>1, JobsAssumption DEF TrackItem, TypeOK
    <2>2. TypeOK'
        BY <1>1, <1>2, <2>1 DEF TrackItem, TypeOK, sessionVars, turn
    <2>3. BatchOnItsBasis'
        BY <1>1, <1>2 DEF TrackItem, BatchOnItsBasis
    <2> QED BY <1>2, <2>2, <2>3, MeetingStep DEF TrackItem, sessionVars
<1>3. CASE LoseAudio(s) \/ AudioIsLost(s)
    <2>1. TypeOK'
        BY <1>1, <1>3 DEF LoseAudio, AudioIsLost, TypeOK, turn
    <2>2. BatchOnItsBasis'
        BY <1>1, <1>3 DEF LoseAudio, AudioIsLost, BatchOnItsBasis
    <2> QED BY <1>3, <2>1, <2>2, MeetingStep DEF LoseAudio, AudioIsLost
<1>4. CASE DeadlinePasses(s)
    <2>1. TypeOK'
        BY <1>1, <1>4 DEF DeadlinePasses, TypeOK, turn
    <2>2. BatchOnItsBasis'
        BY <1>1, <1>4 DEF DeadlinePasses, BatchOnItsBasis
    <2> QED BY <1>4, <2>1, <2>2, MeetingStep DEF DeadlinePasses
<1>5. CASE AppendHuman(s)
    <2>1. BatchOnItsBasis' /\ stream' \in [Sessions -> Seq(Events)]
        BY <1>1, <1>5, OneEvent DEF AppendHuman
    <2>2. TypeOK'
        BY <1>1, <1>5, <2>1 DEF AppendHuman, TypeOK, Events, sessionVars, turn
    <2> QED BY <1>5, <2>1, <2>2, MeetingStep DEF AppendHuman, sessionVars
<1>6. CASE RequestFinalizing(s)
    <2>1. BatchOnItsBasis' /\ stream' \in [Sessions -> Seq(Events)]
        BY <1>1, <1>6, OneEvent DEF RequestFinalizing
    <2>2. TypeOK'
        BY <1>1, <1>6, <2>1 DEF RequestFinalizing, TypeOK, Events, turn
    <2> QED BY <1>6, <2>1, <2>2, MeetingStep DEF RequestFinalizing
<1>7. ASSUME NEW by \in {"human", "system"}, AppendEvents(s, by) PROVE StoreInv'
    <2>1. BatchOnItsBasis' /\ stream' \in [Sessions -> Seq(Events)]
        BY <1>1, <1>7, OneEvent DEF AppendEvents, AppendLocked
    <2>2. closed' \in [Sessions -> BOOLEAN]
        BY <1>1, <1>7 DEF AppendEvents, AppendLocked, TypeOK
    <2>3. TypeOK'
        BY <1>1, <1>7, <2>1, <2>2 DEF AppendEvents, AppendLocked, TypeOK, Events, turn
    <2> QED BY <1>7, <2>1, <2>3, MeetingStep DEF AppendEvents
<1>8. ASSUME Finalize(s, Incomplete(s)), ~SessionHeld(s),
             UNCHANGED <<closed, deadline, gap, items, jobs, turn, worker, faults, passed>>
      PROVE  StoreInv'
    <2>1. BatchOnItsBasis' /\ stream' \in [Sessions -> Seq(Events)]
        BY <1>1, <1>8, OneEvent DEF Finalize
    <2>2. state' \in [Sessions -> {"open", "ended", "ended_incomplete"}]
        BY <1>1, <1>8 DEF Finalize, TypeOK
    <2>3. TypeOK'
        BY <1>1, <1>8, <2>1, <2>2 DEF TypeOK, Events, turn
    <2>4. \A r \in Sessions : r # s => state'[r] = state[r]
        BY <1>1, <1>8 DEF Finalize, TypeOK
    <2> QED BY <1>8, <2>1, <2>3, <2>4, MeetingStep
<1>9. CASE CompleteDrain(s)
    BY <1>8, <1>9 DEF CompleteDrain, Supervised, Open
<1>10. CASE NoLockWaits /\ FinalizeSession(s, Incomplete(s))
    BY <1>8, <1>10, NothingHeld DEF FinalizeSession
<1> QED BY <1>2, <1>3, <1>4, <1>5, <1>6, <1>7, <1>9, <1>10

LEMMA HearSteps ==
    ASSUME StoreInv, NEW s \in Sessions,
           AcceptFinal(s) \/ AcceptSequencedFinal(s) \/ AcceptNextFinal(s)
    PROVE  StoreInv'
<1>1. items \in [Sessions -> 0 .. MaxEvidence] /\ MaxEvidence \in Nat
    BY JobsAssumption DEF StoreInv, JobsInv, TypeOK
<1>2. items' \in [Sessions -> 0 .. MaxEvidence]
    BY <1>1 DEF AcceptFinal, AcceptSequencedFinal, AcceptNextFinal, Awaited
<1>3. CASE AcceptFinal(s)
    BY <1>2, <1>3, HearStep DEF AcceptFinal
<1>4. CASE AcceptSequencedFinal(s) \/ AcceptNextFinal(s)
    BY <1>2, <1>4, HearStep DEF AcceptSequencedFinal, AcceptNextFinal
<1> QED BY <1>3, <1>4

-----------------------------------------------------------------------------
(* Steps of a worker.                                                      *)

\* Between its claim and its answer a worker writes nothing: it goes on with what it
\* claimed, or gives it up.
LEMMA WorkerMoves ==
    ASSUME StoreInv, NEW w \in Workers, NEW d \in Claims, faults' \in 0 .. MaxFaults,
           worker' = [worker EXCEPT ![w] = d],
           TurnsTyped', UNCHANGED <<sessionVars, items, stream, jobs, passed>>,
           \/ d.pc \in Unclaimed /\ d.session = None
           \/  /\ worker[w].pc \notin Unclaimed \cup {"selecting"}
               /\ d.pc \notin Unclaimed \cup {"selecting"}
               /\ d.session = worker[w].session /\ d.job = worker[w].job
               /\ d.attempt = worker[w].attempt /\ d.start = worker[w].start
               /\ d.pc \in {"analyzing", "analyzed", "accepting"} => d.seen = d.start
               /\ d.pc \in Holding => state[d.session] = "open"
    PROVE  StoreInv'
<1>1. TypeOK /\ OneHolderPerAttempt /\ FencedSettlement /\ Claimed /\ BatchOnItsBasis
    BY DEF StoreInv, JobsInv
<1>2. worker \in [Workers -> Claims]
    BY <1>1, Types
<1>3. worker'[w] = d /\ \A v \in Workers \ {w} : worker'[v] = worker[v]
    BY <1>2
<1>4. TypeOK'
    BY <1>1, <1>2 DEF TypeOK, TurnsTyped, Claims, sessionVars
<1>5. OneHolderPerAttempt'
    BY <1>1, HoldersKept DEF Claims
<1>6. FencedSettlement' /\ BatchOnItsBasis'
    BY <1>1 DEF FencedSettlement, BatchOnItsBasis, Evidence
<1>7. ASSUME NEW v \in Workers PROVE ClaimOf(worker'[v])
    <2>1. CASE v # w
        BY <1>1, <1>3, <2>1 DEF Claimed
    <2>2. CASE d.pc \in Unclaimed /\ d.session = None /\ v = w
        BY <1>3, <2>2 DEF ClaimOf, Unclaimed, Holding
    <2>3. CASE ~(d.pc \in Unclaimed /\ d.session = None) /\ v = w
        <3>1. ClaimOf(worker[w]) /\ worker'[v] = d
            BY <1>1, <1>3, <2>3 DEF Claimed
        <3>2. ClaimOf(d)
            BY <2>3, <3>1 DEF ClaimOf
        <3> QED BY <3>1, <3>2
    <2> QED BY <2>1, <2>2, <2>3
<1>8. \A c : ClaimOf(c) => ClaimOf(c)'
    BY DEF ClaimOf, PredecessorsDone, Evidence, sessionVars
<1>9. Claimed'
    <2> SUFFICES ASSUME NEW v \in Workers PROVE ClaimOf(worker[v])'
        BY DEF Claimed
    <2>1. ClaimOf(worker'[v])
        BY <1>7
    <2> QED BY <2>1 DEF ClaimOf, PredecessorsDone, Evidence, sessionVars
<1> QED BY <1>4, <1>5, <1>6, <1>9 DEF StoreInv, JobsInv

LEMMA IdleClaim == Idle \in Claims /\ Idle.pc \in Unclaimed /\ Idle.session = None
BY DEF Idle, Claims, Stages, Unclaimed

\* A worker that leaves is forgotten, and with it its time.
LEMMA Left ==
    ASSUME TypeOK, NEW w \in Workers, Leaves(w)
    PROVE  TurnsTyped' /\ worker' = [worker EXCEPT ![w] = Idle]
BY DEF Leaves, TypeOK, TurnsTyped

LEMMA TurnsStay ==
    ASSUME TypeOK, UNCHANGED turn
    PROVE  TurnsTyped'
BY DEF turn, TypeOK, TurnsTyped

LEMMA Moves ==
    ASSUME StoreInv, NEW w \in Workers,
           \/ TakeTime(w) \/ FindNothing(w) \/ AbortClaim(w)
           \/ Replay(w) \/ Analyze(w) \/ LockSession(w) \/ RefuseResult(w)
           \/ AbortSettle(w) \/ Fault(w) \/ ResultRefused(w) \/ RolledBack(w)
    PROVE  StoreInv'
<1> DEFINE c == worker[w]
<1>1. TypeOK /\ c \in Claims /\ ClaimOf(c)
    BY Types DEF StoreInv, JobsInv, Claimed
<1>2. faults \in 0 .. MaxFaults /\ MaxFaults \in Nat
    BY <1>1, JobsAssumption DEF TypeOK
<1>0. UNCHANGED turn => TurnsTyped'
    BY <1>1, TurnsStay
<1>3. CASE worker' = [worker EXCEPT ![w] = Idle] /\ faults' \in 0 .. MaxFaults
           /\ TurnsTyped' /\ UNCHANGED <<sessionVars, items, stream, jobs, passed>>
    BY <1>3, IdleClaim, WorkerMoves DEF Claims
<1>4. CASE AbortClaim(w) \/ FindNothing(w)
    BY <1>1, <1>2, <1>3, <1>4, Left DEF AbortClaim, FindNothing
<1>5. CASE Crash(w)
    BY <1>1, <1>2, <1>3, <1>5, Left DEF Crash
<1>16. CASE TakeTime(w)
    <2> DEFINE d == [c EXCEPT !.pc = "asking"]
    <2>1. TurnsTyped'
        BY <1>1, <1>16 DEF TakeTime, TypeOK, TurnsTyped, Clocked
    <2>2. worker' = [worker EXCEPT ![w] = d]
        BY <1>16 DEF TakeTime
    <2>3. d \in Claims /\ d.pc \in Unclaimed /\ d.session = None
        BY <1>1, <1>16 DEF TakeTime, Claims, Stages, ClaimOf, Unclaimed
    <2> HIDE DEF d
    <2> QED BY <1>2, <1>16, <2>1, <2>2, <2>3, WorkerMoves DEF TakeTime
<1>6. CASE Replay(w)
    <2> DEFINE d == [c EXCEPT
               !.pc = IF Replayed(c.session) = c.start THEN "analyzing" ELSE "failing",
               !.seen = Replayed(c.session)]
    <2>1. c.pc = "claimed" /\ c.session \in Sessions
        BY <1>1, <1>6 DEF Unclaimed, Replay, ClaimOf
    <2>2. Replayed(c.session) \in Nat
        BY <1>1, <2>1, Types DEF Replayed
    <2>3. d \in Claims
        BY <1>1, <2>2 DEF Claims, Stages
    <2> QED BY <1>0, <1>1, <1>2, <1>6, <2>1, <2>3, WorkerMoves DEF Unclaimed, Replay, Claims, Holding
<1>7. CASE Analyze(w)
    <2> DEFINE d == [c EXCEPT !.pc = IF c.lost THEN "failing" ELSE "analyzed"]
    <2>1. d \in Claims
        BY <1>1 DEF Claims, Stages
    <2>2. worker' = [worker EXCEPT ![w] = d]
        BY <1>7 DEF Analyze
    <2> QED BY <1>0, <1>1, <1>2, <1>7, <2>1, <2>2, WorkerMoves DEF Unclaimed, Analyze, Claims, ClaimOf, Holding
<1>8. CASE AnalyzerError(w)
    <2> DEFINE d == [c EXCEPT !.pc = "failing"]
    <2>1. d \in Claims
        BY <1>1 DEF Claims, Stages
    <2>2. worker' = [worker EXCEPT ![w] = d] /\ faults' \in 0 .. MaxFaults
        BY <1>2, <1>8 DEF AnalyzerError
    <2> QED BY <1>0, <1>1, <1>8, <2>1, <2>2, WorkerMoves DEF Unclaimed, AnalyzerError, Claims, Holding
<1>9. CASE RenewFails(w)
    <2> DEFINE d == [c EXCEPT !.lost = TRUE]
    <2>1. d \in Claims
        BY <1>1 DEF Claims
    <2>2. worker' = [worker EXCEPT ![w] = d] /\ faults' \in 0 .. MaxFaults
        BY <1>2, <1>9 DEF RenewFails
    <2> QED BY <1>0, <1>1, <1>9, <2>1, <2>2, WorkerMoves DEF Unclaimed, RenewFails, Claims, ClaimOf, Holding
<1>10. CASE LockSession(w)
    <2>1. CASE c.pc = "analyzed" /\ state[c.session] = "open"
        <3> DEFINE d == [c EXCEPT !.pc = "accepting"]
        <3>1. d \in Claims /\ worker' = [worker EXCEPT ![w] = d]
            BY <1>1, <1>10, <2>1 DEF LockSession, Claims, Stages, Holding
        <3> QED BY <1>0, <1>1, <1>2, <1>10, <2>1, <3>1, WorkerMoves DEF Unclaimed, LockSession, Claims, ClaimOf
    <2>2. CASE c.pc = "analyzed" /\ state[c.session] # "open"
        <3> DEFINE d == [c EXCEPT !.pc = "failing"]
        <3>1. d \in Claims /\ worker' = [worker EXCEPT ![w] = d]
            BY <1>1, <1>10, <2>2 DEF LockSession, Claims, Stages
        <3> QED BY <1>0, <1>1, <1>2, <1>10, <2>2, <3>1, WorkerMoves DEF Unclaimed, LockSession, Claims, Holding
    <2>3. CASE c.pc = "failing" /\ state[c.session] = "open"
        <3> DEFINE d == [c EXCEPT !.pc = "recording"]
        <3>1. d \in Claims /\ worker' = [worker EXCEPT ![w] = d]
            BY <1>1, <1>10, <2>3 DEF LockSession, Claims, Stages, Holding
        <3> QED BY <1>0, <1>1, <1>2, <1>10, <2>3, <3>1, WorkerMoves DEF Unclaimed, LockSession, Claims
    <2>4. CASE c.pc = "failing" /\ state[c.session] # "open"
        BY <1>0, <1>2, <1>3, <1>10, <2>4 DEF LockSession
    <2> QED BY <1>10, <2>1, <2>2, <2>3, <2>4 DEF LockSession
<1>11. ASSUME c.pc \in {"accepting", "analyzed"}, faults' \in 0 .. MaxFaults,
              worker' = [worker EXCEPT ![w] = [c EXCEPT !.pc = "failing"]],
              UNCHANGED <<sessionVars, items, stream, jobs, turn, passed>>
       PROVE  StoreInv'
    <2> DEFINE d == [c EXCEPT !.pc = "failing"]
    <2>1. d \in Claims
        BY <1>1 DEF Claims, Stages
    <2> QED BY <1>0, <1>1, <1>11, <2>1, WorkerMoves DEF Unclaimed, Claims, Holding
<1>12. CASE RefuseResult(w)
    BY <1>0, <1>2, <1>3, <1>11, <1>12 DEF RefuseResult, AtJob
<1>13. CASE ResultRefused(w)
    BY <1>0, <1>2, <1>3, <1>11, <1>13 DEF ResultRefused
<1>14. CASE RolledBack(w)
    <2>1. faults' \in 0 .. MaxFaults
        BY <1>2, <1>14 DEF RolledBack
    <2>2. CASE c.pc = "analyzed"
        BY <1>11, <1>14, <2>1, <2>2 DEF RolledBack
    <2>3. CASE c.pc = "failing"
        BY <1>0, <1>3, <1>14, <2>1, <2>3 DEF RolledBack
    <2> QED BY <1>14, <2>2, <2>3 DEF RolledBack
<1>15. CASE AbortSettle(w)
    BY <1>0, <1>2, <1>3, <1>11, <1>15 DEF AbortSettle
<1> QED BY <1>4, <1>5, <1>16, <1>6, <1>7, <1>8, <1>9, <1>10, <1>12, <1>13, <1>14, <1>15 DEF Fault

\* A claim is of an attempt nobody made, so that no one else holds it.
LEMMA ClaimStep ==
    ASSUME StoreInv, NEW w \in Workers, NEW s \in Sessions, NEW j \in Evidence(s),
           NEW d \in Claims, NEW r \in Row,
           \A v \in Workers \ {w} :
               worker[v].pc = "selecting" => <<worker[v].session, worker[v].job>> # <<s, j>>,
           jobs[s][j].state \in {"pending", "processing"}, PredecessorsDone(s, j),
           d.pc = "claimed", d.session = s, d.job = j, d.attempt = jobs[s][j].attempt + 1,
           r.state = "processing", r.attempt = jobs[s][j].attempt + 1,
           Rewrites(s, j, r), worker' = [worker EXCEPT ![w] = d],
           TurnsTyped', passed' \in [Sessions -> Nat],
           UNCHANGED <<sessionVars, items, stream, faults>>
    PROVE  StoreInv'
<1>1. TypeOK /\ OneHolderPerAttempt /\ FencedSettlement /\ Claimed /\ BatchOnItsBasis
    BY DEF StoreInv, JobsInv
<1>2. worker \in [Workers -> Claims] /\ jobs[s][j] \in Row
    BY <1>1, Types
<1>3. worker'[w] = d /\ \A v \in Workers \ {w} : worker'[v] = worker[v]
    BY <1>2
<1>4. jobs[s][j].attempt \in Nat
    BY <1>2 DEF Row
<1>5. /\ jobs' \in [Sessions -> Seq(Row)]
      /\ \A t \in Sessions : Len(jobs'[t]) = Len(jobs[t]) /\ Evidence(t)' = Evidence(t)
      /\ jobs'[s][j] = r
      /\ \A t \in Sessions : \A i \in Evidence(t) :
             <<t, i>> # <<s, j>> => jobs'[t][i] = jobs[t][i]
      /\ FencedSettlement'
      /\ \A c \in Claims :
             /\ ClaimOf(c)
             /\ c.pc = "selecting" => <<c.session, c.job>> # <<s, j>>
             => ClaimOf(c)'
    <2>1. TypeOK /\ FencedSettlement
        BY <1>1
    <2>2. jobs[s][j].attempt <= r.attempt /\ UNCHANGED state
        BY <1>4 DEF sessionVars
    <2>3. jobs[s][j].state # "completed" /\ r.state \notin {"completed", "failed"}
        OBVIOUS
    <2> QED BY <2>1, <2>2, <2>3, RowStep
<1>7. TypeOK'
    BY <1>1, <1>2, <1>5 DEF TypeOK, TurnsTyped, Claims, Row, sessionVars
<1>8. BatchOnItsBasis'
    BY <1>1 DEF BatchOnItsBasis
<1>9. ASSUME NEW v \in Workers \ {w}
      PROVE  <<worker[v].session, worker[v].job, worker[v].attempt>> # <<s, j, d.attempt>>
    <2>1. worker[v] \in Claims /\ ClaimOf(worker[v])
        BY <1>1, <1>2 DEF Claimed
    <2> SUFFICES ASSUME worker[v].session = s, worker[v].job = j PROVE worker[v].attempt # d.attempt
        OBVIOUS
    <2>2. worker[v].pc \notin Unclaimed \cup {"selecting"}
        BY <2>1, JobsAssumption DEF ClaimOf, Unclaimed
    <2>3. worker[v].attempt <= jobs[s][j].attempt /\ worker[v].attempt \in Nat
        BY <2>1, <2>2 DEF ClaimOf, Claims
    <2> QED BY <1>4, <2>3
<1>10. OneHolderPerAttempt'
    <2> SUFFICES ASSUME NEW u \in Workers, NEW v \in Workers, u # v, worker'[u].session # None
                 PROVE  <<worker'[u].session, worker'[u].job, worker'[u].attempt>>
                            # <<worker'[v].session, worker'[v].job, worker'[v].attempt>>
        BY DEF OneHolderPerAttempt
    <2>1. CASE u = w
        BY <1>3, <1>9, <2>1
    <2>2. CASE v = w
        BY <1>3, <1>9, <2>2
    <2>3. CASE u # w /\ v # w
        BY <1>1, <1>3, <2>3 DEF OneHolderPerAttempt
    <2> QED BY <2>1, <2>2, <2>3
<1>11. ASSUME NEW v \in Workers PROVE ClaimOf(worker[v])'
    <2>1. CASE v # w
        <3>1. worker[v] \in Claims /\ ClaimOf(worker[v]) /\ worker'[v] = worker[v]
            BY <1>1, <1>2, <1>3, <2>1 DEF Claimed
        <3>2. worker[v].pc = "selecting" => <<worker[v].session, worker[v].job>> # <<s, j>>
            BY <2>1
        <3>3. \A c \in Claims : c = worker[v] => ClaimOf(c)'
            BY <1>5, <3>1, <3>2
        <3> QED BY <3>1, <3>3 DEF ClaimOf
    <2>2. CASE v = w
        <3>1. PredecessorsDone(s, j)'
            <4>1. 1 .. j - 1 \subseteq Evidence(s) /\ j \notin 1 .. j - 1
                BY <1>1, Types DEF Evidence
            <4>2. ASSUME NEW i \in 1 .. j - 1 PROVE jobs'[s][i].state = "completed"
                <5>1. i \in Evidence(s) /\ <<s, i>> # <<s, j>>
                    BY <4>1
                <5>2. jobs'[s][i] = jobs[s][i]
                    BY <1>5, <5>1
                <5>3. jobs[s][i].state = "completed"
                    BY DEF PredecessorsDone
                <5> QED BY <5>2, <5>3
            <4> QED BY <4>2 DEF PredecessorsDone
        <3>2. j \in Evidence(s)' /\ d.attempt <= jobs'[s][j].attempt
            BY <1>4, <1>5
        <3> QED BY <1>3, <2>2, <3>1, <3>2 DEF ClaimOf, Unclaimed, Holding
    <2> QED BY <2>1, <2>2
<1> QED BY <1>5, <1>7, <1>8, <1>10, <1>11 DEF StoreInv, JobsInv, Claimed

LEMMA TurnsGoOn ==
    ASSUME TypeOK, NEW s \in Sessions, NEW w \in Workers, before' = Marked(s, w),
           unseen' \subseteq unseen
    PROVE  TurnsTyped'
<1>1. Clocked \subseteq Sessions \cup Workers
    BY DEF Clocked
<1> QED BY <1>1 DEF Marked, TypeOK, TurnsTyped

LEMMA Counted ==
    ASSUME passed \in [Sessions -> Nat], NEW s \in Sessions, NEW n \in 0 .. 1
    PROVE  Passing(s, n) \in [Sessions -> Nat]
<1>1. \A r \in Sessions : passed[r] + n \in Nat
    OBVIOUS
<1> QED BY <1>1 DEF Passing

LEMMA Claiming ==
    ASSUME StoreInv, NEW w \in Workers,
           \/ ClaimJob(w)
           \/ NoLockWaits /\ \E s \in Sessions : \E j \in Evidence(s) : Claim(w, s, j)
    PROVE  StoreInv'
<1>1. TypeOK /\ Claimed /\ OneHolderPerAttempt /\ worker \in [Workers -> Claims]
    BY Types DEF StoreInv, JobsInv
<1>2. CASE ClaimJob(w)
    <2> DEFINE c == worker[w]
               d == [c EXCEPT !.pc = "claimed"]
               row == jobs[c.session][c.job]
               r == [row EXCEPT !.state = "processing", !.attempt = row.attempt + 1,
                                !.expired = FALSE, !.start = c.start]
    <2>1. c \in Claims /\ ClaimOf(c) /\ c.pc = "selecting"
        BY <1>1, <1>2 DEF ClaimJob, Claimed
    <2>2. /\ c.session \in Sessions /\ c.job \in Evidence(c.session)
          /\ PredecessorsDone(c.session, c.job)
          /\ c.attempt = row.attempt + 1 /\ row.state \in {"pending", "processing"}
        BY <2>1 DEF Unclaimed, ClaimOf
    <2>3. row \in Row
        BY <1>1, <2>2, Types
    <2>4. d \in Claims /\ d.pc = "claimed" /\ d.session = c.session /\ d.job = c.job
          /\ d.attempt = row.attempt + 1
        BY <2>1, <2>2 DEF Claims, Stages
    <2>5. r \in Row /\ r.state = "processing" /\ r.attempt = row.attempt + 1
        <3>1. row.attempt + 1 \in Nat /\ c.start \in Nat
            BY <2>1, <2>3 DEF Row, Claims
        <3> HIDE DEF row, c
        <3> QED BY <2>3, <3>1 DEF Row, JobStates
    <2>6. ASSUME NEW v \in Workers \ {w}, worker[v].pc = "selecting"
          PROVE  <<worker[v].session, worker[v].job>> # <<c.session, c.job>>
        <3>1. worker[v].session \in Sessions
              /\ worker[v].attempt = jobs[worker[v].session][worker[v].job].attempt + 1
            BY <1>1, <2>6 DEF Unclaimed, Claimed, ClaimOf
        <3>2. worker[v].session # None
            BY <3>1, JobsAssumption
        <3>3. <<worker[v].session, worker[v].job, worker[v].attempt>>
                  # <<c.session, c.job, c.attempt>>
            BY <1>1, <3>2 DEF OneHolderPerAttempt
        <3> QED BY <2>2, <3>1, <3>3
    <2>7. Rewrites(c.session, c.job, r)
        BY <1>2 DEF ClaimJob, Rewrites
    <2>8. worker' = [worker EXCEPT ![w] = d]
        <3>1. worker' = [worker EXCEPT ![w].pc = "claimed"]
            BY <1>2 DEF ClaimJob
        <3> QED BY <3>1
    <2>9. TurnsTyped'
        BY <1>1, <1>2, <2>2, TurnsGoOn DEF ClaimJob
    <2>10. passed' \in [Sessions -> Nat]
        <3>1. passed \in [Sessions -> Nat]
            BY <1>1 DEF TypeOK
        <3>2. passed' = Passing(c.session, 1)
            BY <1>2 DEF ClaimJob
        <3>3. c.session \in Sessions
            BY <2>2
        <3> HIDE DEF c
        <3>4. Passing(c.session, 1) \in [Sessions -> Nat]
            BY <3>1, <3>3, Counted
        <3> QED BY <3>2, <3>4
    <2>11. UNCHANGED <<sessionVars, items, stream, faults>>
        BY <1>2 DEF ClaimJob
    <2> HIDE DEF c, d, row, r
    <2> QED BY <2>2, <2>4, <2>5, <2>6, <2>7, <2>8, <2>9, <2>10, <2>11, ClaimStep DEF row
<1>3. ASSUME NoLockWaits, NEW s \in Sessions, NEW j \in Evidence(s), Claim(w, s, j)
      PROVE  StoreInv'
    <2> DEFINE a == jobs[s][j].attempt + 1
               d == [Idle EXCEPT !.pc = "claimed", !.session = s, !.job = j,
                                 !.attempt = a, !.start = Revision(s)]
               r == [jobs[s][j] EXCEPT !.state = "processing", !.attempt = a,
                                       !.expired = FALSE, !.start = Revision(s)]
    <2>1. jobs[s][j] \in Row /\ j \in Nat /\ Revision(s) \in Nat
        BY <1>1, Types DEF Revision
    <2>2. a \in Nat
        BY <2>1 DEF Row
    <2>3. jobs[s][j].state \in {"pending", "processing"} /\ PredecessorsDone(s, j)
        BY <1>3 DEF Claim, Claimable, Free
    <2>4. d \in Claims /\ d.pc = "claimed" /\ d.session = s /\ d.job = j /\ d.attempt = a
        BY <2>1, <2>2 DEF Idle, Claims, Stages
    <2>5. r \in Row /\ r.state = "processing" /\ r.attempt = a
        BY <2>1, <2>2 DEF Row, JobStates
    <2>6. \A v \in Workers \ {w} :
              worker[v].pc = "selecting" => <<worker[v].session, worker[v].job>> # <<s, j>>
        BY <1>3 DEF NoLockWaits
    <2>7. Rewrites(s, j, r) /\ worker' = [worker EXCEPT ![w] = d]
        BY <1>3 DEF Claim, Rewrites
    <2>8. TurnsTyped'
        BY <1>1, <1>3, TurnsGoOn DEF Claim
    <2>9. passed' \in [Sessions -> Nat] /\ UNCHANGED <<sessionVars, items, stream, faults>>
        <3>1. passed \in [Sessions -> Nat] /\ passed' = Passing(s, 1)
            BY <1>1, <1>3 DEF Claim, TypeOK
        <3>2. Passing(s, 1) \in [Sessions -> Nat]
            BY <3>1, Counted
        <3>3. UNCHANGED <<sessionVars, items, stream, faults>>
            BY <1>3 DEF Claim
        <3> QED BY <3>1, <3>2, <3>3
    <2>10. d.pc = "claimed" /\ d.session = s /\ d.job = j /\ d.attempt = jobs[s][j].attempt + 1
        BY <2>4
    <2>11. r.state = "processing" /\ r.attempt = jobs[s][j].attempt + 1
        BY <2>5
    <2>12. d \in Claims /\ r \in Row
        BY <2>4, <2>5
    <2> HIDE DEF a, d, r
    <2> QED BY <2>3, <2>6, <2>7, <2>8, <2>9, <2>10, <2>11, <2>12, ClaimStep
<1> QED BY <1>2, <1>3

\* A result or a failure is written by the attempt that claimed last, and by no other.
LEMMA SettleStep ==
    ASSUME StoreInv, NEW w \in Workers, NEW result \in {"completed", "failed"},
           worker[w].pc \notin Unclaimed \cup {"selecting"}, Owns(w),
           \A v \in Workers :
               worker[v].pc = "selecting" =>
                   <<worker[v].session, worker[v].job>> # <<worker[w].session, worker[w].job>>,
           Settle(w, result), worker' = [worker EXCEPT ![w] = Idle],
           UNCHANGED <<state, deadline, gap, items, turn, faults, passed>>,
           closed' \in [Sessions -> BOOLEAN], stream' \in [Sessions -> Seq(Events)],
           BatchOnItsBasis'
    PROVE  StoreInv'
<1> DEFINE c == worker[w]
           s == c.session
           j == c.job
           r == [jobs[s][j] EXCEPT !.state = result, !.expired = FALSE, !.settled = c.attempt]
<1>1. TypeOK /\ OneHolderPerAttempt /\ FencedSettlement /\ Claimed
    BY DEF StoreInv, JobsInv
<1>2. worker \in [Workers -> Claims] /\ c \in Claims
    BY <1>1, Types
<1>3. s \in Sessions /\ j \in Evidence(s)
    BY <1>1 DEF Claimed, ClaimOf
<1>4. jobs[s][j] \in Row
    BY <1>1, <1>3, Types
<1>5. jobs[s][j].state = "processing" /\ jobs[s][j].attempt = c.attempt /\ c.attempt \in Nat
    BY <1>2 DEF Owns, Claims
<1>6. Rewrites(s, j, r)
    BY DEF Settle, Rewrites
<1>7. r \in Row /\ r.attempt = c.attempt /\ r.state = result /\ r.settled = c.attempt
    BY <1>4, <1>5 DEF Row, JobStates
<1>8. UNCHANGED state /\ jobs[s][j].attempt <= r.attempt /\ jobs[s][j].state # "completed"
    BY <1>5, <1>7
<1>9. \A v \in Workers : worker[v].pc = "selecting" =>
          <<worker[v].session, worker[v].job>> # <<s, j>>
    OBVIOUS
<1> HIDE DEF r, s, j
<1>10. /\ jobs' \in [Sessions -> Seq(Row)]
       /\ FencedSettlement'
       /\ \A d \in Claims :
              /\ ClaimOf(d)
              /\ d.pc = "selecting" => <<d.session, d.job>> # <<s, j>>
              => ClaimOf(d)'
    BY <1>1, <1>3, <1>6, <1>7, <1>8, RowStep
<1>11. worker'[w] = Idle /\ \A v \in Workers \ {w} : worker'[v] = worker[v]
    BY <1>2
<1>12. OneHolderPerAttempt'
    BY <1>1, IdleClaim, HoldersKept
<1>13. ASSUME NEW v \in Workers PROVE ClaimOf(worker[v])'
    <2>1. CASE v # w
        <3>1. worker[v] \in Claims /\ ClaimOf(worker[v]) /\ worker'[v] = worker[v]
            BY <1>1, <1>2, <1>11, <2>1 DEF Claimed
        <3>2. \A d \in Claims : d = worker[v] => ClaimOf(d)'
            BY <1>9, <1>10, <3>1
        <3> QED BY <3>1, <3>2 DEF ClaimOf
    <2>2. CASE v = w
        BY <1>11, <2>2 DEF ClaimOf, Unclaimed, Idle, Holding
    <2> QED BY <2>1, <2>2
<1>14. TypeOK'
    <2>1. worker' \in [Workers -> Claims]
        BY <1>2, IdleClaim
    <2> QED BY <1>1, <1>10, <2>1 DEF TypeOK, turn, Claims, Row, Events
<1> QED BY <1>10, <1>12, <1>13, <1>14 DEF StoreInv, JobsInv, Claimed

\* The events of an accepted result.
LEMMA Batch ==
    ASSUME TypeOK, BatchOnItsBasis, NEW s \in Sessions, NEW j \in Nat, NEW n \in 0 .. MaxBatch,
           Write(s, [i \in 1 .. n |-> [by |-> "analyzer", job |-> j, seen |-> Len(stream[s])]])
    PROVE  BatchOnItsBasis' /\ stream' \in [Sessions -> Seq(Events)]
<1> DEFINE m == Len(stream[s])
           es == [i \in 1 .. n |-> [by |-> "analyzer", job |-> j, seen |-> m]]
<1>1. m \in Nat /\ n \in Nat
    BY Types, JobsAssumption
<1>2. [by |-> "analyzer", job |-> j, seen |-> m] \in Events
    BY <1>1 DEF Events
<1>3. es \in Seq(Events) /\ Len(es) = n
    BY <1>1, <1>2
<1>4. \A i \in 1 .. Len(es) : es[i].by = "analyzer" /\ es[i].seen = m /\ es[i].job = j
    BY <1>3
<1>5. Write(s, es)
    OBVIOUS
<1> HIDE DEF es
<1>6. \A i \in 1 .. Len(es) : es[i].by = "analyzer" =>
          /\ es[i].seen = Len(stream[s])
          /\ \A k \in 1 .. Len(es) : es[k].by = "analyzer" /\ es[k].job = es[i].job
    BY <1>4
<1> QED BY <1>3, <1>5, <1>6, BatchKept, Written

LEMMA Settling ==
    ASSUME StoreInv, NEW w \in Workers,
           \/ \E n \in 0 .. MaxBatch : AcceptResult(w, n)
           \/ FailJob(w)
           \/ NoLockWaits /\ \E n \in 0 .. MaxBatch : AcceptJobResult(w, n)
           \/ NoLockWaits /\ RecordFailure(w)
    PROVE  StoreInv'
<1> DEFINE c == worker[w]
<1>1. TypeOK /\ BatchOnItsBasis /\ c \in Claims /\ ClaimOf(c)
    BY Types DEF StoreInv, JobsInv, Claimed
<1>2. /\ closed \in [Sessions -> BOOLEAN] /\ stream \in [Sessions -> Seq(Events)]
      /\ MaxBatch \in Nat
    BY <1>1, Types, JobsAssumption DEF TypeOK
<1>3. c.pc \notin Unclaimed => c.session \in Sessions /\ c.job \in Nat
    BY <1>1 DEF ClaimOf, Claims
<1>4. ~RowHeld(c.session, c.job) =>
          \A v \in Workers : worker[v].pc = "selecting" =>
              <<worker[v].session, worker[v].job>> # <<worker[w].session, worker[w].job>>
    BY DEF RowHeld
<1>5. ASSUME NEW n \in 0 .. MaxBatch, c.pc \in {"accepting", "analyzed"}, Fresh(w),
             Write(c.session, [i \in 1 .. n |-> [by |-> "analyzer", job |-> c.job, seen |-> c.seen]])
      PROVE  BatchOnItsBasis' /\ stream' \in [Sessions -> Seq(Events)]
    <2>1. c.seen = Len(stream[c.session])
        BY <1>1, <1>5 DEF Unclaimed, ClaimOf, Fresh, Revision
    <2> QED BY <1>1, <1>3, <1>5, <2>1, Batch DEF Unclaimed
<1>6. ASSUME NEW n \in 0 .. MaxBatch, AcceptResult(w, n) PROVE StoreInv'
    <2>1. BatchOnItsBasis' /\ stream' \in [Sessions -> Seq(Events)]
        BY <1>5, <1>6 DEF AcceptResult, AtJob
    <2>2. closed' \in [Sessions -> BOOLEAN]
        BY <1>2, <1>6 DEF AcceptResult, sessionVars
    <2> QED BY <1>4, <1>6, <2>1, <2>2, SettleStep DEF AcceptResult, AtJob, Unclaimed, sessionVars
<1>7. ASSUME NoLockWaits, NEW n \in 0 .. MaxBatch, AcceptJobResult(w, n) PROVE StoreInv'
    <2>1. BatchOnItsBasis' /\ stream' \in [Sessions -> Seq(Events)]
        BY <1>5, <1>7 DEF AcceptJobResult, Accepts, AppendLocked
    <2>2. closed' \in [Sessions -> BOOLEAN]
        BY <1>2, <1>7 DEF AcceptJobResult, AppendLocked
    <2> QED BY <1>4, <1>7, <2>1, <2>2, NothingHeld, SettleStep DEF AcceptJobResult, Accepts, NoLockWaits, Unclaimed
<1>8. ASSUME c.pc \in {"recording", "failing"}, ~RowHeld(c.session, c.job), Owns(w),
             Settle(w, "failed"), worker' = [worker EXCEPT ![w] = Idle],
             UNCHANGED <<sessionVars, items, stream, turn, faults, passed>>
      PROVE  StoreInv'
    <2>1. BatchOnItsBasis' /\ stream' \in [Sessions -> Seq(Events)]
          /\ closed' \in [Sessions -> BOOLEAN]
        BY <1>1, <1>2, <1>8 DEF BatchOnItsBasis, sessionVars
    <2> QED BY <1>4, <1>8, <2>1, SettleStep DEF Unclaimed, sessionVars
<1>9. ASSUME worker' = [worker EXCEPT ![w] = Idle],
             UNCHANGED <<sessionVars, items, stream, jobs, turn, faults, passed>>
      PROVE  StoreInv'
    <2>1. faults' \in 0 .. MaxFaults /\ TurnsTyped'
        BY <1>1, <1>9, TurnsStay DEF TypeOK
    <2> QED BY <1>9, <2>1, IdleClaim, WorkerMoves
<1>10. CASE FailJob(w)
    BY <1>8, <1>9, <1>10 DEF FailJob, AtJob
<1>11. CASE NoLockWaits /\ RecordFailure(w)
    <2>1. ~RowHeld(c.session, c.job)
        BY <1>3, <1>11, NothingHeld DEF RecordFailure, Unclaimed
    <2> QED BY <1>8, <1>9, <1>11, <2>1 DEF RecordFailure
<1> QED BY <1>6, <1>7, <1>10, <1>11

-----------------------------------------------------------------------------
(* Steps of a lease, and the retry.                                        *)

LEMMA TouchStep ==
    ASSUME StoreInv, NEW s \in Sessions, NEW j \in Evidence(s), NEW r \in Row,
           Rewrites(s, j, r), r.attempt = jobs[s][j].attempt,
           jobs[s][j].state = "completed" => r.state = "completed",
           r.state \in {"completed", "failed"} =>
               jobs[s][j].state = r.state /\ r.settled = jobs[s][j].settled,
           jobs[s][j].state \in {"pending", "processing"} => r.state = jobs[s][j].state,
           TurnsTyped', UNCHANGED <<sessionVars, items, stream, worker, faults, passed>>
    PROVE  StoreInv'
<1>1. TypeOK /\ OneHolderPerAttempt /\ FencedSettlement /\ Claimed /\ BatchOnItsBasis
    BY DEF StoreInv, JobsInv
<1>2. jobs[s][j] \in Row /\ jobs[s][j].attempt \in Nat
    BY <1>1, Types DEF Row
<1>3. r.state \in {"completed", "failed"} => r.settled = r.attempt
    BY <1>1 DEF FencedSettlement
<1>4. jobs[s][j].attempt <= r.attempt /\ UNCHANGED state
    BY <1>2 DEF sessionVars
<1>5. /\ jobs' \in [Sessions -> Seq(Row)]
      /\ FencedSettlement'
      /\ \A c \in Claims :
             /\ ClaimOf(c)
             /\ c.pc = "selecting" /\ <<c.session, c.job>> = <<s, j>> =>
                    r.attempt = jobs[s][j].attempt /\ r.state \in {"pending", "processing"}
             => ClaimOf(c)'
    BY <1>1, <1>3, <1>4, RowStep
<1>6. ASSUME NEW w \in Workers PROVE ClaimOf(worker[w])'
    <2>1. worker[w] \in Claims /\ ClaimOf(worker[w]) /\ worker'[w] = worker[w]
        BY <1>1, Types DEF Claimed
    <2>2. worker[w].pc = "selecting" /\ <<worker[w].session, worker[w].job>> = <<s, j>> =>
              r.state \in {"pending", "processing"}
        BY <2>1 DEF Unclaimed, ClaimOf
    <2>3. \A c \in Claims : c = worker[w] => ClaimOf(c)'
        BY <1>5, <2>1, <2>2
    <2> QED BY <2>1, <2>3 DEF ClaimOf
<1>7. TypeOK'
    BY <1>1, <1>5 DEF TypeOK, TurnsTyped, Row, sessionVars
<1>8. OneHolderPerAttempt' /\ BatchOnItsBasis'
    BY <1>1 DEF OneHolderPerAttempt, BatchOnItsBasis
<1> QED BY <1>5, <1>6, <1>7, <1>8 DEF StoreInv, JobsInv, Claimed

LEMMA Touches ==
    ASSUME StoreInv,
           \/ \E w \in Workers : RenewLease(w) \/ Renew(w)
           \/ \E s \in Sessions : \E j \in Evidence(s) :
                  LeaseExpires(s, j) \/ RetryJob(s, j) \/ RetryFailed(s, j)
    PROVE  StoreInv'
<1>1. TypeOK /\ Claimed /\ faults \in 0 .. MaxFaults /\ worker \in [Workers -> Claims]
    BY Types DEF StoreInv, JobsInv, TypeOK
<1>2. ASSUME NEW s \in Sessions, NEW j \in Evidence(s), NEW x \in BOOLEAN,
             jobs' = [jobs EXCEPT ![s][j].expired = x], TurnsTyped',
             UNCHANGED <<sessionVars, items, stream, worker, faults, passed>>
      PROVE  StoreInv'
    <2> DEFINE r == [jobs[s][j] EXCEPT !.expired = x]
    <2>1. jobs[s][j] \in Row
        BY <1>1, Types
    <2>2. r \in Row /\ r.attempt = jobs[s][j].attempt /\ r.state = jobs[s][j].state
          /\ r.settled = jobs[s][j].settled
        BY <2>1 DEF Row
    <2>3. Rewrites(s, j, r)
        BY <1>2 DEF Rewrites
    <2> HIDE DEF r
    <2> QED BY <1>2, <2>2, <2>3, TouchStep
<1>3. ASSUME NEW s \in Sessions, NEW j \in Evidence(s), jobs[s][j].state = "failed",
             jobs' = [jobs EXCEPT ![s][j].state = "pending"],
             UNCHANGED <<sessionVars, items, stream, turn, worker, faults, passed>>
      PROVE  StoreInv'
    <2> DEFINE r == [jobs[s][j] EXCEPT !.state = "pending"]
    <2>1. jobs[s][j] \in Row
        BY <1>1, Types
    <2>2. r \in Row /\ r.attempt = jobs[s][j].attempt /\ r.state = "pending"
        BY <2>1 DEF Row, JobStates
    <2>3. Rewrites(s, j, r)
        BY <1>3 DEF Rewrites
    <2> HIDE DEF r
    <2> QED BY <1>1, <1>3, <2>2, <2>3, TouchStep, TurnsStay
<1>4. ASSUME NEW w \in Workers, worker[w].pc \in {"claimed", "analyzing"},
             worker' = [worker EXCEPT ![w].lost = TRUE],
             UNCHANGED <<sessionVars, items, stream, jobs, turn, faults, passed>>
      PROVE  StoreInv'
    <2> DEFINE d == [worker[w] EXCEPT !.lost = TRUE]
    <2>1. worker[w] \in Claims /\ ClaimOf(worker[w])
        BY <1>1 DEF Claimed
    <2>2. d \in Claims
        BY <2>1 DEF Claims
    <2> QED BY <1>1, <1>4, <2>1, <2>2, WorkerMoves, TurnsStay DEF Claims, ClaimOf, Unclaimed, Holding
<1>5. ASSUME NEW w \in Workers, RenewLease(w) PROVE StoreInv'
    <2>1. worker[w].session \in Sessions /\ worker[w].job \in Evidence(worker[w].session)
        BY <1>1, <1>5 DEF RenewLease, Claimed, ClaimOf, Unclaimed
    <2> QED BY <1>1, <1>2, <1>4, <1>5, <2>1, TurnsStay DEF RenewLease
<1>6. ASSUME NEW w \in Workers, Renew(w) PROVE StoreInv'
    <2>1. worker[w].session \in Sessions /\ worker[w].job \in Evidence(worker[w].session)
        BY <1>1, <1>6 DEF Renew, Claimed, ClaimOf, Unclaimed
    <2>2. CASE Accepting(worker[w].session) /\ Owns(w)
        BY <1>1, <1>2, <1>6, <2>1, <2>2, TurnsStay DEF Renew
    <2>3. CASE ~(Accepting(worker[w].session) /\ Owns(w))
        BY <1>4, <1>6, <2>3 DEF Renew
    <2> QED BY <2>2, <2>3
<1>7. ASSUME NEW s \in Sessions, NEW j \in Evidence(s),
             LeaseExpires(s, j) \/ RetryJob(s, j) \/ RetryFailed(s, j)
      PROVE  StoreInv'
    <2>1. LeaseExpires(s, j) => TurnsTyped'
        BY <1>1 DEF LeaseExpires, TypeOK, TurnsTyped
    <2> QED BY <1>2, <1>3, <1>7, <2>1 DEF LeaseExpires, RetryJob, RetryFailed
<1> QED BY <1>5, <1>6, <1>7

LEMMA Selecting ==
    ASSUME StoreInv, NEW w \in Workers, NEW s \in Sessions, NEW j \in Evidence(s),
           SelectJob(w, s, j)
    PROVE  StoreInv'
<1> DEFINE a == jobs[s][j].attempt + 1
           d == [Idle EXCEPT !.pc = "selecting", !.session = s, !.job = j,
                             !.attempt = a, !.start = Revision(s)]
<1>1. TypeOK /\ OneHolderPerAttempt /\ FencedSettlement /\ Claimed /\ BatchOnItsBasis
      /\ worker \in [Workers -> Claims]
    BY Types DEF StoreInv, JobsInv
<1>2. jobs[s][j] \in Row /\ j \in Nat /\ Revision(s) \in Nat
    BY <1>1, Types DEF Revision
<1>3. a \in Nat /\ jobs[s][j].attempt \in Nat /\ jobs[s][j].attempt < a
    BY <1>2 DEF Row
<1>4. d \in Claims /\ d.pc = "selecting" /\ d.session = s /\ d.job = j /\ d.attempt = a
    BY <1>2, <1>3 DEF Idle, Claims, Stages
<1>5. worker' = [worker EXCEPT ![w] = d]
    BY DEF SelectJob
<1>6. /\ jobs[s][j].state \in {"pending", "processing"}
      /\ PredecessorsDone(s, j) /\ ~RowHeld(s, j)
    BY DEF SelectJob, Claimable, Free
<1> HIDE DEF d
<1>7. worker'[w] = d /\ \A v \in Workers \ {w} : worker'[v] = worker[v]
    BY <1>1, <1>5
<1>8. TypeOK'
    <2>1. worker' \in [Workers -> Claims]
        BY <1>1, <1>4, <1>5
    <2>2. passed' \in [Sessions -> Nat]
        <3>1. passed \in [Sessions -> Nat] /\ passed' = Passing(s, 0)
            BY <1>1 DEF SelectJob, TypeOK
        <3>2. Passing(s, 0) \in [Sessions -> Nat]
            BY <3>1, Counted
        <3> QED BY <3>1, <3>2
    <2> QED BY <1>1, <2>1, <2>2 DEF SelectJob, TypeOK, Claims, sessionVars
<1>9. FencedSettlement' /\ BatchOnItsBasis'
    BY <1>1 DEF SelectJob, FencedSettlement, BatchOnItsBasis, Evidence
<1>10. ASSUME NEW v \in Workers \ {w}
       PROVE  <<worker[v].session, worker[v].job, worker[v].attempt>> # <<s, j, a>>
    <2>1. worker[v] \in Claims /\ ClaimOf(worker[v])
        BY <1>1 DEF Claimed
    <2> SUFFICES ASSUME worker[v].session = s, worker[v].job = j PROVE worker[v].attempt # a
        OBVIOUS
    <2>2. worker[v].pc \notin Unclaimed \cup {"selecting"}
        BY <1>6, <2>1, JobsAssumption DEF ClaimOf, Unclaimed, RowHeld
    <2>3. worker[v].attempt <= jobs[s][j].attempt /\ worker[v].attempt \in Nat
        BY <2>1, <2>2 DEF ClaimOf, Claims
    <2> QED BY <1>3, <2>3
<1>11. OneHolderPerAttempt'
    <2> SUFFICES ASSUME NEW u \in Workers, NEW v \in Workers, u # v, worker'[u].session # None
                 PROVE  <<worker'[u].session, worker'[u].job, worker'[u].attempt>>
                            # <<worker'[v].session, worker'[v].job, worker'[v].attempt>>
        BY DEF OneHolderPerAttempt
    <2>1. CASE u = w
        BY <1>4, <1>7, <1>10, <2>1
    <2>2. CASE v = w
        BY <1>4, <1>7, <1>10, <2>2
    <2>3. CASE u # w /\ v # w
        BY <1>1, <1>7, <2>3 DEF OneHolderPerAttempt
    <2> QED BY <2>1, <2>2, <2>3
<1>12. ASSUME NEW v \in Workers PROVE ClaimOf(worker[v])'
    <2>1. ClaimOf(worker'[v])
        <3>1. CASE v # w
            BY <1>1, <1>7, <3>1 DEF Claimed
        <3>2. CASE v = w
            BY <1>4, <1>6, <1>7, <3>2 DEF ClaimOf, Unclaimed, Holding
        <3> QED BY <3>1, <3>2
    <2> QED BY <2>1 DEF SelectJob, ClaimOf, PredecessorsDone, Evidence, sessionVars
<1> QED BY <1>8, <1>9, <1>11, <1>12 DEF StoreInv, JobsInv, Claimed

-----------------------------------------------------------------------------
(* The invariant.                                                          *)

LEMMA Starts == ASSUME Init PROVE StoreInv /\ NoLockWaits
<1>1. MaxEvidence \in Nat /\ MaxFaults \in Nat
    BY JobsAssumption
<1>2. TypeOK
    <2>2. worker \in [Workers -> Claims]
        BY IdleClaim DEF Init
    <2> QED BY <1>1, <2>2 DEF Init, TypeOK, Claims
<1>3. BatchOnItsBasis /\ FencedSettlement
    BY DEF Init, BatchOnItsBasis, FencedSettlement, Evidence
<1>4. OneHolderPerAttempt /\ Claimed /\ NoLockWaits
    BY DEF Init, OneHolderPerAttempt, Claimed, ClaimOf, Unclaimed, Idle, Holding, NoLockWaits
<1> QED BY <1>2, <1>3, <1>4 DEF StoreInv, JobsInv

LEMMA Stutters == ASSUME StoreInv, UNCHANGED vars PROVE StoreInv'
<1> USE DEF vars, turn, sessionVars
<1>1. TypeOK'
    BY DEF StoreInv, JobsInv, TypeOK
<1>2. OneHolderPerAttempt' /\ FencedSettlement' /\ BatchOnItsBasis'
    BY DEF StoreInv, JobsInv, OneHolderPerAttempt, FencedSettlement, BatchOnItsBasis, Evidence
<1>3. Claimed'
    BY DEF StoreInv, Claimed, ClaimOf, PredecessorsDone, Evidence
<1> QED BY <1>1, <1>2, <1>3 DEF StoreInv, JobsInv

LEMMA Steps == ASSUME StoreInv, [Next]_vars PROVE StoreInv'
<1>1. ASSUME NEW w \in Workers, WorkerStep(w) \/ RenewLease(w) \/ Fault(w) PROVE StoreInv'
    <2>1. CASE RenewLease(w)
        BY <2>1, Touches
    <2>2. CASE \E s \in Sessions : \E j \in Evidence(s) : SelectJob(w, s, j)
        BY <2>2, Selecting
    <2>3. CASE ClaimJob(w)
        BY <2>3, Claiming
    <2>4. CASE (\E n \in 0 .. MaxBatch : AcceptResult(w, n)) \/ FailJob(w)
        BY <2>4, Settling
    <2>5. CASE \/ TakeTime(w) \/ FindNothing(w) \/ AbortClaim(w) \/ Replay(w) \/ Analyze(w) \/ LockSession(w)
               \/ RefuseResult(w) \/ AbortSettle(w) \/ Fault(w)
        BY <2>5, Moves
    <2> QED BY <1>1, <2>1, <2>2, <2>3, <2>4, <2>5 DEF WorkerStep
<1>2. ASSUME NEW s \in Sessions, SessionStep(s) PROVE StoreInv'
    <2>1. CASE AcceptFinal(s) \/ AcceptSequencedFinal(s)
        BY <2>1, HearSteps
    <2>2. CASE \E j \in Evidence(s) : LeaseExpires(s, j) \/ RetryJob(s, j)
        BY <2>2, Touches
    <2>3. CASE \/ TrackItem(s) \/ LoseAudio(s) \/ AppendHuman(s) \/ RequestFinalizing(s)
               \/ DeadlinePasses(s) \/ CompleteDrain(s)
        BY <2>3, MeetingSteps
    <2> QED BY <1>2, <2>1, <2>2, <2>3 DEF SessionStep
<1> QED BY <1>1, <1>2, Stutters DEF Next

Becomes(w, d) == worker' = [worker EXCEPT ![w] = d]

LEMMA Unblocked ==
    ASSUME NoLockWaits, worker \in [Workers -> Claims], NEW w \in Workers, NEW d,
           Becomes(w, d), d.pc \notin {"selecting"} \cup Holding
    PROVE  NoLockWaits'
BY DEF NoLockWaits, Becomes

LEMMA ContractSteps == ASSUME StoreInv, NoLockWaits, ContractNext PROVE StoreInv' /\ NoLockWaits'
<1>1. worker \in [Workers -> Claims]
    BY Types DEF StoreInv, JobsInv
<1>2. ASSUME NEW s \in Sessions, NEW by \in {"human", "system"},
             AcceptNextFinal(s) \/ AudioIsLost(s) \/ AppendEvents(s, by)
             \/ FinalizeSession(s, Incomplete(s))
      PROVE  StoreInv' /\ NoLockWaits'
    <2>1. StoreInv'
        BY <1>2, HearSteps, MeetingSteps
    <2>2. UNCHANGED worker
        BY <1>2 DEF AcceptNextFinal, AudioIsLost, AppendEvents, FinalizeSession
    <2> QED BY <2>1, <2>2 DEF NoLockWaits
<1>3. ASSUME NEW s \in Sessions, NEW j \in Evidence(s), LeaseExpires(s, j) \/ RetryFailed(s, j)
      PROVE  StoreInv' /\ NoLockWaits'
    <2>1. StoreInv'
        BY <1>3, Touches
    <2> QED BY <1>3, <2>1 DEF LeaseExpires, RetryFailed, NoLockWaits
<1>4. ASSUME NEW w \in Workers, NEW s \in Sessions, NEW j \in Evidence(s), Claim(w, s, j)
      PROVE  StoreInv' /\ NoLockWaits'
    <2>1. StoreInv'
        BY <1>4, Claiming
    <2> QED BY <1>1, <1>4, <2>1 DEF Claim, NoLockWaits, Idle, Holding
<1>5. ASSUME NEW w \in Workers, Renew(w)
      PROVE  StoreInv' /\ NoLockWaits'
    <2>1. StoreInv'
        BY <1>5, Touches
    <2> QED BY <1>1, <1>5, <2>1 DEF Renew, NoLockWaits, Claims
<1>6. ASSUME NEW w \in Workers,
             (\E n \in 0 .. MaxBatch : AcceptJobResult(w, n)) \/ RecordFailure(w)
      PROVE  StoreInv' /\ NoLockWaits'
    <2>1. StoreInv'
        BY <1>6, Settling
    <2>2. Becomes(w, Idle)
        BY <1>6 DEF AcceptJobResult, RecordFailure, Becomes
    <2> QED BY <1>1, <2>1, <2>2, Unblocked DEF Idle, Holding
<1>7. ASSUME NEW w \in Workers,
             \/ TakeTime(w) \/ FindNothing(w)
             \/ Replay(w) \/ Analyze(w) \/ Fault(w) \/ ResultRefused(w) \/ RolledBack(w)
      PROVE  StoreInv' /\ NoLockWaits'
    <2>1. StoreInv'
        BY <1>7, Moves
    <2>2. worker[w] \in Claims /\ worker[w].pc \notin {"selecting"} \cup Holding
        BY <1>1 DEF NoLockWaits
    <2> DEFINE c == worker[w]
               Fails == [c EXCEPT !.pc = "failing"]
    <2>3. Idle.pc = "idle" /\ Fails.pc = "failing"
        BY <2>2 DEF Idle, Claims
    <2>4. ASSUME Becomes(w, Idle) \/ Becomes(w, Fails)
          PROVE  NoLockWaits'
        <3> HIDE DEF Fails
        <3> QED BY <1>1, <2>3, <2>4, Unblocked DEF Holding
    <2>5. CASE Replay(w)
        <3> DEFINE d == [c EXCEPT
                !.pc = IF Replayed(c.session) = c.start THEN "analyzing" ELSE "failing",
                !.seen = Replayed(c.session)]
        <3>1. Becomes(w, d) /\ d.pc \in {"analyzing", "failing"}
            BY <2>2, <2>5 DEF Replay, Claims, Becomes
        <3> HIDE DEF d
        <3> QED BY <2>1, <1>1, <3>1, Unblocked DEF Holding
    <2>6. CASE Analyze(w)
        <3> DEFINE d == [c EXCEPT !.pc = IF c.lost THEN "failing" ELSE "analyzed"]
        <3>1. Becomes(w, d)
            BY <2>6 DEF Analyze, Becomes
        <3>2. d.pc \in {"analyzed", "failing"}
            BY <2>2 DEF Claims
        <3> HIDE DEF d
        <3> QED BY <2>1, <1>1, <3>1, <3>2, Unblocked DEF Holding
    <2>7. CASE RenewFails(w)
        <3> DEFINE d == [c EXCEPT !.lost = TRUE]
        <3>1. Becomes(w, d)
            BY <2>7 DEF RenewFails, Becomes
        <3>2. d.pc = c.pc
            BY <2>2 DEF Claims
        <3> HIDE DEF d
        <3> QED BY <2>1, <1>1, <2>2, <3>1, <3>2, Unblocked
    <2>8. CASE AnalyzerError(w)
        <3>1. Becomes(w, Fails)
            BY <2>8 DEF AnalyzerError, Becomes
        <3> HIDE DEF Fails
        <3> QED BY <2>1, <2>4, <3>1
    <2>9. CASE Crash(w)
        BY <2>1, <2>4, <2>9 DEF Crash, Leaves, Becomes
    <2>12. CASE FindNothing(w)
        BY <2>1, <2>4, <2>12 DEF FindNothing, Leaves, Becomes
    <2>13. CASE TakeTime(w)
        <3> DEFINE d == [c EXCEPT !.pc = "asking"]
        <3>1. Becomes(w, d)
            BY <2>13 DEF TakeTime, Becomes
        <3>2. d.pc = "asking"
            BY <2>2 DEF Claims
        <3> HIDE DEF d
        <3> QED BY <2>1, <1>1, <3>1, <3>2, Unblocked DEF Holding
    <2>10. CASE ResultRefused(w)
        BY <2>1, <2>4, <2>10 DEF ResultRefused, Becomes
    <2>11. CASE RolledBack(w)
        BY <2>1, <2>4, <2>11 DEF RolledBack, Becomes
    <2> QED BY <1>7, <2>1, <2>5, <2>6, <2>7, <2>8, <2>9, <2>10, <2>11, <2>12, <2>13 DEF Fault
<1> QED BY <1>2, <1>3, <1>4, <1>5, <1>6, <1>7 DEF ContractNext

\* What both stores keep, behind whichever the service runs on.
BothStoresInv == StoreInv /\ (backend = "sqlite" => NoLockWaits)

THEOREM StoreKeepsInv == StoreSpec => []BothStoresInv
<1>1. ContractInit => BothStoresInv
    BY Starts DEF ContractInit, BothStoresInv
<1>2. BothStoresInv /\ [StoreNext]_storeVars => BothStoresInv'
    <2> SUFFICES ASSUME BothStoresInv, [StoreNext]_storeVars PROVE BothStoresInv'
        OBVIOUS
    <2>1. CASE backend = "postgres" /\ Next /\ UNCHANGED backend
        BY <2>1, Steps DEF BothStoresInv
    <2>2. CASE backend = "sqlite" /\ ContractNext /\ UNCHANGED backend
        BY <2>2, ContractSteps DEF BothStoresInv
    <2>3. CASE UNCHANGED storeVars
        BY <2>3, Steps DEF BothStoresInv, storeVars, vars, NoLockWaits
    <2> QED BY <2>1, <2>2, <2>3 DEF StoreNext
<1> QED BY <1>1, <1>2, PTL DEF StoreSpec

\* JobsInv: no two workers hold one attempt of a job, and only the attempt that claimed
\* last completes or fails it, whatever expires, crashes, deadlocks or is retried, for any
\* number of meetings and workers and on both stores.
THEOREM OneAttemptSettles == StoreSpec => []JobsInv
<1>1. BothStoresInv => JobsInv
    BY DEF BothStoresInv, StoreInv
<1> QED BY <1>1, StoreKeepsInv, PTL

\* BatchOnItsBasis: what an analysis adds follows directly on the graph it was made from.
THEOREM BatchesFollowTheirBasis == StoreSpec => []BatchOnItsBasis
<1>1. BothStoresInv => BatchOnItsBasis
    BY DEF BothStoresInv, StoreInv
<1> QED BY <1>1, StoreKeepsInv, PTL

-----------------------------------------------------------------------------
(* The turns of the meetings.  Whoever is claimed while s waits is counted *)
(* once among the others: the meeting is behind s from then on, or the     *)
(* claim had taken its time before s got its place, and its worker has not *)
(* one like it again.                                                      *)

AtClaim == {"asking", "selecting"}

Chosen(r) == \E w \in Workers : worker[w].pc = "selecting" /\ worker[w].session = r

Behind(s) == {r \in Sessions \ {s} : <<s, r>> \in before /\ ~Chosen(r)}

\* Workers without a claim that took its time before s got its place.
Late(s) == {w \in Workers : ~(Timed(w) /\ <<w, s>> \in before)}

Others(s) == Behind(s) \cup Late(s)

OneSelects ==
    \A v, w \in Workers :
        worker[v].pc = "selecting" /\ worker[w].pc = "selecting"
            /\ worker[v].session = worker[w].session => v = w

InOrder == before \subseteq Clocked \X Clocked /\ Ordered(before, Clocked)

\* The one who claimed s last is late for it: someone always is.
TurnInv ==
    /\ InOrder
    /\ OneSelects
    /\ \A s \in Sessions : Late(s) # {} /\ passed[s] + 1 <= Cardinality(Others(s))

\* What the counts are taken of.
LEMMA Counts ==
    ASSUME NEW S \in SUBSET (Sessions \cup Workers)
    PROVE  /\ IsFiniteSet(S) /\ Cardinality(S) \in Nat
           /\ S # {} => 1 <= Cardinality(S)
           /\ \A T \in SUBSET S : Cardinality(T) <= Cardinality(S)
           /\ \A T \in SUBSET S : \A x \in S \ T : Cardinality(T) + 1 <= Cardinality(S)
<1>1. IsFiniteSet(Sessions \cup Workers)
    BY JobsAssumption, FS_Union
<1>2. IsFiniteSet(S)
    BY <1>1, FS_Subset
<1>3. Cardinality(S) \in Nat /\ (S # {} => 1 <= Cardinality(S))
    <2>1. Cardinality(S) \in Nat
        BY <1>2, FS_CardinalityType
    <2>2. S # {} => Cardinality(S) # 0
        BY <1>2, FS_EmptySet
    <2> QED BY <2>1, <2>2
<1>4. ASSUME NEW T \in SUBSET S PROVE Cardinality(T) <= Cardinality(S)
    BY <1>2, FS_Subset
<1>5. ASSUME NEW T \in SUBSET S, NEW x \in S \ T PROVE Cardinality(T) + 1 <= Cardinality(S)
    <2>1. IsFiniteSet(T)
        BY <1>2, FS_Subset
    <2>2. Cardinality(T \cup {x}) = Cardinality(T) + 1
        BY <2>1, FS_AddElement
    <2>3. T \cup {x} \subseteq S
        OBVIOUS
    <2>4. Cardinality(T \cup {x}) <= Cardinality(S)
        BY <1>2, <2>3, FS_Subset
    <2> QED BY <2>2, <2>4
<1> QED BY <1>2, <1>3, <1>4, <1>5

LEMMA OthersTyped == \A s \in Sessions : Others(s) \in SUBSET (Sessions \cup Workers)
                                         /\ Others(s)' \in SUBSET (Sessions \cup Workers)
BY DEF Others, Behind, Late

\* Whoever is among the others stays there: the count of s may be what it was.
LEMMA CountKept ==
    ASSUME TypeOK, TurnInv, NEW s \in Sessions, passed'[s] = passed[s],
           Behind(s) \subseteq Behind(s)', Late(s) \subseteq Late(s)'
    PROVE  Late(s)' # {} /\ passed'[s] + 1 <= Cardinality(Others(s)')
<1>1. passed[s] \in Nat /\ passed[s] + 1 <= Cardinality(Others(s)) /\ Late(s) # {}
    BY DEF TypeOK, TurnInv
<1>2. Others(s) \subseteq Others(s)'
    BY DEF Others
<1>3. /\ Cardinality(Others(s)) \in Nat /\ Cardinality(Others(s)') \in Nat
      /\ Cardinality(Others(s)) <= Cardinality(Others(s)')
    BY <1>2, OthersTyped, Counts
<1> QED BY <1>1, <1>3

\* One more of the others: the count of s may grow by one.
LEMMA CountGrows ==
    ASSUME TypeOK, TurnInv, NEW s \in Sessions, passed'[s] = passed[s] + 1,
           Behind(s) \subseteq Behind(s)', Late(s) \subseteq Late(s)',
           NEW x \in Others(s)' \ Others(s)
    PROVE  Late(s)' # {} /\ passed'[s] + 1 <= Cardinality(Others(s)')
<1>1. passed[s] \in Nat /\ passed[s] + 1 <= Cardinality(Others(s)) /\ Late(s) # {}
    BY DEF TypeOK, TurnInv
<1>2. Others(s) \subseteq Others(s)'
    BY DEF Others
<1>3. /\ Cardinality(Others(s)) \in Nat /\ Cardinality(Others(s)') \in Nat
      /\ Cardinality(Others(s)) + 1 <= Cardinality(Others(s)')
    BY <1>2, OthersTyped, Counts
<1> QED BY <1>1, <1>3

LEMMA CountStarts ==
    ASSUME NEW s \in Sessions, passed'[s] = 0, Late(s)' # {}
    PROVE  passed'[s] + 1 <= Cardinality(Others(s)')
<1>1. Others(s)' # {}
    BY DEF Others
<1>2. 1 <= Cardinality(Others(s)')
    BY <1>1, OthersTyped, Counts
<1> QED BY <1>2

-----------------------------------------------------------------------------
(* Orders.                                                                 *)

\* The latest time.
LEMMA OrderGrows ==
    ASSUME NEW b, NEW C, NEW w, w \notin C, b \subseteq C \X C, Ordered(b, C)
    PROVE  /\ b \cup (C \X {w}) \subseteq (C \cup {w}) \X (C \cup {w})
           /\ Ordered(b \cup (C \X {w}), C \cup {w})
<1> DEFINE m == b \cup (C \X {w})
<1>1. \A x, y \in C : <<x, y>> \in m <=> <<x, y>> \in b
    OBVIOUS
<1>2. \A x \in C : <<x, w>> \in m /\ <<w, x>> \notin m
    OBVIOUS
<1>3. <<w, w>> \notin m /\ m \subseteq (C \cup {w}) \X (C \cup {w})
    OBVIOUS
<1> HIDE DEF m
<1>4. \A x \in C \cup {w} : <<x, x>> \notin m
    BY <1>1, <1>3 DEF Ordered
<1>5. \A x, y \in C \cup {w} : x # y => (<<x, y>> \in m) # (<<y, x>> \in m)
    <2> SUFFICES ASSUME NEW x \in C \cup {w}, NEW y \in C \cup {w}, x # y
                 PROVE  (<<x, y>> \in m) # (<<y, x>> \in m)
        OBVIOUS
    <2>1. CASE x \in C /\ y \in C
        BY <1>1, <2>1 DEF Ordered
    <2>2. CASE x = w \/ y = w
        BY <1>2, <2>2
    <2> QED BY <2>1, <2>2
<1>6. \A x, y, z \in C \cup {w} : <<x, y>> \in m /\ <<y, z>> \in m => <<x, z>> \in m
    <2> SUFFICES ASSUME NEW x \in C \cup {w}, NEW y \in C \cup {w}, NEW z \in C \cup {w},
                        <<x, y>> \in m, <<y, z>> \in m
                 PROVE  <<x, z>> \in m
        OBVIOUS
    <2>1. x \in C /\ y \in C
        BY <1>2, <1>3
    <2>2. CASE z = w
        BY <1>2, <2>1, <2>2
    <2>3. CASE z \in C
        BY <1>1, <2>1, <2>3 DEF Ordered
    <2> QED BY <2>2, <2>3
<1>7. Ordered(m, C \cup {w})
    BY <1>4, <1>5, <1>6 DEF Ordered
<1> QED BY <1>3, <1>7 DEF m

\* A time is taken out.
LEMMA OrderShrinks ==
    ASSUME NEW b, NEW C, NEW w, b \subseteq C \X C, Ordered(b, C)
    PROVE  LET m == {p \in b : w \notin {p[1], p[2]}}
           IN  m \subseteq (C \ {w}) \X (C \ {w}) /\ Ordered(m, C \ {w})
<1> DEFINE m == {p \in b : w \notin {p[1], p[2]}}
<1>1. \A x, y \in C \ {w} : <<x, y>> \in m <=> <<x, y>> \in b
    OBVIOUS
<1>2. m \subseteq (C \ {w}) \X (C \ {w})
    OBVIOUS
<1> HIDE DEF m
<1>3. Ordered(m, C \ {w})
    BY <1>1 DEF Ordered
<1> QED BY <1>2, <1>3 DEF m

\* The time of w becomes that of s.
LEMMA OrderMarks ==
    ASSUME NEW b, NEW C, NEW w \in C, NEW s \in C \ {w}, Ordered(b, C), NEW m,
           \A x, y \in C \ {w} : <<x, y>> \in m <=>
               <<IF x = s THEN w ELSE x, IF y = s THEN w ELSE y>> \in b
    PROVE  Ordered(m, C \ {w})
<1> DEFINE At(x) == IF x = s THEN w ELSE x
           D == C \ {w}
<1>1. \A x, y \in D : <<x, y>> \in m <=> <<At(x), At(y)>> \in b
    OBVIOUS
<1>2. \A x, y \in D : At(x) \in C /\ (At(x) = At(y) => x = y)
    OBVIOUS
<1> HIDE DEF At, D
<1>3. \A x \in D : <<x, x>> \notin m
    BY <1>1, <1>2 DEF Ordered
<1>4. \A x, y \in D : x # y => (<<x, y>> \in m) # (<<y, x>> \in m)
    <2> SUFFICES ASSUME NEW x \in D, NEW y \in D, x # y
                 PROVE  (<<x, y>> \in m) # (<<y, x>> \in m)
        OBVIOUS
    <2>1. At(x) \in C /\ At(y) \in C /\ At(x) # At(y)
        BY <1>2
    <2>2. (<<At(x), At(y)>> \in b) # (<<At(y), At(x)>> \in b)
        BY <2>1 DEF Ordered
    <2> QED BY <1>1, <2>2
<1>5. \A x, y, z \in D : <<x, y>> \in m /\ <<y, z>> \in m => <<x, z>> \in m
    <2> SUFFICES ASSUME NEW x \in D, NEW y \in D, NEW z \in D,
                        <<x, y>> \in m, <<y, z>> \in m
                 PROVE  <<x, z>> \in m
        OBVIOUS
    <2>1. At(x) \in C /\ At(y) \in C /\ At(z) \in C
        BY <1>2
    <2>2. <<At(x), At(z)>> \in b
        BY <1>1, <2>1 DEF Ordered
    <2> QED BY <1>1, <2>2
<1>6. Ordered(m, D)
    BY <1>3, <1>4, <1>5 DEF Ordered
<1> QED BY <1>6 DEF D

\* What is in the order when one worker begins or leaves its claim.
LEMMA ClockedStep ==
    ASSUME worker \in [Workers -> Claims], NEW w \in Workers, NEW d, Becomes(w, d)
    PROVE  /\ w \notin Sessions
           /\ d.pc \in AtClaim => Clocked' = Clocked \cup {w}
           /\ d.pc \notin AtClaim => Clocked' = Clocked \ {w}
           /\ Timed(w) <=> w \in Clocked
<1>1. w \notin Sessions
    BY JobsAssumption
<1>2. \A v \in Workers : Timed(v)' <=> (IF v = w THEN d.pc \in AtClaim ELSE Timed(v))
    BY DEF Timed, AtClaim, Becomes
<1>3. Clocked' = Sessions \cup {v \in Workers : Timed(v)'}
    BY DEF Clocked
<1> QED BY <1>1, <1>2, <1>3 DEF Clocked

-----------------------------------------------------------------------------
(* The steps.                                                              *)

\* A step that neither begins a claim, nor selects, nor claims, nor leaves one.
LEMMA NoTurnTaken ==
    ASSUME TypeOK, TurnInv, UNCHANGED <<before, passed>>,
           \A w \in Workers : worker[w].pc \in AtClaim \/ worker'[w].pc \in AtClaim =>
               worker'[w] = worker[w]
    PROVE  TurnInv'
<1>1. \A w \in Workers : Timed(w)' <=> Timed(w)
    BY DEF Timed, AtClaim
<1>2. Clocked' = Clocked
    BY <1>1 DEF Clocked
<1>3. InOrder' /\ OneSelects'
    BY <1>2 DEF TurnInv, InOrder, Ordered, OneSelects, AtClaim
<1>4. ASSUME NEW s \in Sessions PROVE Late(s)' # {} /\ passed'[s] + 1 <= Cardinality(Others(s)')
    <2>1. \A r \in Sessions : Chosen(r)' => Chosen(r)
        BY DEF Chosen, AtClaim
    <2>2. Behind(s) \subseteq Behind(s)' /\ Late(s) \subseteq Late(s)'
        BY <1>1, <2>1 DEF Behind, Late
    <2> QED BY <2>2, CountKept
<1> QED BY <1>3, <1>4 DEF TurnInv

LEMMA TimeTurn ==
    ASSUME TypeOK, TurnInv, NEW w \in Workers, TakeTime(w)
    PROVE  TurnInv'
<1> DEFINE d == [worker[w] EXCEPT !.pc = "asking"]
<1>1. worker \in [Workers -> Claims] /\ Becomes(w, d) /\ d.pc = "asking" /\ worker[w].pc = "idle"
    BY Types DEF TakeTime, Becomes, Claims
<1>2. worker'[w].pc = "asking" /\ \A v \in Workers \ {w} : worker'[v] = worker[v]
    BY <1>1 DEF Becomes
<1> HIDE DEF d
<1>3. ~Timed(w) /\ Timed(w)' /\ \A v \in Workers \ {w} : Timed(v)' <=> Timed(v)
    BY <1>1, <1>2 DEF Timed
<1>4. Clocked' = Clocked \cup {w} /\ w \notin Clocked /\ w \notin Sessions
    BY <1>1, <1>3, ClockedStep DEF AtClaim
<1>5. before' = before \cup (Clocked \X {w}) /\ passed' = passed
    BY DEF TakeTime
<1>6. InOrder'
    <2>1. before \subseteq Clocked \X Clocked /\ Ordered(before, Clocked)
        BY DEF TurnInv, InOrder
    <2>2. /\ before' \subseteq (Clocked \cup {w}) \X (Clocked \cup {w})
          /\ Ordered(before', Clocked \cup {w})
        BY <1>4, <1>5, <2>1, OrderGrows
    <2> QED BY <1>4, <2>2 DEF InOrder, Ordered
<1>7. OneSelects'
    BY <1>2 DEF TurnInv, OneSelects
<1>8. ASSUME NEW s \in Sessions PROVE Late(s)' # {} /\ passed'[s] + 1 <= Cardinality(Others(s)')
    <2>1. \A r \in Sessions : Chosen(r)' => Chosen(r)
        BY <1>2 DEF Chosen
    <2>2. Behind(s) \subseteq Behind(s)'
        BY <1>5, <2>1 DEF Behind
    <2>3. ASSUME NEW v \in Late(s) PROVE v \in Late(s)'
        <3>1. <<w, s>> \notin before
            BY <1>4 DEF TurnInv, InOrder
        <3>2. <<v, s>> \in before' => <<v, s>> \in before
            BY <1>4, <1>5
        <3> QED BY <1>3, <2>3, <3>1, <3>2 DEF Late
    <2> QED BY <1>5, <2>2, <2>3, CountKept
<1> QED BY <1>6, <1>7, <1>8 DEF TurnInv

\* A worker that leaves its claim, if it is at one, is in nobody's way.
LEMMA LeaveTurn ==
    ASSUME TypeOK, TurnInv, NEW w \in Workers, Leaves(w), passed' = passed
    PROVE  TurnInv'
<1>1. worker \in [Workers -> Claims] /\ Becomes(w, Idle) /\ Idle.pc = "idle"
    BY Types DEF Leaves, Becomes, Idle
<1>2. worker'[w].pc = "idle" /\ \A v \in Workers \ {w} : worker'[v] = worker[v]
    BY <1>1 DEF Becomes
<1>3. Clocked' = Clocked \ {w} /\ w \notin Sessions
    BY <1>1, ClockedStep DEF AtClaim
<1>4. before' = {p \in before : w \notin {p[1], p[2]}}
    BY DEF Leaves
<1>5. InOrder'
    <2>1. before \subseteq Clocked \X Clocked /\ Ordered(before, Clocked)
        BY DEF TurnInv, InOrder
    <2>2. before' \subseteq (Clocked \ {w}) \X (Clocked \ {w}) /\ Ordered(before', Clocked \ {w})
        BY <1>4, <2>1, OrderShrinks
    <2> QED BY <1>3, <2>2 DEF InOrder, Ordered
<1>6. OneSelects'
    BY <1>2 DEF TurnInv, OneSelects
<1>7. ASSUME NEW s \in Sessions PROVE Late(s)' # {} /\ passed'[s] + 1 <= Cardinality(Others(s)')
    <2>1. \A r \in Sessions : Chosen(r)' => Chosen(r)
        BY <1>2 DEF Chosen
    <2>2. \A r \in Sessions : <<s, r>> \in before => <<s, r>> \in before'
        BY <1>3, <1>4
    <2>3. Behind(s) \subseteq Behind(s)'
        BY <2>1, <2>2 DEF Behind
    <2>4. ASSUME NEW v \in Late(s) PROVE v \in Late(s)'
        <3>1. <<v, s>> \in before' => <<v, s>> \in before
            BY <1>4
        <3>2. Timed(v)' => Timed(v)
            BY <1>2, <2>4 DEF Timed, Late
        <3> QED BY <2>4, <3>1, <3>2 DEF Late
    <2> QED BY <2>3, <2>4, CountKept
<1> QED BY <1>5, <1>6, <1>7 DEF TurnInv

\* Only the first job of a meeting that is not completed can be claimed, so that a
\* meeting of which a job is selected is not selected by anyone else.
LEMMA SelectedAlone ==
    ASSUME StoreInv, NEW s \in Sessions, NEW j \in Evidence(s), Claimable(s, j)
    PROVE  ~Chosen(s)
<1> SUFFICES ASSUME NEW v \in Workers, worker[v].pc = "selecting", worker[v].session = s
             PROVE  FALSE
    BY DEF Chosen
<1> DEFINE i == worker[v].job
<1>1. /\ i \in Evidence(s) /\ PredecessorsDone(s, i)
      /\ jobs[s][i].state \in {"pending", "processing"}
    BY DEF StoreInv, Claimed, ClaimOf, Unclaimed
<1>2. PredecessorsDone(s, j) /\ jobs[s][j].state \in {"pending", "processing"} /\ i # j
    BY DEF Claimable, Free, RowHeld
<1>3. i \in Nat \ {0} /\ j \in Nat \ {0}
    BY <1>1, Types DEF StoreInv, JobsInv
<1> HIDE DEF i
<1>4. i \notin 1 .. j - 1 /\ j \notin 1 .. i - 1
    BY <1>1, <1>2 DEF PredecessorsDone
<1> QED BY <1>2, <1>3, <1>4

\* Whoever waits is not behind the meeting that a worker takes.
LEMMA InTurn ==
    ASSUME NEW w \in Workers, NEW s \in Sessions, NextInTurn(w, s),
           NEW r \in Sessions, Waits(r)
    PROVE  <<r, s>> \notin before
BY DEF NextInTurn, Waits, First

LEMMA SelectTurn ==
    ASSUME StoreInv, TurnInv, NEW w \in Workers, NEW s \in Sessions, NEW j \in Evidence(s),
           SelectJob(w, s, j)
    PROVE  TurnInv'
<1>1. TypeOK /\ worker \in [Workers -> Claims]
    BY Types DEF StoreInv, JobsInv
<1>2. ~Chosen(s)
    BY SelectedAlone DEF SelectJob
<1>3. /\ worker[w].pc = "asking" /\ worker'[w].pc = "selecting" /\ worker'[w].session = s
      /\ \A v \in Workers \ {w} : worker'[v] = worker[v]
    BY <1>1 DEF SelectJob, Idle
<1>4. before' = before /\ passed' = Passing(s, 0) /\ NextInTurn(w, s)
    BY DEF SelectJob
<1>5. \A v \in Workers : Timed(v)' <=> Timed(v)
    BY <1>3 DEF Timed
<1>6. InOrder'
    <2>1. Clocked' = Clocked
        BY <1>5 DEF Clocked
    <2> QED BY <1>4, <2>1 DEF TurnInv, InOrder, Ordered
<1>7. OneSelects'
    BY <1>2, <1>3 DEF TurnInv, OneSelects, Chosen
<1>8. ASSUME NEW r \in Sessions PROVE Late(r)' # {} /\ passed'[r] + 1 <= Cardinality(Others(r)')
    <2>1. Late(r)' = Late(r) /\ Late(r) # {}
        BY <1>4, <1>5 DEF Late, TurnInv
    <2>2. CASE r # s /\ Waits(r)
        <3>1. passed'[r] = passed[r]
            BY <1>1, <1>4, <2>2 DEF Passing, TypeOK
        <3>2. \A q \in Sessions \ {s} : Chosen(q)' => Chosen(q)
            BY <1>3 DEF Chosen
        <3>3. <<r, s>> \notin before
            BY <1>4, <2>2, InTurn
        <3>4. Behind(r) \subseteq Behind(r)'
            BY <1>4, <3>2, <3>3 DEF Behind
        <3> QED BY <1>1, <2>1, <3>1, <3>4, CountKept
    <2>3. CASE ~(r # s /\ Waits(r))
        <3>1. passed'[r] = 0
            BY <1>4, <2>3 DEF Passing
        <3> QED BY <2>1, <3>1, CountStarts
    <2> QED BY <2>2, <2>3
<1> QED BY <1>6, <1>7, <1>8 DEF TurnInv

\* s has the place that w had, and w is at no claim any more.
LEMMA Placed ==
    ASSUME InOrder, worker \in [Workers -> Claims], NEW w \in Workers, NEW d, Becomes(w, d),
           d.pc \notin AtClaim, Timed(w), NEW s \in Sessions, before' = Marked(s, w)
    PROVE  /\ InOrder'
           /\ ~Timed(w)' /\ \A v \in Workers \ {w} : Timed(v)' <=> Timed(v)
           /\ \A q, r \in Sessions \ {s} : <<q, r>> \in before' <=> <<q, r>> \in before
           /\ \A r \in Sessions \ {s} : <<r, s>> \in before' <=> <<w, r>> \notin before
           /\ \A v \in Workers \ {w} : \A r \in Sessions \ {s} :
                  <<v, r>> \in before' => <<v, r>> \in before
<1> DEFINE At(x) == IF x = s THEN w ELSE x
           D == Clocked \ {w}
<1>1. Clocked' = D /\ w \in Clocked /\ w \notin Sessions
    BY ClockedStep
<1>2. Sessions \subseteq D /\ s \in D
    BY <1>1 DEF Clocked
<1>3. before' = {p \in D \X D : <<At(p[1]), At(p[2])>> \in before}
    BY DEF Marked
<1>4. InOrder'
    <2>1. Ordered(before, Clocked)
        BY DEF InOrder
    <2>2. before' \subseteq D \X D
        BY <1>3
    <2>3. \A x, y \in D : <<x, y>> \in before' <=>
              <<IF x = s THEN w ELSE x, IF y = s THEN w ELSE y>> \in before
        BY <1>3
    <2>4. Ordered(before', D)
        BY <1>1, <1>2, <2>1, <2>3, OrderMarks
    <2> QED BY <1>1, <2>2, <2>4 DEF InOrder, Ordered
<1>5. ~Timed(w)' /\ \A v \in Workers \ {w} : Timed(v)' <=> Timed(v)
    BY DEF Timed, Becomes, AtClaim
<1>6. \A q, r \in Sessions \ {s} : <<q, r>> \in before' <=> <<q, r>> \in before
    BY <1>2, <1>3
<1>7. ASSUME NEW r \in Sessions \ {s} PROVE <<r, s>> \in before' <=> <<w, r>> \notin before
    <2>1. <<r, s>> \in before' <=> <<r, w>> \in before
        BY <1>2, <1>3
    <2>2. (<<r, w>> \in before) # (<<w, r>> \in before)
        <3>1. r # w /\ r \in Clocked
            BY <1>1, <1>2
        <3> QED BY <1>1, <3>1 DEF InOrder, Ordered
    <2> QED BY <2>1, <2>2
<1>8. ASSUME NEW v \in Workers \ {w}, NEW r \in Sessions \ {s}, <<v, r>> \in before'
      PROVE  <<v, r>> \in before
    <2>1. v # s
        BY JobsAssumption
    <2> QED BY <1>3, <1>8, <2>1
<1> QED BY <1>4, <1>5, <1>6, <1>7, <1>8

\* A claim counts for those who wait, and it adds one to those who are not in their way:
\* the worker, if it took its time before their place, otherwise the meeting.
LEMMA TurnTaken ==
    ASSUME TypeOK, TurnInv, NEW w \in Workers, NEW d, Becomes(w, d), d.pc = "claimed",
           Timed(w), NEW s \in Sessions, before' = Marked(s, w), passed' = Passing(s, 1),
           Chosen(s) \/ NextInTurn(w, s), ~Chosen(s)'
    PROVE  TurnInv'
<1>1. worker \in [Workers -> Claims] /\ InOrder /\ d.pc \notin AtClaim
    BY Types DEF TurnInv, AtClaim
<1>2. worker'[w].pc = "claimed" /\ \A v \in Workers \ {w} : worker'[v] = worker[v]
    BY <1>1 DEF Becomes
<1>3. /\ InOrder'
      /\ ~Timed(w)' /\ \A v \in Workers \ {w} : Timed(v)' <=> Timed(v)
      /\ \A q, r \in Sessions \ {s} : <<q, r>> \in before' <=> <<q, r>> \in before
      /\ \A r \in Sessions \ {s} : <<r, s>> \in before' <=> <<w, r>> \notin before
      /\ \A v \in Workers \ {w} : \A r \in Sessions \ {s} :
             <<v, r>> \in before' => <<v, r>> \in before
    BY <1>1, Placed
<1>4. OneSelects'
    BY <1>2 DEF TurnInv, OneSelects
<1>5. \A r \in Sessions : Chosen(r)' => Chosen(r)
    BY <1>2 DEF Chosen
<1>6. ASSUME NEW r \in Sessions PROVE Late(r)' # {} /\ passed'[r] + 1 <= Cardinality(Others(r)')
    <2>1. w \in Late(r)'
        BY <1>3 DEF Late
    <2>2. CASE r # s /\ Waits(r)
        <3>1. passed'[r] = passed[r] + 1
            BY <2>2 DEF Passing
        <3>2. s \notin Others(r)
            <4>1. s \notin Workers
                BY JobsAssumption
            <4>2. CASE Chosen(s)
                BY <4>1, <4>2 DEF Others, Behind, Late
            <4>3. CASE NextInTurn(w, s)
                <5>1. <<r, s>> \notin before
                    BY <2>2, <4>3, InTurn
                <5> QED BY <4>1, <5>1 DEF Others, Behind, Late
            <4> QED BY <4>2, <4>3
        <3>3. Behind(r) \subseteq Behind(r)'
            <4> SUFFICES ASSUME NEW q \in Behind(r) PROVE q \in Behind(r)'
                OBVIOUS
            <4>1. q \in Sessions \ {s, r} /\ <<r, q>> \in before /\ ~Chosen(q)
                BY <3>2 DEF Behind, Others
            <4> QED BY <1>3, <1>5, <2>2, <4>1 DEF Behind
        <3>4. Late(r) \subseteq Late(r)'
            <4> SUFFICES ASSUME NEW v \in Late(r) PROVE v \in Late(r)'
                OBVIOUS
            <4> QED BY <1>3, <2>1, <2>2 DEF Late
        <3>5. CASE <<w, r>> \in before
            <4>1. w \notin Others(r)
                BY <3>5, JobsAssumption DEF Others, Behind, Late
            <4>2. w \in Others(r)' \ Others(r)
                BY <2>1, <4>1 DEF Others
            <4> QED BY <3>1, <3>3, <3>4, <4>2, CountGrows
        <3>6. CASE <<w, r>> \notin before
            <4>1. s \in Behind(r)'
                BY <1>3, <2>2, <3>6 DEF Behind
            <4>2. s \in Others(r)' \ Others(r)
                BY <3>2, <4>1 DEF Others
            <4> QED BY <3>1, <3>3, <3>4, <4>2, CountGrows
        <3> QED BY <3>5, <3>6
    <2>3. CASE ~(r # s /\ Waits(r))
        <3>1. passed'[r] = 0
            BY <2>3 DEF Passing
        <3> QED BY <2>1, <3>1, CountStarts
    <2> QED BY <2>2, <2>3
<1> QED BY <1>3, <1>4, <1>6 DEF TurnInv

LEMMA ClaimTurn ==
    ASSUME StoreInv, TurnInv, NEW w \in Workers,
           \/ ClaimJob(w)
           \/ NoLockWaits /\ \E s \in Sessions : \E j \in Evidence(s) : Claim(w, s, j)
    PROVE  TurnInv'
<1>1. TypeOK /\ worker \in [Workers -> Claims]
    BY Types DEF StoreInv, JobsInv
<1>2. CASE ClaimJob(w)
    <2>1. worker[w].pc = "selecting" /\ worker[w].session \in Sessions
        BY <1>2 DEF ClaimJob, StoreInv, Claimed, ClaimOf, Unclaimed
    <2>2. PICK s \in Sessions : s = worker[w].session
        BY <2>1
    <2>3. before' = Marked(s, w) /\ passed' = Passing(s, 1)
        BY <1>2, <2>2 DEF ClaimJob
    <2>4. PICK d : d = [worker[w] EXCEPT !.pc = "claimed"]
        OBVIOUS
    <2>5. Becomes(w, d) /\ d.pc = "claimed"
        BY <1>1, <1>2, <2>4 DEF ClaimJob, Claims, Becomes
    <2>6. worker'[w].pc = "claimed" /\ \A v \in Workers \ {w} : worker'[v] = worker[v]
        BY <1>1, <2>5 DEF Becomes
    <2>7. Chosen(s) /\ Timed(w)
        BY <2>1, <2>2 DEF Chosen, Timed
    <2>8. ASSUME NEW v \in Workers, worker'[v].pc = "selecting"
          PROVE  worker'[v].session # s
        BY <2>1, <2>2, <2>6, <2>8 DEF TurnInv, OneSelects
    <2>9. ~Chosen(s)'
        BY <2>8 DEF Chosen
    <2> QED BY <1>1, <2>3, <2>5, <2>7, <2>9, TurnTaken
<1>3. ASSUME NoLockWaits, NEW s \in Sessions, NEW j \in Evidence(s), Claim(w, s, j)
      PROVE  TurnInv'
    <2>1. PICK d : d = [Idle EXCEPT !.pc = "claimed", !.session = s, !.job = j,
                            !.attempt = jobs[s][j].attempt + 1, !.start = Revision(s)]
        OBVIOUS
    <2>2. Becomes(w, d) /\ d.pc = "claimed"
        BY <1>3, <2>1 DEF Claim, Becomes, Idle
    <2>3. worker'[w].pc = "claimed" /\ \A v \in Workers \ {w} : worker'[v] = worker[v]
        BY <1>1, <2>2 DEF Becomes
    <2>4. \A v \in Workers : worker'[v].pc # "selecting"
        BY <1>3, <2>3 DEF NoLockWaits
    <2>5. /\ before' = Marked(s, w) /\ passed' = Passing(s, 1)
          /\ NextInTurn(w, s) /\ Timed(w)
        BY <1>3 DEF Claim, Timed
    <2>6. ~Chosen(s)'
        BY <2>4 DEF Chosen
    <2> QED BY <1>1, <2>2, <2>5, <2>6, TurnTaken
<1> QED BY <1>2, <1>3

\* Whoever is not at a claim does not come to it by a step of its own.
LEMMA NotAtClaim ==
    ASSUME worker \in [Workers -> Claims], NEW w \in Workers, worker[w].pc \notin AtClaim,
           NEW d, Becomes(w, d), d.pc \notin AtClaim
    PROVE  \A v \in Workers : worker[v].pc \in AtClaim \/ worker'[v].pc \in AtClaim =>
               worker'[v] = worker[v]
BY DEF Becomes

\* A step of a worker that is not at a claim: whatever becomes of it, it is not at one.
LEMMA WorkerKeepsTurns ==
    ASSUME worker \in [Workers -> Claims], NEW w \in Workers,
           \/ Replay(w) \/ Analyze(w) \/ LockSession(w) \/ RefuseResult(w)
           \/ AbortSettle(w) \/ AnalyzerError(w) \/ RenewFails(w)
           \/ ResultRefused(w) \/ RolledBack(w)
           \/ (\E n \in 0 .. MaxBatch : AcceptResult(w, n) \/ AcceptJobResult(w, n))
           \/ FailJob(w) \/ RecordFailure(w) \/ RenewLease(w) \/ Renew(w)
    PROVE  /\ UNCHANGED <<before, passed>>
           /\ \A v \in Workers : worker[v].pc \in AtClaim \/ worker'[v].pc \in AtClaim =>
                  worker'[v] = worker[v]
<1> DEFINE c == worker[w]
           Moved == \A v \in Workers : worker[v].pc \in AtClaim \/ worker'[v].pc \in AtClaim =>
                        worker'[v] = worker[v]
<1>1. c \in Claims /\ Idle.pc \notin AtClaim
    BY DEF Idle, AtClaim
<1>2. UNCHANGED <<before, passed>> /\ c.pc \notin AtClaim
    BY DEF Replay, Analyze, LockSession, RefuseResult, AbortSettle, AtJob, Holding, turn, AtClaim,
           AnalyzerError, RenewFails, ResultRefused, RolledBack, AcceptResult, AcceptJobResult,
           FailJob, RecordFailure, RenewLease, Renew
<1>3. ASSUME Becomes(w, Idle)
      PROVE  Moved
    BY <1>1, <1>2, <1>3, NotAtClaim
<1>4. ASSUME NEW pc \in Stages \ AtClaim, Becomes(w, [c EXCEPT !.pc = pc])
      PROVE  Moved
    <2> DEFINE d == [c EXCEPT !.pc = pc]
    <2>1. d.pc \notin AtClaim /\ Becomes(w, d)
        BY <1>1, <1>4 DEF Claims
    <2> HIDE DEF d
    <2> QED BY <1>2, <2>1, NotAtClaim
<1>5. ASSUME Becomes(w, [c EXCEPT !.lost = TRUE])
      PROVE  Moved
    <2> DEFINE d == [c EXCEPT !.lost = TRUE]
    <2>1. d.pc \notin AtClaim /\ Becomes(w, d)
        BY <1>1, <1>2, <1>5 DEF Claims
    <2> HIDE DEF d
    <2> QED BY <1>2, <2>1, NotAtClaim
<1>6. CASE (\E n \in 0 .. MaxBatch : AcceptResult(w, n)
               \/ AcceptJobResult(w, n)) \/ FailJob(w) \/ RecordFailure(w)
    <2>1. Becomes(w, Idle)
        <3>1. ASSUME NEW n \in 0 .. MaxBatch, AcceptResult(w, n) \/ AcceptJobResult(w, n)
              PROVE  Becomes(w, Idle)
            BY <3>1 DEF AcceptResult, AcceptJobResult, Becomes
        <3>2. CASE FailJob(w) \/ RecordFailure(w)
            BY <3>2 DEF FailJob, RecordFailure, Becomes
        <3> QED BY <1>6, <3>1, <3>2
    <2> QED BY <1>2, <1>3, <2>1
<1>7. {"failing", "analyzed", "accepting", "recording"} \subseteq Stages \ AtClaim
    BY DEF Stages, Holding, AtClaim
<1>8. CASE Replay(w)
    <2> DEFINE d == [c EXCEPT
                   !.pc = IF Replayed(c.session) = c.start THEN "analyzing" ELSE "failing",
                   !.seen = Replayed(c.session)]
    <2>1. d.pc \notin AtClaim /\ Becomes(w, d)
        BY <1>1, <1>8 DEF Replay, Claims, Becomes, AtClaim
    <2> HIDE DEF d
    <2> QED BY <1>2, <2>1, NotAtClaim
<1>9. CASE Analyze(w)
    <2>1. Becomes(w, [c EXCEPT !.pc = "analyzed"]) \/ Becomes(w, [c EXCEPT !.pc = "failing"])
        BY <1>9 DEF Analyze, Becomes
    <2> QED BY <1>2, <1>4, <1>7, <2>1
<1>10. CASE AnalyzerError(w)
    <2>1. Becomes(w, [c EXCEPT !.pc = "failing"])
        BY <1>10 DEF AnalyzerError, Becomes
    <2> QED BY <1>2, <1>4, <1>7, <2>1
<1>11. CASE LockSession(w)
    <2>1. \/ Becomes(w, Idle) \/ Becomes(w, [c EXCEPT !.pc = "accepting"])
          \/ Becomes(w, [c EXCEPT !.pc = "failing"]) \/ Becomes(w, [c EXCEPT !.pc = "recording"])
        BY <1>11 DEF LockSession, Becomes
    <2> QED BY <1>2, <1>3, <1>4, <1>7, <2>1
<1>12. CASE RefuseResult(w) \/ ResultRefused(w) \/ RolledBack(w) \/ AbortSettle(w)
    <2>1. Becomes(w, Idle) \/ Becomes(w, [c EXCEPT !.pc = "failing"])
        BY <1>12 DEF RefuseResult, ResultRefused, RolledBack, AbortSettle, Becomes
    <2> QED BY <1>2, <1>3, <1>4, <1>7, <2>1
<1>13. CASE RenewFails(w)
    <2>1. Becomes(w, [c EXCEPT !.lost = TRUE])
        BY <1>13 DEF RenewFails, Becomes
    <2> QED BY <1>2, <1>5, <2>1
<1>14. CASE RenewLease(w) \/ Renew(w)
    <2>1. UNCHANGED worker \/ Becomes(w, [c EXCEPT !.lost = TRUE])
        BY <1>14 DEF RenewLease, Renew, Becomes
    <2> QED BY <1>2, <1>5, <2>1
<1> QED BY <1>2, <1>6, <1>8, <1>9, <1>10, <1>11, <1>12, <1>13, <1>14

LEMMA WorkerTurns ==
    ASSUME StoreInv, TurnInv, NEW w \in Workers,
           \/ WorkerStep(w) \/ RenewLease(w) \/ Fault(w)
           \/ NoLockWaits /\ \E s \in Sessions : \E j \in Evidence(s) : Claim(w, s, j)
           \/ TakeTime(w) \/ FindNothing(w) \/ Renew(w) \/ Replay(w) \/ Analyze(w)
           \/ \E n \in 0 .. MaxBatch : AcceptJobResult(w, n)
           \/ ResultRefused(w) \/ RolledBack(w) \/ RecordFailure(w)
    PROVE  TurnInv'
<1>1. TypeOK /\ worker \in [Workers -> Claims]
    BY Types DEF StoreInv, JobsInv
<1>2. CASE \E s \in Sessions : \E j \in Evidence(s) : SelectJob(w, s, j)
    BY <1>2, SelectTurn
<1>3. CASE \/ ClaimJob(w)
           \/ NoLockWaits /\ \E s \in Sessions : \E j \in Evidence(s) : Claim(w, s, j)
    BY <1>3, ClaimTurn
<1>4. CASE \/ Replay(w) \/ Analyze(w) \/ LockSession(w) \/ RefuseResult(w)
           \/ AbortSettle(w) \/ AnalyzerError(w) \/ RenewFails(w)
           \/ ResultRefused(w) \/ RolledBack(w)
           \/ (\E n \in 0 .. MaxBatch : AcceptResult(w, n) \/ AcceptJobResult(w, n))
           \/ FailJob(w) \/ RecordFailure(w) \/ RenewLease(w) \/ Renew(w)
    <2>1. /\ UNCHANGED <<before, passed>>
          /\ \A v \in Workers : worker[v].pc \in AtClaim \/ worker'[v].pc \in AtClaim =>
                 worker'[v] = worker[v]
        BY <1>1, <1>4, WorkerKeepsTurns
    <2> QED BY <1>1, <2>1, NoTurnTaken
<1>5. CASE TakeTime(w)
    BY <1>1, <1>5, TimeTurn
<1>6. CASE AbortClaim(w) \/ FindNothing(w) \/ Crash(w)
    <2>1. Leaves(w) /\ passed' = passed
        BY <1>6 DEF AbortClaim, FindNothing, Crash
    <2> QED BY <1>1, <2>1, LeaveTurn
<1> QED BY <1>2, <1>3, <1>4, <1>5, <1>6 DEF WorkerStep, Fault

LEMMA MeetingTurns ==
    ASSUME StoreInv, TurnInv, NEW s \in Sessions,
           \/ SessionStep(s) \/ AcceptNextFinal(s) \/ AudioIsLost(s)
           \/ \E by \in {"human", "system"} : AppendEvents(s, by)
           \/ FinalizeSession(s, Incomplete(s))
           \/ \E j \in Evidence(s) : LeaseExpires(s, j) \/ RetryFailed(s, j)
    PROVE  TurnInv'
<1>1. UNCHANGED <<before, passed, worker>>
    BY DEF turn, SessionStep, TrackItem, LoseAudio, AcceptFinal, AcceptSequencedFinal, AppendHuman,
           RequestFinalizing, DeadlinePasses, CompleteDrain, LeaseExpires, RetryJob,
           AcceptNextFinal, AudioIsLost, AppendEvents, FinalizeSession, RetryFailed
<1>2. TypeOK
    BY DEF StoreInv, JobsInv
<1> QED BY <1>1, <1>2, NoTurnTaken

LEMMA TurnsStart == ASSUME Init PROVE TurnInv
<1>1. /\ \A w \in Workers : worker[w].pc = "idle" /\ ~Timed(w)
      /\ before \in SUBSET (Sessions \X Sessions) /\ Ordered(before, Sessions)
    BY DEF Init, Idle, Timed
<1>2. Clocked = Sessions
    BY <1>1 DEF Clocked
<1>3. InOrder /\ OneSelects
    BY <1>1, <1>2 DEF InOrder, OneSelects
<1>4. ASSUME NEW s \in Sessions PROVE Late(s) # {} /\ passed[s] + 1 <= Cardinality(Others(s))
    <2>1. passed[s] = 0
        BY DEF Init
    <2>2. Late(s) = Workers /\ Workers # {}
        BY <1>1, JobsAssumption DEF Late
    <2>3. Others(s) # {}
        BY <2>2 DEF Others
    <2>4. 1 <= Cardinality(Others(s))
        BY <2>3, OthersTyped, Counts
    <2> QED BY <2>1, <2>2, <2>4
<1> QED BY <1>3, <1>4 DEF TurnInv

\* The order of the claims and the counts, behind whichever store the service runs on.
THEOREM StoreKeepsTurns == StoreSpec => []TurnInv
<1>1. ContractInit => TurnInv
    BY TurnsStart DEF ContractInit
<1>2. BothStoresInv /\ TurnInv /\ [StoreNext]_storeVars => TurnInv'
    <2> SUFFICES ASSUME BothStoresInv, TurnInv, [StoreNext]_storeVars PROVE TurnInv'
        OBVIOUS
    <2>1. StoreInv
        BY DEF BothStoresInv
    <2>2. CASE backend = "postgres" /\ Next /\ UNCHANGED backend
        BY <2>1, <2>2, WorkerTurns, MeetingTurns DEF Next
    <2>3. CASE backend = "sqlite" /\ ContractNext /\ UNCHANGED backend
        <3>1. NoLockWaits
            BY <2>3 DEF BothStoresInv
        <3> QED BY <2>1, <2>3, <3>1, WorkerTurns, MeetingTurns DEF ContractNext
    <2>4. CASE UNCHANGED storeVars
        <3>1. TypeOK /\ UNCHANGED <<before, passed, worker>>
            BY <2>1, <2>4 DEF StoreInv, JobsInv, storeVars, vars, turn
        <3> QED BY <3>1, NoTurnTaken
    <2> QED BY <2>2, <2>3, <2>4 DEF StoreNext
<1> QED BY <1>1, <1>2, StoreKeepsInv, PTL DEF StoreSpec

\* NoSessionPassedOver: while a meeting waits with a job nobody has selected, the others are
\* claimed no more often than there are other meetings and other workers.  Meetings are
\* marked with the time a claim took before its transaction, so that a slow claim leaves its
\* meeting before those that were claimed meanwhile; for any number of meetings and workers
\* whose clock does not go back, whatever crashes or deadlocks, and on both stores.
THEOREM MeetingsTakeTurns == StoreSpec => []NoSessionPassedOver
<1>1. TypeOK /\ TurnInv => NoSessionPassedOver
    <2> SUFFICES ASSUME TypeOK, TurnInv, NEW s \in Sessions
                 PROVE  passed[s] <= Cardinality(Sessions) + Cardinality(Workers) - 2
        BY DEF NoSessionPassedOver
    <2> DEFINE all == (Sessions \ {s}) \cup Workers
    <2>1. passed[s] \in Nat /\ passed[s] + 1 <= Cardinality(Others(s))
        BY DEF TypeOK, TurnInv
    <2>2. Cardinality(Others(s)) <= Cardinality(all) /\ Cardinality(Others(s)) \in Nat
        <3>1. Others(s) \in SUBSET all /\ all \in SUBSET (Sessions \cup Workers)
            BY DEF Others, Behind, Late
        <3> HIDE DEF all
        <3> QED BY <3>1, Counts
    <2>3. /\ IsFiniteSet(Sessions \ {s})
          /\ Cardinality(Sessions \ {s}) = Cardinality(Sessions) - 1
        BY JobsAssumption, FS_RemoveElement
    <2>4. (Sessions \ {s}) \cap Workers = {} /\ Cardinality({}) = 0
        BY JobsAssumption, FS_EmptySet
    <2>5. Cardinality(all) = Cardinality(Sessions) - 1 + Cardinality(Workers) - 0
        BY <2>3, <2>4, JobsAssumption, FS_Union
    <2>6. Cardinality(Sessions) \in Nat /\ Cardinality(Workers) \in Nat
        BY JobsAssumption, FS_CardinalityType
    <2> HIDE DEF all
    <2> QED BY <2>1, <2>2, <2>5, <2>6
<1>2. BothStoresInv => TypeOK
    BY DEF BothStoresInv, StoreInv, JobsInv
<1> QED BY <1>1, <1>2, StoreKeepsInv, StoreKeepsTurns, PTL

-----------------------------------------------------------------------------
(* The refinement: on either store the service's first state is an initial *)
(* state of MeetingRecord, and every step of it is a step of the record or *)
(* changes nothing of what the record sees.                                *)

RecordStep == [Record!Next]_(Record!recordVars)

Seen == <<Heard, Missing, Analysed, Authors, closed, state>>

LEMMA Unseen == ASSUME UNCHANGED Seen PROVE RecordStep
BY DEF RecordStep, Seen, Record!recordVars

\* What the record sees has its types.
LEMMA SeenTypes ==
    ASSUME TypeOK
    PROVE  /\ Heard \in [Sessions -> Nat]
           /\ Analysed \in [Sessions -> SUBSET Nat]
           /\ DOMAIN Missing = Sessions /\ DOMAIN Authors = Sessions
           /\ \A s \in Sessions : Heard[s] = Len(jobs[s]) /\ Evidence(s) = 1 .. Heard[s]
BY Types DEF Heard, Analysed, Missing, Authors, Evidence

-----------------------------------------------------------------------------
(* Rows, and what is written.                                              *)

\* A row that stays completed, or stays not completed, is not seen.
LEMMA RowUnseen ==
    ASSUME TypeOK, NEW s \in Sessions, NEW j \in Evidence(s), NEW r \in Row, Rewrites(s, j, r)
    PROVE  /\ Heard' = Heard
           /\ (r.state = "completed") = (jobs[s][j].state = "completed") => Analysed' = Analysed
           /\ r.state = "completed" => Analysed' = [Analysed EXCEPT ![s] = Analysed[s] \cup {j}]
<1>1. /\ \A t \in Sessions : Len(jobs'[t]) = Len(jobs[t]) /\ Evidence(t)' = Evidence(t)
      /\ jobs'[s][j] = r
      /\ \A t \in Sessions : \A i \in Evidence(t) :
             <<t, i>> # <<s, j>> => jobs'[t][i] = jobs[t][i]
    BY OneRow
<1>2. Heard' = Heard
    BY <1>1 DEF Heard
<1> DEFINE Done(t) == {i \in Evidence(t) : jobs[t][i].state = "completed"}
<1>3. Analysed = [t \in Sessions |-> Done(t)] /\ Analysed' = [t \in Sessions |-> Done(t)']
    BY DEF Analysed
<1>4. ASSUME (r.state = "completed") = (jobs[s][j].state = "completed"), NEW t \in Sessions
      PROVE  Done(t)' = Done(t)
    BY <1>1, <1>4
<1>5. ASSUME r.state = "completed", NEW t \in Sessions
      PROVE  Done(t)' = IF t = s THEN Done(s) \cup {j} ELSE Done(t)
    BY <1>1, <1>5
<1> HIDE DEF Done
<1>6. (r.state = "completed") = (jobs[s][j].state = "completed") => Analysed' = Analysed
    BY <1>3, <1>4
<1>7. r.state = "completed" => Analysed' = [Analysed EXCEPT ![s] = Analysed[s] \cup {j}]
    BY <1>3, <1>5
<1> QED BY <1>2, <1>6, <1>7

Signatures == [by : {"human", "system", "analyzer"}, job : Nat]

\* A function on the first n numbers is a sequence of that length.
LEMMA Sequences ==
    \A S, f : \A n \in Nat : f \in [1 .. n -> S] => f \in Seq(S) /\ Len(f) = n
OBVIOUS

LEMMA Joined ==
    ASSUME NEW S, NEW x \in Seq(S), NEW y \in Seq(S)
    PROVE  x \o y = [i \in 1 .. Len(x) + Len(y) |-> IF i <= Len(x) THEN x[i] ELSE y[i - Len(x)]]
<1>1. /\ x \o y \in Seq(S) /\ Len(x \o y) = Len(x) + Len(y)
      /\ \A i \in 1 .. Len(x) + Len(y) :
             (x \o y)[i] = IF i <= Len(x) THEN x[i] ELSE y[i - Len(x)]
    BY ConcatProperties
<1>2. \A z \in Seq(S) : z = [i \in 1 .. Len(z) |-> z[i]]
    OBVIOUS
<1>3. x \o y = [i \in 1 .. Len(x) + Len(y) |-> (x \o y)[i]]
    BY <1>1, <1>2, Zenon
<1>4. [i \in 1 .. Len(x) + Len(y) |-> (x \o y)[i]]
        = [i \in 1 .. Len(x) + Len(y) |-> IF i <= Len(x) THEN x[i] ELSE y[i - Len(x)]]
    BY <1>1
<1> QED BY <1>3, <1>4, Zenon

\* The authors of what is written follow those of what was there.
LEMMA AuthorsWritten ==
    ASSUME TypeOK, NEW s \in Sessions, NEW es \in Seq(Events), Write(s, es)
    PROVE  Authors' = [Authors EXCEPT ![s] =
               Authors[s] \o [i \in 1 .. Len(es) |-> Author(es[i])]]
<1> DEFINE n == Len(stream[s])
           m == Len(es)
           as == [i \in 1 .. m |-> Author(es[i])]
           Names(q) == [i \in DOMAIN q |-> Author(q[i])]
<1>1. /\ stream' \in [Sessions -> Seq(Events)]
      /\ \A t \in Sessions : t # s => stream'[t] = stream[t]
      /\ Len(stream'[s]) = n + m
      /\ \A i \in 1 .. n : stream'[s][i] = stream[s][i]
      /\ \A i \in 1 .. m : stream'[s][n + i] = es[i]
    BY Written
<1>2. n \in Nat /\ m \in Nat /\ stream[s] \in Seq(Events) /\ stream'[s] \in Seq(Events)
    BY <1>1, Types
<1>3. Authors = [t \in Sessions |-> Names(stream[t])]
      /\ Authors' = [t \in Sessions |-> Names(stream'[t])]
    BY DEF Authors
<1>4. Names(stream'[s]) = Names(stream[s]) \o as
    <2> DEFINE x == Names(stream[s])
    <2>1. Names(stream'[s]) = [i \in 1 .. n + m |-> Author(stream'[s][i])]
        BY <1>1, <1>2
    <2>2. x = [i \in 1 .. n |-> Author(stream[s][i])]
        BY <1>2
    <2>3. x \in Seq(Signatures) /\ as \in Seq(Signatures) /\ Len(x) = n /\ Len(as) = m
        <3>1. \A e \in Events : Author(e) \in Signatures
            BY DEF Events, Signatures, Author
        <3>2. \A i \in 1 .. n : stream[s][i] \in Events
            BY <1>2
        <3>3. \A i \in 1 .. m : es[i] \in Events
            BY <1>2
        <3>4. x \in [1 .. n -> Signatures] /\ as \in [1 .. m -> Signatures]
            BY <2>2, <3>1, <3>2, <3>3
        <3> HIDE DEF x, as, n, m
        <3>5. x \in Seq(Signatures) /\ as \in Seq(Signatures)
            BY <1>2, <3>4, Sequences, Zenon
        <3>6. Len(x) = n /\ Len(as) = m
            BY <1>2, <3>4, Sequences, Zenon
        <3> QED BY <3>5, <3>6
    <2>4. x \o as = [i \in 1 .. n + m |-> IF i <= n THEN x[i] ELSE as[i - n]]
        <3> HIDE DEF x, as, n, m
        <3>1. x \o as = [i \in 1 .. Len(x) + Len(as) |->
                            IF i <= Len(x) THEN x[i] ELSE as[i - Len(x)]]
            BY <2>3, Joined, Zenon
        <3> QED BY <2>3, <3>1, Zenon
    <2>5. ASSUME NEW i \in 1 .. n + m
          PROVE  Author(stream'[s][i]) = IF i <= n THEN x[i] ELSE as[i - n]
        <3>1. CASE i <= n
            BY <1>1, <1>2, <2>2, <3>1
        <3>2. CASE i > n
            <4>1. i - n \in 1 .. m /\ n + (i - n) = i
                BY <1>2, <3>2
            <4> QED BY <1>1, <1>2, <3>2, <4>1
        <3> QED BY <1>2, <3>1, <3>2
    <2> HIDE DEF as
    <2>6. [i \in 1 .. n + m |-> Author(stream'[s][i])]
              = [i \in 1 .. n + m |-> IF i <= n THEN x[i] ELSE as[i - n]]
        BY <2>5
    <2> QED BY <2>1, <2>4, <2>6
<1>5. Authors[s] = Names(stream[s])
    BY <1>3
<1> HIDE DEF Names, as
<1>6. \A t \in Sessions : Names(stream'[t]) = IF t = s THEN Authors[s] \o as ELSE Authors[t]
    BY <1>1, <1>3, <1>4, <1>5
<1>7. Authors' = [t \in Sessions |-> IF t = s THEN Authors[s] \o as ELSE Authors[t]]
    BY <1>3, <1>6
<1> QED BY <1>3, <1>7 DEF as

\* One event that a person or the service writes.
LEMMA OneAuthor ==
    ASSUME TypeOK, NEW s \in Sessions, NEW by \in {"human", "system"}, Write(s, <<Event(by)>>)
    PROVE  Authors' = [Authors EXCEPT ![s] = Authors[s] \o <<[by |-> by, job |-> 0]>>]
<1> DEFINE es == <<Event(by)>>
<1>1. es \in Seq(Events) /\ Len(es) = 1
    BY DEF Event, Events
<1>2. [i \in 1 .. Len(es) |-> Author(es[i])] = <<[by |-> by, job |-> 0]>>
    <2>1. [i \in 1 .. 1 |-> Author(es[i])] = <<Author(es[1])>>
        OBVIOUS
    <2>2. Author(es[1]) = [by |-> by, job |-> 0]
        BY DEF Author, Event
    <2> HIDE DEF es
    <2> QED BY <1>1, <2>1, <2>2
<1>3. Write(s, es)
    OBVIOUS
<1> HIDE DEF es
<1> QED BY <1>1, <1>2, <1>3, AuthorsWritten

-----------------------------------------------------------------------------
(* Steps of the meeting.                                                   *)

LEMMA Quiet == ASSUME UNCHANGED <<jobs, stream, items, gap, closed, state>> PROVE RecordStep
<1>1. UNCHANGED Heard /\ UNCHANGED Missing /\ UNCHANGED Analysed /\ UNCHANGED Authors
    BY DEF Heard, Missing, Analysed, Authors, Evidence
<1> QED BY <1>1, Unseen DEF Seen

LEMMA CaptureSeen ==
    ASSUME TypeOK, NEW s \in Sessions,
           TrackItem(s) \/ LoseAudio(s) \/ AudioIsLost(s)
    PROVE  RecordStep
<1>1. state[s] = "open" /\ UNCHANGED <<jobs, stream, closed, state>>
    BY DEF TrackItem, LoseAudio, AudioIsLost, Open, Accepting, sessionVars
<1>2. UNCHANGED Heard /\ UNCHANGED Analysed /\ UNCHANGED Authors
    BY <1>1 DEF Heard, Analysed, Authors, Evidence
<1>3. /\ items \in [Sessions -> Nat] /\ gap \in [Sessions -> BOOLEAN]
    BY JobsAssumption DEF TypeOK
<1>4. Missing' = [Missing EXCEPT ![s] = TRUE]
    <2>1. \A t \in Sessions : (gap[t] \/ items[t] > 0)' =
              IF t = s THEN TRUE ELSE gap[t] \/ items[t] > 0
        <3>1. CASE TrackItem(s)
            <4>1. gap' = gap /\ items[s] \in Nat /\ items'[s] > 0
                BY <1>3, <3>1 DEF TrackItem, sessionVars
            <4>2. \A t \in Sessions : t # s => items'[t] = items[t]
                BY <1>3, <3>1 DEF TrackItem
            <4> QED BY <4>1, <4>2
        <3>2. CASE LoseAudio(s) \/ AudioIsLost(s)
            BY <1>3, <3>2 DEF LoseAudio, AudioIsLost
        <3> QED BY <3>1, <3>2
    <2> QED BY <2>1 DEF Missing
<1>5. Record!Capture(s, TRUE)
    BY <1>1, <1>2, <1>4 DEF Record!Capture, Record!Listen
<1> QED BY <1>5 DEF RecordStep, Record!Next

LEMMA HearingSeen ==
    ASSUME TypeOK, NEW s \in Sessions,
           AcceptFinal(s) \/ AcceptSequencedFinal(s) \/ AcceptNextFinal(s)
    PROVE  RecordStep
<1>1. state[s] = "open" /\ jobs' = [jobs EXCEPT ![s] = Append(@, NewJob)]
      /\ UNCHANGED <<stream, gap, closed, state>>
    BY DEF AcceptFinal, AcceptSequencedFinal, AcceptNextFinal, Open, Accepting, sessionVars
<1>2. /\ Evidence(s)' = Evidence(s) \cup {Len(jobs[s]) + 1}
      /\ Len(jobs'[s]) = Len(jobs[s]) + 1
      /\ jobs'[s][Len(jobs[s]) + 1] = NewJob
      /\ \A t \in Sessions : t # s => jobs'[t] = jobs[t]
      /\ \A t \in Sessions : \A i \in Evidence(t) :
             i \in Evidence(t)' /\ jobs'[t][i] = jobs[t][i]
    BY <1>1, RowAdded
<1>3. Heard' = [Heard EXCEPT ![s] = @ + 1] /\ UNCHANGED Authors
    <2>1. \A t \in Sessions : Len(jobs'[t]) = IF t = s THEN Len(jobs[s]) + 1 ELSE Len(jobs[t])
        BY <1>2
    <2>2. Heard' = [Heard EXCEPT ![s] = @ + 1]
        BY <2>1 DEF Heard
    <2> QED BY <1>1, <2>2 DEF Authors
<1>4. UNCHANGED Analysed
    <2> DEFINE Done(t) == {j \in Evidence(t) : jobs[t][j].state = "completed"}
    <2>1. ASSUME NEW t \in Sessions PROVE Done(t)' = Done(t)
        <3>1. CASE t = s
            BY <1>2, <3>1 DEF NewJob
        <3>2. CASE t # s
            BY <1>2, <3>2 DEF Evidence
        <3> QED BY <3>1, <3>2
    <2>2. Analysed = [t \in Sessions |-> Done(t)] /\ Analysed' = [t \in Sessions |-> Done(t)']
        BY DEF Analysed
    <2> HIDE DEF Done
    <2> QED BY <2>1, <2>2
<1>5. items \in [Sessions -> Nat] /\ gap \in [Sessions -> BOOLEAN]
    BY JobsAssumption DEF TypeOK
<1>6. ASSUME NEW t \in Sessions, t # s PROVE items'[t] = items[t]
    BY <1>5, <1>6 DEF AcceptFinal, AcceptSequencedFinal, AcceptNextFinal
<1>7. Missing' = [Missing EXCEPT ![s] = (gap[s] \/ items[s] > 0)']
    BY <1>1, <1>6 DEF Missing
<1>8. (gap[s] \/ items[s] > 0)' \in BOOLEAN
    OBVIOUS
<1>9. \E lost \in BOOLEAN : Record!Hear(s, lost)
    BY <1>1, <1>3, <1>4, <1>7, <1>8 DEF Record!Hear, Record!Listen
<1> QED BY <1>9 DEF RecordStep, Record!Next

LEMMA WritingSeen ==
    ASSUME TypeOK, NEW s \in Sessions,
           \/ AppendHuman(s) \/ RequestFinalizing(s)
           \/ \E by \in {"human", "system"} : AppendEvents(s, by)
    PROVE  RecordStep
<1>1. /\ state[s] = "open" /\ ~closed[s] /\ closed \in [Sessions -> BOOLEAN]
      /\ UNCHANGED <<jobs, gap, items, state>>
    BY DEF AppendHuman, RequestFinalizing, AppendEvents, Open, Accepting, sessionVars, TypeOK
<1>2. UNCHANGED Heard /\ UNCHANGED Analysed /\ UNCHANGED Missing
    BY <1>1 DEF Heard, Analysed, Missing, Evidence
<1>3. ASSUME Write(s, <<Event("human")>>), UNCHANGED closed PROVE RecordStep
    <2>1. Authors' = [Authors EXCEPT ![s] = Authors[s] \o <<Record!Person>>]
        BY <1>3, OneAuthor DEF Record!Person
    <2>2. Record!Correct(s)
        BY <1>1, <1>2, <1>3, <2>1 DEF Record!Correct, Record!Write
    <2> QED BY <2>2 DEF RecordStep, Record!Next
<1>4. ASSUME Write(s, <<Event("system")>>), closed' = [closed EXCEPT ![s] = TRUE] PROVE RecordStep
    <2>1. Authors' = [Authors EXCEPT ![s] = Authors[s] \o <<Record!System>>]
        BY <1>4, OneAuthor DEF Record!System
    <2>2. Record!Close(s)
        BY <1>1, <1>2, <1>4, <2>1 DEF Record!Close, Record!Write
    <2> QED BY <2>2 DEF RecordStep, Record!Next
<1>5. CASE AppendHuman(s)
    BY <1>3, <1>5 DEF AppendHuman, sessionVars
<1>6. CASE RequestFinalizing(s)
    BY <1>4, <1>6 DEF RequestFinalizing
<1>7. CASE AppendEvents(s, "human")
    <2>1. closed' = closed
        BY <1>1, <1>7 DEF AppendEvents, AppendLocked, Event
    <2> QED BY <1>3, <1>7, <2>1 DEF AppendEvents, AppendLocked
<1>8. CASE AppendEvents(s, "system")
    <2>1. closed' = [closed EXCEPT ![s] = TRUE]
        <3>1. closed' = [closed EXCEPT ![s] =
                  @ \/ \E i \in DOMAIN <<Event("system")>> : <<Event("system")>>[i].by = "system"]
            BY <1>8 DEF AppendEvents, AppendLocked
        <3>2. \E i \in DOMAIN <<Event("system")>> : <<Event("system")>>[i].by = "system"
            BY DEF Event
        <3> QED BY <1>1, <3>1, <3>2
    <2> QED BY <1>4, <1>8, <2>1 DEF AppendEvents, AppendLocked
<1> QED BY <1>5, <1>6, <1>7, <1>8

\* A meeting ends as complete only with nothing missing and everything analysed.
LEMMA EndSeen ==
    ASSUME TypeOK, NEW s \in Sessions, state[s] = "open", closed[s], Finalize(s, Incomplete(s)),
           UNCHANGED <<closed, gap, items, jobs>>
    PROVE  RecordStep
<1>1. UNCHANGED Heard /\ UNCHANGED Analysed /\ UNCHANGED Missing
    BY DEF Heard, Analysed, Missing, Evidence
<1>2. Authors' = [Authors EXCEPT ![s] = Authors[s] \o <<Record!System>>]
    BY OneAuthor DEF Finalize, Record!System
<1>3. Incomplete(s) <=> ~Record!Complete(s)
    <2>1. Evidence(s) = 1 .. Heard[s]
        BY SeenTypes
    <2>2. Analysed[s] = {j \in Evidence(s) : jobs[s][j].state = "completed"}
          /\ Missing[s] = (gap[s] \/ items[s] > 0)
        BY DEF Analysed, Missing
    <2>3. Analysed[s] = Evidence(s) <=> Unresolved(s) = {}
        BY <2>2 DEF Unresolved
    <2> QED BY <2>1, <2>2, <2>3 DEF Incomplete, Record!Complete
<1>4. Record!End(s)
    BY <1>1, <1>2, <1>3 DEF Finalize, Record!End, Record!Write
<1> QED BY <1>4 DEF RecordStep, Record!Next

-----------------------------------------------------------------------------
(* Steps of a worker, and of its lease.                                    *)

\* Whatever moves a row that is not completed by it.
LEMMA RowQuiet ==
    ASSUME TypeOK, NEW s \in Sessions, NEW j \in Evidence(s), NEW r \in Row, Rewrites(s, j, r),
           (r.state = "completed") = (jobs[s][j].state = "completed"),
           UNCHANGED <<stream, items, gap, closed, state>>
    PROVE  RecordStep
<1>1. UNCHANGED Heard /\ UNCHANGED Analysed
    BY RowUnseen
<1>2. UNCHANGED Missing /\ UNCHANGED Authors
    BY DEF Missing, Authors
<1> QED BY <1>1, <1>2, Unseen DEF Seen

LEMMA ClaimSeen ==
    ASSUME StoreInv,
           \/ \E w \in Workers : ClaimJob(w) \/ RenewLease(w) \/ Renew(w)
           \/ \E s \in Sessions : \E j \in Evidence(s) :
                  \/ LeaseExpires(s, j) \/ RetryJob(s, j) \/ RetryFailed(s, j)
                  \/ \E w \in Workers : Claim(w, s, j)
    PROVE  RecordStep
<1>1. TypeOK /\ Claimed /\ worker \in [Workers -> Claims]
    BY Types DEF StoreInv, JobsInv
<1>2. ASSUME NEW s \in Sessions, NEW j \in Evidence(s), NEW x \in BOOLEAN,
             jobs' = [jobs EXCEPT ![s][j].expired = x],
             UNCHANGED <<sessionVars, items, stream>>
      PROVE  RecordStep
    <2> DEFINE r == [jobs[s][j] EXCEPT !.expired = x]
    <2>1. r \in Row /\ r.state = jobs[s][j].state
        BY <1>1, Types DEF Row
    <2>2. Rewrites(s, j, r)
        BY <1>2 DEF Rewrites
    <2> HIDE DEF r
    <2> QED BY <1>1, <1>2, <2>1, <2>2, RowQuiet DEF sessionVars
<1>3. ASSUME NEW s \in Sessions, NEW j \in Evidence(s), jobs[s][j].state = "failed",
             jobs' = [jobs EXCEPT ![s][j].state = "pending"],
             UNCHANGED <<sessionVars, items, stream>>
      PROVE  RecordStep
    <2> DEFINE r == [jobs[s][j] EXCEPT !.state = "pending"]
    <2>1. r \in Row /\ r.state = "pending"
        BY <1>1, Types DEF Row, JobStates
    <2>2. Rewrites(s, j, r)
        BY <1>3 DEF Rewrites
    <2> HIDE DEF r
    <2> QED BY <1>1, <1>3, <2>1, <2>2, RowQuiet DEF sessionVars
<1>4. ASSUME NEW s \in Sessions, NEW j \in Evidence(s), NEW a \in Nat, NEW n \in Nat,
             jobs[s][j].state \in {"pending", "processing"},
             Rewrites(s, j, [jobs[s][j] EXCEPT !.state = "processing", !.attempt = a,
                                               !.expired = FALSE, !.start = n]),
             UNCHANGED <<sessionVars, items, stream>>
      PROVE  RecordStep
    <2> DEFINE r == [jobs[s][j] EXCEPT !.state = "processing", !.attempt = a,
                                       !.expired = FALSE, !.start = n]
    <2>1. r \in Row /\ r.state = "processing"
        BY <1>1, Types DEF Row, JobStates
    <2>2. Rewrites(s, j, r)
        BY <1>4
    <2> HIDE DEF r
    <2> QED BY <1>1, <1>4, <2>1, <2>2, RowQuiet DEF sessionVars
<1>5. ASSUME NEW w \in Workers, ClaimJob(w) PROVE RecordStep
    <2> DEFINE c == worker[w]
               s == c.session
               j == c.job
    <2>1. c \in Claims /\ ClaimOf(c) /\ c.pc = "selecting"
        BY <1>1, <1>5 DEF ClaimJob, Claimed
    <2>2. s \in Sessions /\ j \in Evidence(s) /\ c.start \in Nat
          /\ jobs[s][j].state \in {"pending", "processing"}
        BY <2>1 DEF ClaimOf, Claims, Unclaimed
    <2>3. jobs[s][j].attempt + 1 \in Nat
        BY <1>1, <2>2, Types DEF Row
    <2>4. Rewrites(s, j, [jobs[s][j] EXCEPT !.state = "processing",
              !.attempt = jobs[s][j].attempt + 1, !.expired = FALSE, !.start = c.start])
        BY <1>5 DEF ClaimJob, Rewrites
    <2>5. UNCHANGED <<sessionVars, items, stream>>
        BY <1>5 DEF ClaimJob
    <2> QED BY <1>4, <2>2, <2>3, <2>4, <2>5
<1>6. ASSUME NEW w \in Workers, NEW s \in Sessions, NEW j \in Evidence(s), Claim(w, s, j)
      PROVE  RecordStep
    <2>1. jobs[s][j].state \in {"pending", "processing"}
        BY <1>6 DEF Claim, Claimable, Free
    <2>2. jobs[s][j].attempt + 1 \in Nat /\ Revision(s) \in Nat
        BY <1>1, Types DEF Row, Revision
    <2>3. Rewrites(s, j, [jobs[s][j] EXCEPT !.state = "processing",
              !.attempt = jobs[s][j].attempt + 1, !.expired = FALSE, !.start = Revision(s)])
        BY <1>6 DEF Claim, Rewrites
    <2>4. UNCHANGED <<sessionVars, items, stream>>
        BY <1>6 DEF Claim
    <2> QED BY <1>4, <2>1, <2>2, <2>3, <2>4
<1>7. ASSUME NEW w \in Workers, RenewLease(w) \/ Renew(w) PROVE RecordStep
    <2>1. worker[w].session \in Sessions /\ worker[w].job \in Evidence(worker[w].session)
        BY <1>1, <1>7 DEF RenewLease, Renew, Claimed, ClaimOf, Unclaimed
    <2>2. UNCHANGED <<sessionVars, items, stream>>
        BY <1>7 DEF RenewLease, Renew
    <2>3. UNCHANGED jobs
          \/ jobs' = [jobs EXCEPT ![worker[w].session][worker[w].job].expired = FALSE]
        BY <1>7 DEF RenewLease, Renew
    <2> QED BY <1>2, <2>1, <2>2, <2>3, Quiet DEF sessionVars
<1>8. ASSUME NEW s \in Sessions, NEW j \in Evidence(s),
             LeaseExpires(s, j) \/ RetryJob(s, j) \/ RetryFailed(s, j)
      PROVE  RecordStep
    BY <1>2, <1>3, <1>8 DEF LeaseExpires, RetryJob, RetryFailed
<1> QED BY <1>5, <1>6, <1>7, <1>8

\* The result of an utterance enters the record once, after those of all before it.
LEMMA ResultSeen ==
    ASSUME StoreInv, NEW w \in Workers, NEW n \in 0 .. MaxBatch,
           \/ AcceptResult(w, n)
           \/ AcceptJobResult(w, n)
    PROVE  RecordStep
<1> DEFINE c == worker[w]
           s == c.session
           j == c.job
           r == [jobs[s][j] EXCEPT !.state = "completed", !.expired = FALSE, !.settled = c.attempt]
           es == [i \in 1 .. n |-> [by |-> "analyzer", job |-> j, seen |-> c.seen]]
<1>1. TypeOK /\ c \in Claims /\ ClaimOf(c) /\ c.pc \in {"accepting", "analyzed"}
    BY Types DEF StoreInv, JobsInv, Claimed, AcceptResult, AcceptJobResult, AtJob
<1>2. s \in Sessions /\ j \in Evidence(s) /\ j \in Nat /\ PredecessorsDone(s, j)
      /\ c.attempt \in Nat /\ c.seen \in Nat
    BY <1>1 DEF ClaimOf, Claims, Unclaimed
<1>3. state[s] = "open" /\ Owns(w) /\ Settle(w, "completed") /\ Write(s, es)
      /\ UNCHANGED <<state, gap, items>>
    <2>1. CASE AcceptResult(w, n)
        <3>1. c.pc = "accepting" /\ c.pc \in Holding /\ c.pc \notin Unclaimed
            BY <2>1 DEF AcceptResult, AtJob, Holding, Unclaimed
        <3>2. state[s] = "open"
            BY <1>1, <3>1 DEF ClaimOf
        <3> QED BY <2>1, <3>2 DEF AcceptResult, sessionVars
    <2>2. CASE AcceptJobResult(w, n)
        BY <2>2 DEF AcceptJobResult, Accepts, Accepting, AppendLocked
    <2> QED BY <2>1, <2>2
<1>4. UNCHANGED closed
    <2>1. CASE AcceptResult(w, n)
        BY <2>1 DEF AcceptResult, sessionVars
    <2>2. CASE AcceptJobResult(w, n)
        <3>1. closed \in [Sessions -> BOOLEAN]
            BY <1>1 DEF TypeOK
        <3>2. \A i \in DOMAIN es : es[i].by # "system"
            OBVIOUS
        <3>3. closed' = [closed EXCEPT ![s] = @ \/ \E i \in DOMAIN es : es[i].by = "system"]
            BY <2>2 DEF AcceptJobResult, AppendLocked
        <3> HIDE DEF es
        <3> QED BY <1>2, <3>1, <3>2, <3>3
    <2> QED BY <2>1, <2>2
<1>5. jobs[s][j] \in Row /\ jobs[s][j].state # "completed"
    BY <1>1, <1>2, <1>3, Types DEF Owns
<1>6. r \in Row /\ r.state = "completed"
    BY <1>2, <1>5 DEF Row, JobStates
<1>7. Rewrites(s, j, r)
    BY <1>3 DEF Settle, Rewrites
<1>8. n \in Nat /\ es \in Seq(Events) /\ Len(es) = n
    <2>1. n \in Nat
        BY JobsAssumption
    <2>2. [by |-> "analyzer", job |-> j, seen |-> c.seen] \in Events
        BY <1>2 DEF Events
    <2> QED BY <2>1, <2>2
<1>9. [i \in 1 .. Len(es) |-> Author(es[i])] = [i \in 1 .. n |-> Record!Analyzer(j)]
    <2>1. \A i \in 1 .. n : Author(es[i]) = Record!Analyzer(j)
        BY DEF Author, Record!Analyzer
    <2> HIDE DEF es
    <2> QED BY <1>8, <2>1
<1>10. 1 .. j - 1 \subseteq Analysed[s] /\ j \notin Analysed[s] /\ j \in 1 .. Heard[s]
    <2>1. Evidence(s) = 1 .. Heard[s] /\ Heard[s] \in Nat
        BY <1>1, <1>2, SeenTypes
    <2>2. Analysed[s] = {k \in Evidence(s) : jobs[s][k].state = "completed"}
        BY <1>2 DEF Analysed
    <2> HIDE DEF s, j
    <2> QED BY <1>2, <1>5, <2>1, <2>2 DEF PredecessorsDone
<1> HIDE DEF r, es, s, j
<1>11. Heard' = Heard /\ Analysed' = [Analysed EXCEPT ![s] = Analysed[s] \cup {j}]
    BY <1>1, <1>2, <1>6, <1>7, RowUnseen
<1>12. Authors' = [Authors EXCEPT ![s] = Authors[s] \o [i \in 1 .. n |-> Record!Analyzer(j)]]
    BY <1>1, <1>2, <1>3, <1>8, <1>9, AuthorsWritten
<1>13. Missing' = Missing
    BY <1>3 DEF Missing
<1>14. Record!Analyse(s, j, n)
    BY <1>3, <1>4, <1>10, <1>11, <1>12, <1>13 DEF Record!Analyse, Record!Write
<1> QED BY <1>2, <1>10, <1>14 DEF RecordStep, Record!Next

LEMMA FailureSeen ==
    ASSUME StoreInv, NEW w \in Workers, FailJob(w) \/ RecordFailure(w)
    PROVE  RecordStep
<1> DEFINE c == worker[w]
           s == c.session
           j == c.job
           r == [jobs[s][j] EXCEPT !.state = "failed", !.expired = FALSE, !.settled = c.attempt]
<1>1. TypeOK /\ c \in Claims /\ ClaimOf(c) /\ c.pc \notin Unclaimed
    BY Types DEF StoreInv, JobsInv, Claimed, FailJob, RecordFailure, AtJob, Unclaimed
<1>2. s \in Sessions /\ j \in Evidence(s) /\ c.attempt \in Nat
    BY <1>1 DEF ClaimOf, Claims, Unclaimed
<1>3. UNCHANGED <<stream, items, gap, closed, state>>
    BY DEF FailJob, RecordFailure, sessionVars
<1>4. UNCHANGED jobs \/ (Owns(w) /\ Settle(w, "failed"))
    <2>1. CASE Owns(w)
        BY <2>1 DEF FailJob, RecordFailure
    <2>2. CASE ~Owns(w)
        BY <2>2 DEF FailJob, RecordFailure
    <2> QED BY <2>1, <2>2
<1>5. CASE UNCHANGED jobs
    BY <1>3, <1>5, Quiet
<1>6. CASE Owns(w) /\ Settle(w, "failed")
    <2>1. jobs[s][j] \in Row /\ jobs[s][j].state = "processing"
        BY <1>1, <1>2, <1>6, Types DEF Owns
    <2>2. r \in Row /\ r.state = "failed"
        BY <1>2, <2>1 DEF Row, JobStates
    <2>3. Rewrites(s, j, r)
        BY <1>6 DEF Settle, Rewrites
    <2> HIDE DEF r, s, j
    <2> QED BY <1>1, <1>2, <1>3, <2>1, <2>2, <2>3, RowQuiet
<1> QED BY <1>4, <1>5, <1>6

LEMMA MovesSeen ==
    ASSUME NEW w \in Workers,
           \/ TakeTime(w) \/ FindNothing(w) \/ AbortClaim(w) \/ Replay(w) \/ Analyze(w)
           \/ LockSession(w) \/ RefuseResult(w) \/ AbortSettle(w) \/ Fault(w) \/ ResultRefused(w) \/ RolledBack(w)
           \/ \E s \in Sessions : \E j \in Evidence(s) : SelectJob(w, s, j)
           \/ \E s \in Sessions : DeadlinePasses(s)
    PROVE  RecordStep
<1>1. UNCHANGED <<jobs, stream, items, gap, closed, state>>
    BY DEF TakeTime, FindNothing, AbortClaim, Replay, Analyze, LockSession, RefuseResult,
           AbortSettle, Fault,
           AnalyzerError, RenewFails, Crash, ResultRefused, RolledBack, SelectJob,
           DeadlinePasses, sessionVars
<1> QED BY <1>1, Quiet

-----------------------------------------------------------------------------
(* The refinement.                                                         *)

LEMMA StartsSeen == ASSUME Init PROVE Record!Init
<1>1. \A s \in Sessions : jobs[s] = <<>> /\ stream[s] = <<>> /\ items[s] = 0 /\ ~gap[s]
    BY DEF Init
<1>2. Heard = [s \in Sessions |-> 0] /\ Missing = [s \in Sessions |-> FALSE]
    <2>1. \A s \in Sessions : Len(jobs[s]) = 0 /\ (gap[s] \/ items[s] > 0) = FALSE
        BY <1>1
    <2> QED BY <2>1 DEF Heard, Missing
<1>3. Analysed = [s \in Sessions |-> {}]
    BY <1>1 DEF Analysed, Evidence
<1>4. Authors = [s \in Sessions |-> <<>>]
    BY <1>1 DEF Authors
<1> QED BY <1>2, <1>3, <1>4 DEF Init, Record!Init

LEMMA ServiceStepSeen == ASSUME StoreInv, Next PROVE RecordStep
<1>1. TypeOK
    BY DEF StoreInv, JobsInv
<1>2. ASSUME NEW w \in Workers, WorkerStep(w) \/ RenewLease(w) \/ Fault(w) PROVE RecordStep
    <2>1. CASE RenewLease(w) \/ ClaimJob(w)
        BY <2>1, ClaimSeen
    <2>2. CASE \E n \in 0 .. MaxBatch : AcceptResult(w, n)
        BY <2>2, ResultSeen
    <2>3. CASE FailJob(w)
        BY <2>3, FailureSeen
    <2>4. CASE \/ TakeTime(w) \/ FindNothing(w) \/ AbortClaim(w) \/ Replay(w) \/ Analyze(w) \/ LockSession(w)
               \/ RefuseResult(w) \/ AbortSettle(w) \/ Fault(w)
               \/ \E s \in Sessions : \E j \in Evidence(s) : SelectJob(w, s, j)
        BY <2>4, MovesSeen
    <2> QED BY <1>2, <2>1, <2>2, <2>3, <2>4 DEF WorkerStep
<1>3. ASSUME NEW s \in Sessions, SessionStep(s) PROVE RecordStep
    <2>1. CASE TrackItem(s) \/ LoseAudio(s)
        BY <1>1, <2>1, CaptureSeen
    <2>2. CASE AcceptFinal(s) \/ AcceptSequencedFinal(s)
        BY <1>1, <2>2, HearingSeen
    <2>3. CASE AppendHuman(s) \/ RequestFinalizing(s)
        BY <1>1, <2>3, WritingSeen
    <2>4. CASE DeadlinePasses(s)
        <3>1. UNCHANGED <<jobs, stream, items, gap, closed, state>>
            BY <2>4 DEF DeadlinePasses
        <3> QED BY <3>1, Quiet
    <2>5. CASE CompleteDrain(s)
        BY <1>1, <2>5, EndSeen DEF CompleteDrain, Supervised, Open
    <2>6. CASE \E j \in Evidence(s) : LeaseExpires(s, j) \/ RetryJob(s, j)
        BY <2>6, ClaimSeen
    <2> QED BY <1>3, <2>1, <2>2, <2>3, <2>4, <2>5, <2>6 DEF SessionStep
<1> QED BY <1>2, <1>3 DEF Next

LEMMA ContractStepSeen == ASSUME StoreInv, ContractNext PROVE RecordStep
<1>1. TypeOK
    BY DEF StoreInv, JobsInv
<1>2. ASSUME NEW s \in Sessions, NEW by \in {"human", "system"},
             AcceptNextFinal(s) \/ AudioIsLost(s) \/ AppendEvents(s, by)
      PROVE  RecordStep
    BY <1>1, <1>2, HearingSeen, CaptureSeen, WritingSeen
<1>3. ASSUME NEW s \in Sessions, FinalizeSession(s, Incomplete(s)) PROVE RecordStep
    BY <1>1, <1>3, EndSeen DEF FinalizeSession, Accepting
<1>4. ASSUME NEW s \in Sessions, NEW j \in Evidence(s), LeaseExpires(s, j) \/ RetryFailed(s, j)
      PROVE  RecordStep
    BY <1>4, ClaimSeen
<1>5. ASSUME NEW w \in Workers, NEW s \in Sessions, NEW j \in Evidence(s), Claim(w, s, j)
      PROVE  RecordStep
    BY <1>5, ClaimSeen
<1>6. ASSUME NEW w \in Workers, NEW n \in 0 .. MaxBatch, AcceptJobResult(w, n) PROVE RecordStep
    BY <1>6, ResultSeen
<1>7. ASSUME NEW w \in Workers, Renew(w) PROVE RecordStep
    BY <1>7, ClaimSeen
<1>8. ASSUME NEW w \in Workers, RecordFailure(w) PROVE RecordStep
    BY <1>8, FailureSeen
<1>9. ASSUME NEW w \in Workers,
             \/ TakeTime(w) \/ FindNothing(w)
             \/ Replay(w) \/ Analyze(w) \/ Fault(w) \/ ResultRefused(w) \/ RolledBack(w)
      PROVE  RecordStep
    BY <1>9, MovesSeen
<1> QED BY <1>2, <1>3, <1>4, <1>5, <1>6, <1>7, <1>8, <1>9 DEF ContractNext

\* KeepsRecord: on either store, whatever workers crash, leases expire, locks deadlock and
\* finals arrive late, the meeting's record is as MeetingRecord promises: utterances are
\* analysed once and in order, each as one block, corrections end with the intake, an ended
\* meeting never changes, and it is complete only when nothing is missing.
THEOREM ServiceKeepsRecord == StoreSpec => KeepsRecord
<1>1. ContractInit => Record!Init
    BY StartsSeen DEF ContractInit
<1>2. BothStoresInv /\ [StoreNext]_storeVars => [Record!Next]_(Record!recordVars)
    <2> SUFFICES ASSUME BothStoresInv, [StoreNext]_storeVars PROVE RecordStep
        BY DEF RecordStep
    <2>1. StoreInv
        BY DEF BothStoresInv
    <2>2. CASE Next
        BY <2>1, <2>2, ServiceStepSeen
    <2>3. CASE ContractNext
        BY <2>1, <2>3, ContractStepSeen
    <2>4. CASE UNCHANGED storeVars
        BY <2>4, Quiet DEF storeVars, vars, sessionVars
    <2> QED BY <2>2, <2>3, <2>4 DEF StoreNext
<1> QED BY <1>1, <1>2, StoreKeepsInv, PTL DEF StoreSpec, KeepsRecord, Record!Spec
=============================================================================
