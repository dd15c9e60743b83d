# RONRO in TLA+

RONRO listens to a meeting, turns what is said into a *discussion graph* with the
help of a language model, draws that graph while people talk, and lets them correct
it.  This directory holds TLA+ models of the parts of the program that keep state, the
TLC configurations that check them on small instances, and TLAPS proofs of what
holds for every instance.  Every definition is translated from the code;
`PROJECT.json` maps each one to its source lines.

## The system

The program has four layers.

1. **The canonical graph** (`prototype/materializer.py`, `store.py`, `replay.py`,
   `commands.py`).  A meeting is an append-only stream of events.  Replaying the
   stream through the materializer gives the graph: nodes (topics, ideas, options,
   concerns, open items, decisions, actions), relations between them, and the
   current topic.  People issue correction events.
2. **Around the graph**: the analyzer (`analysis_engine.py`), which turns the answer of
   a language model into candidate events, and the views (`layout.py`, `projection.py`,
   `shared_projection.py`, `semantic_projection.py`, `semantic_canvas.py`).
3. **The live pilot** (`live_*.py`, `pilot_audio.py`): one process, one meeting in memory,
   a thread-safe queue with a single analyzer thread, an event loop with the browsers'
   handlers, and a private recording.
4. **The account service** (`postgres_service_store.py`, `service_*.py`, `migrations/`):
   many meetings in PostgreSQL, several workers and supervisors, a WebSocket audio
   gateway, accounts, display credentials, deletion, keys in a registry of their own.
   `service_store.py` is a SQLite store with the same contract for its jobs.

### Components

| Component | State | Operations | Meets the others through | What is hard | What makes it correct |
| --- | --- | --- | --- | --- | --- |
| Materializer, store, replay, commands | graph, event history, session record | one handler per event type; one command per correction | events applied by both runtimes | long sequences of legal corrections; analyzer events built on an older graph; merges | provenance has no circle; a rejection holds; statuses fit kinds; the focus is live; archived nodes stay alone |
| Analyzer | none between calls | answer to candidates, checks, spoken corrections | the hosts that apply its candidates | checks made twice, against two graphs | what it lets through the materializer takes; a person's choice stands |
| Views | places given to cards, slots | projection, layout, canvas repair | read the graph and its history | a view remembers places while revisions are skipped | no two cards on one place; cards that stay, stay in place |
| Analyzer jobs | `service_job` rows, lease, attempt, `graph_revision` | claim, renew, accept result, fail, retry | job and session row locks, the canonical stream | row locks taken in two orders, a revision read without a lock, takeovers, crashes | each utterance analysed at most once, in order, on the graph it was claimed at; stale workers change nothing |
| Drain | `intake_closed`, `drain_deadline_at`, `service_state` | request finalizing, supervise drain, finalize | reads jobs, items and intervals | deadline against late results | ends, "ended" means nothing is missing, frozen afterwards |
| Capture | `capture_state`, generation, version, connection lease, intervals, end intent | request start/pause/resume, acknowledge, acquire/renew/recover lease, frame receipt, discontinuity, request end | gateway and owner requests, finalizing | a stale socket or a late acknowledgement, a stop that never comes | one socket per generation; every possible gap is on record; an end is reached |
| Provider items | `service_provider_item`, `service_evidence`, the client's ledger | commit, completion, accept final, settle a pause | gateway events, jobs | completion before commit, predecessors that never finish, a crash between completion and acceptance | evidence is in spoken order, once; a complete end has heard everything |
| Audio gateway | sockets, tasks | one handler per socket | capture, items, provider | awaits between a check and its use | no frame reaches the provider without a receipt |
| Accounts, access, deletion | accounts, logins, Web Sessions, receipts, display credentials, deletion jobs, keys | log in, open, delete, withdraw, show, revoke; claim, destroy, purge | owner checks of the store, the key registry | two systems; an authentication that is old when used; a claim that runs out | nothing outlives what it belongs to; rows go only after the key; nobody sees another's meeting |
| Live queue and runtime | items, graph | enqueue, claim, complete, fail, retry, close, execute command | runtime lock, queue condition | commands during an analysis; retry of an old item | stale candidates are never committed; every item settles |
| Live session, manager, recording | runtime state, connections, recorder | start, stop, provider failure, interruption, drain, termination | queue, transport, event loop, signal handler | drains at the same time, failures during finalizing, locks let go in between | an ended map is final; losses stay on record; the recording belongs to its meeting |
| Turn ledger, realtime client, capture loop | audio ranges, intents, items | append, request, observe, complete, release, acknowledge | provider messages, transport | completions out of order, two kinds of commits that cross | no audio in two items; finals in spoken order |
| Crypto, rendering, prompts, server, evaluation | none of their own, or pure I/O | – | – | – | – |

The list in `PROJECT.json` names the files of each and says which are modelled.

## Modules

| Module | Models |
| --- | --- |
| `DiscussionGraph` | the materializer and the checks of the command handler |
| `GraphAnalysis` | the analyzer's checks of an answer and the three hosts that apply it; extends `DiscussionGraph` |
| `DiscussionMap` | lanes, shared screen, focused flow, overview and compact map over the graph; extends `DiscussionGraph` |
| `SemanticCanvas` | the canvas: cells, repairs, roots on a spiral |
| `MeetingRecord` | abstract: what the account service promises of a meeting's record |
| `ServiceJobs` | jobs, workers, row locks, leases and the drain on PostgreSQL |
| `ContractStore` | the SQLite store under the same worker; extends `ServiceJobs` |
| `ServiceCapture` | a meeting's audio intake: the owner's pages, the sockets' handlers, the capture rows, the end intent |
| `TurnLedger` | `live_turns.py` as operators on a ledger value |
| `ProviderItems` | provider items from commit to evidence, through the gateway; on `TurnLedger` |
| `ServiceAccount` | logins, accounts, openings, withdrawal, deletion jobs and keys |
| `MeetingAccess` | what owners and screens may do with a meeting; extends `ServiceAccount` |
| `AnalyzerQueue` | abstract: what the live queue promises to the meeting that feeds it |
| `LiveQueue` | the queue, its worker thread and the runtime's lock sections |
| `LiveUtterance` | the one-utterance session, manager and handlers; extends `LiveQueue` |
| `LiveSession` | the continuous session, manager and handlers, with the queue as `AnalyzerQueue` |
| `LiveRecording` | the private recording; extends `LiveSession` |
| `LiveCapture` | one capture: loop, client, ledger, provider; on `TurnLedger` |
| `…Proofs` | theorems about the module of that name (see *Proofs*) |
| `MC…` | symmetry sets and definitions for TLC |

**Composition.**  `ServiceJobs` with `ContractStore` implements `MeetingRecord`
(`KeepsRecord`), `LiveQueue` implements `AnalyzerQueue` (`KeepsQueuePromise`), and
`LiveSession` is built on `AnalyzerQueue`, so what the queue promises is what the
session may rely on.  `LiveRecording`, `LiveUtterance`, `MeetingAccess`,
`GraphAnalysis` and `DiscussionMap` take the actions of the module they extend and say
what they do to their own state; `RecordedMeetingIsAMeeting` proves that the first does
not bend the session.  `ServiceCapture` meets `ServiceJobs` at two points: its
`Finalize` is `RequestFinalizing` there, and its `WithGap` is `LoseAudio`.
`ProviderItems` keeps of the capture its state, generation and lease.  These three share
no variable and are checked apart.

### DiscussionGraph

An action is one accepted event.  A refused event raises before the new state is
returned (`GraphMaterializer.apply` works on a copy), so it is no step.  The
handlers read the event history in three places only, and the model keeps what
those reads return: `rejectedAt` (the watermark of the latest removal of a
relation), `names` (the labels given by `node_detected` and `rename_node`, which
undo scans) and `undoable` (whether the last event is a rename by a person).
A relation is an entry of `edges`, indexed by source, target and type because the
program makes edge ids from just these; its value is the set of the events it
stems from, each reduced to the newest evidence it cites or to `Human`.
`answered` is history for one property.

| Code | Model |
| --- | --- |
| `RELATION_MATRIX` | `RelationMatrix` |
| `_provenance_reaches`, `_has_provenance_cycle` | `Reaches`, `Acyclic` |
| `_validate_envelope`, `apply` | `Accepted` |
| `_relation_detected` | `RelationDetected` with `Joinable`, `NewerThanRejection`, `ClosesCycle` |
| `_correct_relation` | `CorrectRelation` |
| `_merge_nodes`, `_rewire_edges` | `MergeNodes`, `Rewired` |
| `_undo_last_correction` | `UndoLastCorrection`, `PreviousName` |
| each other `_handler` | the action of the same name |

`Reaches` says that every set closed under the arcs that holds the start holds the
goal; it is what the graph search computes, without recursion, so that it can be
proved about.

### GraphAnalysis

The answer of the model is any sequence of intents.  `RealAnalyzer` checks each against
the graph it was given and the candidates before it (`Propose`, `DetectNode`,
`MeetDuplicate`, `DropIntent`); the materializer checks it again when the host applies
it.  `host` chooses at the start who that is: the replay of a transcript goes on after a
refused event, the live runtime and the service worker take all or none.  Applying is
merged with proposing: the graph before the call is kept in `call.base` and restored
when the answer falls.  `SpeakCorrection` and `AskBack` are
`relation_correction.py`, which the live host asks first.

### DiscussionMap and SemanticCanvas

`placed` is what `StableLayout` remembers, `slots` what `SharedProjection` does; the
focused flow, the overview and the compact map are operators, computed from the graph
and from the few reads of the history that `order`, `recent`, `listed`, `turned`,
`corrected`, `scanned` and `bornUnder` stand for.  `ShowMap` may come at any moment, so
revisions are skipped as a client that polls skips them.  `SemanticCanvas` has its own
small state, the relations and their sources, and computes the `world` from it
as `project_semantic_canvas` does: roots on a spiral, children beside or below, repairs in
the order of the relations' events.

### ServiceJobs and ContractStore

`stream[s]` is the canonical stream of a meeting, `Len(stream[s])` its
`graph_revision`.  `jobs[s]` has one job for each piece of evidence, in utterance
order.  `worker[w]` says where a worker is in `process_one`.  Most store methods are
one transaction under the session row's lock and are one action.  Where a
transaction waits for a second row lock, the action is split at the wait:

* `claim_job`: `SelectJob` locks the job row and reads the revision without a
  lock, `ClaimJob` updates job and session, `AbortClaim` is the deadlock
  detector's choice.
* `accept_job_result`, `fail_job`: `LockSession`, then `AcceptResult`,
  `RefuseResult` or `FailJob`, or `AbortSettle` when PostgreSQL aborts this side.

The worker's replay and its analyzer call run outside any lock: `Replay`,
`Analyze`.  `RenewLease` is the heartbeat; one that fails for any reason sets
`lost`, which `before_commit` reads.  `Crash` drops the worker and its locks, and
leaves the claim.  Leases and deadlines pass by `LeaseExpires` and
`DeadlinePasses`, at any moment.  An item is counted from
`record_provider_commit` (or `record_provider_completion`) until it is evidence;
`gap` says that a `capture_unavailable` interval exists.

`claim_job` takes its time before its transaction: `TakeTime`.  By that time it judges
leases, and with it marks the meeting; only the order of such times matters, and `before`
has it, of the meetings' `last_claim_at` and of the claims that go on.  So a slow claim
may leave its meeting before one that was claimed meanwhile, and a lease that ended after
a claim took its time has not ended for that claim (`unseen`).  `FindNothing` is the call
that returns no row.  The order is strict and the clock of all workers is one that does
not go back; a meeting that was never claimed is before all others, in the order of
`session_id`.  `settled` and `passed` are history: the attempt that completed or
failed a job, and the claims made for other meetings while one waits.  A meeting whose
job row is locked by a claim that later crashes or is aborted was not waiting meanwhile
(`SKIP LOCKED` does not see it), so its count starts anew.

`ContractStore` is the store a behaviour runs on, chosen by `backend`.  SQLite writes
under one lock of the database, so every method is one step, and any transaction may
find the database locked for too long.

### MeetingRecord

The service seen from a meeting's record: utterances are heard, analysed in
order and at most once, written as one block; people correct until intake is
closed; an ended meeting is frozen, and "ended" means that nothing is missing.
`Record` maps `ServiceJobs` to it: workers, leases, attempts, locks, faults and retries
are stuttering.

### ServiceCapture

One meeting whose `service_state` is open.  A store method is one transaction
under the session row's lock and one action; the WebSocket handler awaits between
them, so the handlers, the owner's requests and the supervisor interleave freely.
A socket is one connection with an id of its own (`uuid4` in `__call__`) and is used
once; two sockets may be served by two processes, so the in-process set `_occupied`
is left out.

| Code | Model |
| --- | --- |
| `service_session.capture_state`, `capture_generation`, `version` | `capture`, `gen`, `version` |
| `service_capture_connection_lease`, `service_end_intent` | `lease`, `intent` (with `live` and `expired` for their times) |
| `service_capture_interval` | `intervals`; a row keeps its generation, whether it is a pause, a pending resume or another fault, and whether it is open |
| `service_capture_stream` and the provider's turns | `audio`: frames numbered by the browser, frames received, state of the latest audio at the provider |
| where `__call__` stands | `socket[c].pc`; `claimed` and `mic` say whether it ever held the lease and whether its browser may be recording |
| `_mark_capture_discontinuity_locked` | `Fence`, `WithGap`, `Released` |
| `_request_finalizing_locked` | `Finalize` |
| `capture_snapshot`, as a page of the owner reads it | `Look` |
| `request_capture_transition` | `Start`, `Pause`, `Resume` |
| `request_end` | `StageEnd`, `EndNow`, `EndAgain` |
| `complete_end_intent`, `supervise_next_end_intent` | `EndCompletes`, `CompleteEnd`, `SuperviseEnd` |
| `recover_expired_capture_lease`, `acquire_capture_lease` | `RecoverLease`, `Acquire`, `AcquireExpired`, `AcquireRefused` |
| `acknowledge_capture_transition` | `Connected`, `Paused`, `Disconnected` |
| `record_capture_frame_receipt` | `ReceiveFrame`, `ReceiveGap` |
| `record_provider_append_uncertain` | `AppendUncertain` |
| `capture_stream_tail` | `Stop` |
| `__call__`: admission, append, settling, leaving | `Admit`, `Appended`, `TurnSettles`, `PausedThenEnd`, `Leave`, `Crash` |

The browser may speak (`Speak`) from the moment its socket is connected until it
has stopped, whatever became of the handler: this is what makes loss possible.
A turn "settles" when every item of the audio sent so far is completed and
acknowledged; the gateway acknowledges an item of unknown coverage too, so
"settled" means answered for; what an item is, is in `ProviderItems`.  A refused
connection leaves no trace and its socket is new again.
A resume writes a gap row at once (`resume_pending`) that the first frame closes; a
meeting that was ever resumed has such a row and can only end incomplete.

### TurnLedger, ProviderItems and LiveCapture

The ledger is a record with one operator per method of `TurnLedger` (`AppendFrame`,
`request`, `ObserveCommitted`, `reconcile_empty_commit`, `Completed`, `Emitted`,
`acknowledge`), and both hosts use it as the code does.  Audio is counted in frames and all that is known of a frame is
whether it has meaningful sound.  In `LiveCapture` the loop and the reader are tasks of
one event loop that give way where they await, messages to and from the provider
(external) keep their order.  The provider says that speech stopped (`SpeechStops`) and
commits in a message of its own (`VadCommits`), which may be late or never come; until
then it hears on and makes no other commit.  It commits what it is told to and transcribes
its items in any order.  A commit it is told to make after its own has taken that audio is
refused, and the ledger retires the intent if an item owns all its sound: `ReadCommitEmpty`
in `LiveCapture`, `CommitEmpty` in `ProviderItems`.  In `ProviderItems` the three transactions of an event (renew the lease, record the
completion, accept the evidence) are three actions; `pc` of a gateway says between which
two it stands, once for its loop and once for the settling of a pause.

### ServiceAccount and MeetingAccess

A request first authenticates and then acts in another transaction; between the two,
everything else may happen.  The key registry is another system: what is done there is
not undone with a transaction.  `offered` chooses at the start what browsers do: the
operations on accounts, with every fault of the deletion workers, or the operations on
one meeting and its displays, without them.  Both together are past TLC's reach; the
proof has no such split, because every action is there in both.

### LiveQueue, LiveUtterance, LiveSession and LiveRecording

An action is one stretch under the manager's, the session's or the runtime's lock.  In
`LiveQueue` an item is processed in nine stretches, with two copies of the graph and two
reads of its revision.  `mode` of `LiveUtterance` says whether the queue stands alone or
under the one-utterance session, whose manager keeps its lock while a final transcript
waits for its item.  In `LiveSession` `drain[d]` is who is in `drain()`: a handler, an
HTTP request or the signal handler; a drain that is run inline stops the event loop,
which is the guard `LoopRuns`.  `LiveRecording` adds the recorder the manager holds and
the second stretch of `manager.drain()`, which seals whatever recorder is there by then.

## Runs

| Run | Instance | Shows |
| --- | --- | --- |
| `graph_map` | 3 nodes, topics and ideas, 2 relation types, 1 piece of evidence, 6 events; small shared screen, flow and overview | no circle of provenance after any mix of detection, correction and merge; a rejection holds; an archived node gains no relation; a merge loses no source; no two cards on one place, the focused flow hangs together, a full overview leaves nobody out, shared cards stay in their slots |
| `graph_analysis` | 2 nodes of every kind with a life of its own, 2 pieces of evidence, 8 events, answers of 3 intents, 3 hosts | what the analyzer lets through the materializer takes, except a relation of a node to itself; an answer that falls leaves the sound graph it was made for; a person's topic stands; statuses fit kinds and the focus is live |
| `jobs_record` | 2 workers, both stores; 1 meeting with 2 utterances, 2 attempts, 1 fault, 1 correction, deadlines, or 2 meetings of which one has 1 utterance, without faults and corrections (`Small`) | batches follow on their basis; one holder for each attempt and only the last one settles; a waiting meeting is passed no more often than there are other meetings and workers; both stores refine `MeetingRecord` |
| `jobs_drain` | 1 meeting, 2 workers, 2 utterances, 2 attempts, 1 fault, deadlines, PostgreSQL | a closing meeting ends; the next job settles, also when the two workers deadlock |
| `capture_intake` | 2 sockets, 1 page, 2 generations to join, 2 frames each | lost audio has a gap of its generation on record; one holder for each generation; a staged end holds and is reached; a page decides on what is true; closed intake is frozen |
| `provider_items` | 1 connection and the gateway that outlives it, 2 items, 2 frames | rows, evidence and ledger agree; evidence in spoken order; a complete end heard everything, also when the commit of the pause was refused |
| `account_deletion` | 2 people of whom 1 is new, 2 requests, 2 logins, 1 meeting, 1 display credential, 2 deletion workers | accounts, meetings, keys and jobs agree; nobody sees too much; what an owner is told goes one way; a fenced meeting is purged |
| `live_queue` | 3 utterances, 1 retry each, 2 commands, 2 browsers; alone and under the one-utterance session | a batch lands right behind the graph it was made from; a map shown as updated is; items settle and stops end; `LiveAnalyzerRuntime` refines `AnalyzerQueue` |
| `live_session` | 2 meetings, 2 browser connections, 1 utterance and 1 frame each | an ended map is final; losses and failures stay on record |
| `live_ends` | 2 recorded meetings, 1 connection, 1 utterance and 1 frame each | a recording has every frame and gap of its meeting; termination ends the meeting and seals its recording; no drain keeps the loop for ever |
| `live_capture` | 2 frames, 2 turns, with and without the detection of speech, every fault of the provider | no audio in two items; ranges are the provider's; finals in spoken order; a capture told to stop ends, except behind an announced commit that never comes |
| `canvas_world` | 4 cards, 3 relations, 2 further events | a repair puts no card on one that is there; a removed relation leaves no trace; a new card moves nobody |

**Bounds.**  Three nodes are the least for a circle that no single merge or
detection closes, and for a merge that makes two relations fall together while a
third node watches.  Two pieces of evidence tell old from new.  With two workers and two
attempts a lease is taken over while its holder is at any step; two utterances are
enough for order.  `jobs_record` has two meetings; its constraint `Small` lets the
second begin only where there is no fault, correction, item, gap or end, so that it is
about claims that overlap.  Two meetings and two workers are what a slow claim needs to
come late.  One fault is one crash, analyzer error or lost heartbeat at every
point.  Two generations to join let a fenced socket meet its successor, with a third one
that is only fenced; two frames for each let one be lost before another.  Two items have
a predecessor between them.  Two requests and two deletion workers are every pair of
actors that can meet at one meeting; a third person would only repeat one of the two.
Two connections and two meetings are what one handler can outlive.  The proofs remove the
bounds for what they cover.  Deadlock is not checked: a meeting may fall silent,
and every counter is bounded.

**Kinds of behaviours.**  Four runs look at several settings in one: `host` of
`GraphAnalysis`, `backend` of `ContractStore`, `mode` of `LiveUtterance` and of
`LiveCapture`, `offered` of `MeetingAccess` are chosen at the start and never change.

**Conjunctions.**  An invariant named `…Inv` is the conjunction of the named parts above
it: the type invariant and what is said about its component.  Each part has its comment.

**Symmetry.**  Nodes, labels, workers, meetings of `jobs_record`, sockets and pages are only compared.  The
runs with liveness use none.

**Fairness.**  What is assumed, and why the code justifies it:

* `ServiceJobs`: each worker's own steps (`ServiceWorkerSupervisor._run_one` calls
  `process_one` in a loop, a call that waits for a lock gets it or is aborted, the
  analyzer has a timeout), the clock (leases, deadlines), and the drain supervisor, which
  rotates over the meetings.  Nothing of people, audio, the heartbeat, or `retry_job`,
  which no code of the program calls.
* `ServiceCapture`: only the stop deadline and the end supervisor
  (`ServiceDrainSupervisor.process_one` asks for the pending intent that was checked least
  recently).  Pages, sockets, providers and browsers may stop at any point, and a lease
  need not expire, for a healthy handler renews it.
* `LiveQueue`: the worker thread, which nothing suspends; `LiveUtterance` adds the
  handlers and their timeouts.
* `LiveSession`, `LiveRecording`: handlers, their deadlines, drains in their threads and
  the signal handler.
* `LiveCapture`: the two tasks run on; strongly, that what the provider said is taken up
  and that an unresolved turn gets too old.  Nothing of the provider or the browser: it
  may announce a commit and never make it, and `StopEnds` excepts a capture where it does.
* `ServiceAccount`: workers are started again, clocks run, and neither the registry nor
  the database fails, nor is slower than the claim, every time.  The registry is assumed
  to be able to destroy keys: the one in `service_openbao_keys.py` refuses `delete_key` so
  far, and with it no fenced meeting is ever purged.

**Mutants.**  A definition with `Bug` at the end of its name is the next definition
with a plausible mistake in it; it is used to see that each property can fail.

## Where the code and its documents disagree

These came up while the models were written.  The properties named here are stated in
the modules; no run checks them, because the code does not keep them.

*Graph and views*

* **A merge ignores the relation matrix** (`DiscussionGraph!MatrixHolds`).
  `_merge_nodes` (`materializer.py:476`) rewires every relation without looking at node
  types; the event catalog (17.1) wants such a merge refused.
* **A merge hands the focus to any node** (`FocusIsActiveTopic`, `materializer.py:488`):
  parked ones and ones that are no topics.
* **Undo is not the inverse of the last rename** (`UndoIsInverse`,
  `materializer.py:586`).  It scans for the last `rename_node` or `node_detected` and
  does not see labels set by an undo or by `update_action`.
* **Parking answers are lost** (`AnsweredStaysAnswered`, `materializer.py:531`).  A resolved
  open item that is parked and restored is active again without a reopen.
* **Two cards in one place** (`SemanticCanvas!CardsApart`).  `_repair_new_relation` sees
  only the cards created up to the relation's event while all cards are placed already, so a
  repair may move a card onto a later one's cell; `semantic-canvas-motion-review.md:20` and
  `tests/test_semantic_canvas.py:246` say otherwise.  Also, a root that becomes linked
  shifts later roots along the spiral.
* **Nodes that are drawn nowhere** (`DiscussionMap!NothingDropsOut`).  The docstring of
  `build_presentation_projection` (`projection.py:172`) promises every id in
  `hidden_node_ids` or `critical_entries`; a concern of a lane that is not current is
  counted as visible and drawn nowhere.  After a merge of the current topic into a node
  that is no topic the compact map has no current lane.
* The analyzer lets a relation of a node to itself through, and before prompt v6 one with
  an archived end; the materializer then refuses the whole batch (live, service) or that
  relation (replay).  Two new topics of one label in one answer are both created.
* A spoken correction is read from one graph and applied to the next
  (`live_queue.py:536`, `552`); one that the materializer refuses becomes a question.
* A replayed transcript has all evidence from the start, so the watermark of a removal is
  the last utterance and nothing said later brings the relation back.

*Account service*

* **The finalizing fence fails a job in flight** (`ServiceJobs!AcceptedJobsDrain`).  The
  `session_finalizing` event raises the revision (`postgres_service_store.py:1704`), so a
  job that is being analysed fails with `revision_mismatch` and stays failed;
  `0002_final_intake_fence.sql` says that accepted jobs can still drain.
* **Nobody looks at an expired capture lease** (`ServiceCapture!ExpiryFences`).
  `account-service-v1-implementation-plan.md:83` says that an expired lease is recorded as a
  gap and advances the generation.  The code does so when the next socket connects
  (`postgres_service_store.py:448`); until then the meeting is `listening` with no gap on
  record, and in that state the page offers no reconnect.
* A key whose opening failed after `create_key` stays in the registry and no worker
  cleans it up (comment at `postgres_service_store.py:147`).
* A provider item whose coverage is unknown, or that is empty, blocks its successors
  (intended: `account-service-v1-storage-adr.md:39`); an item whose gateway crashed between
  completion and acceptance stays `transcribed` until the deadline; an empty completion
  recorded before its commit is never acknowledged, so that a pause cannot settle.

*Live pilot*

* **A clean end may not have heard everything** (`LiveCapture!CleanEndHeardAll`).
  `live_transport.py:384` marks the transcription complete before the last commit is
  requested; a browser lost then leaves an "ended" meeting with audio nobody transcribed,
  where the docstring at `live_continuous.py:347` says otherwise.  An unresolved turn of a
  capture that a reconnect superseded is lost without a mark.
* **A commit that was announced and never comes holds a stop for ever.**  After
  `speech_stopped` the client counts a completion as pending (`live_stt.py:612`), so a stop
  asks for no commit of its own (`live_stt.py:496`), and the ledger has no deadline for an
  item that was not committed (`live_turns.py:174`): the loop at `live_transport.py:240`
  goes on.  `StopEnds` says that this is the only way.
* **A stop may be forgotten** (`LiveSession!StopIsNotStuck`): on a reconnect, or when a
  superseded connection's provider comes up late, the meeting stays finalizing
  (`semantic-canvas-candidate.md:38`).  A stop before any browser connected waits for one.
* **A drain may seal the next meeting's recording.**  `manager.drain`
  (`live_session.py:936`) closes the recorder the manager holds by then; `Start` and
  `manager.close` close one as "ended" whose meeting ended incomplete; failures of the
  provider are not marked in the recording.  `RecordingInv` says what still holds.
* Two drains may disagree: one times out (incomplete), and one that is still waiting sets
  "ended" later; a handler in its failure path can reopen a meeting that termination has
  drained.
* **One-utterance mode**, as stated in `LiveUtterance`: a frame in flight when the stop
  arrives drops the utterance (`StopKeepsUtterance`); the end of any handler, also of one
  that was turned away, disconnects the session (`OnlyOwnEnds`), and the transcript of a
  handler that outlived its session goes to the next (`NoStrayFinal`); a retry of an item
  that did not fail shows "failed" (`FailureIsFailure`).

## Proofs

Eight modules hold theorems.  All of them quantify over every value of the constants
that satisfies the named assumptions of the module (`GraphAssumption`, `FiniteNodes`,
`JobsAssumption`, and so on); these only say that bounds are natural numbers, that `None` is no member of
the sets it is used beside, and where code needs it that a set is finite.  No proof
assumes anything about the code beyond the modules.  In each, the properties are not
inductive as they stand; the text names what had to be added.

### DiscussionGraphProofs

`Spec => []GraphInv`, and from it `TypeOK`, `ProvenanceAcyclic`, `RejectionHolds`,
`StatusFitsKind`, `FocusIsLive` (both: `LifecycleKept`) and `ActionDescriptionIsLabel`.
The conjunction of the properties is inductive once `Named` is added: undo takes
the last but one of a node's names, so a node in `undoable` must have two, and
relabelling it must give a label; `FocusIsLive` needs that a status other than
"absent" is kept by every step that does not archive.  The argument is laid out by
what a step touches: `FrameStep` and `OutsideStep` for the steps that leave nodes or
relations alone, `StatusStep` for the lifecycle commands, and one lemma for each
action that does more.  The interesting ones are about provenance:

* `FewerArcsAcyclic`: dropping arcs closes no circle;
* `NewArcAcyclic`: an arc from u to v closes none if v does not reach u.  Given a
  closed set T that separates v from u, any arc x -> y of the new flow has a
  closed set that separates y from x: the old one, its union with T or its
  intersection with T.  So the test made in `_relation_detected` and
  `_correct_relation` is enough;
* a merge tests the whole rewired flow, which is the guard of `MergeNodes`.

Two action properties of the same specification:

* `ArchivedNodesGainNoRelation` counts: a step that is no merge leaves the archived node
  relations it had (`FewerRelations`), because an addition needs two `Joinable` ends; a
  merge of two others maps its old relations onto its new ones (`MergeGainsNothing`), and
  what a finite set is mapped onto is no larger (`NoMoreRelations`).  This is where
  `FiniteNodes` is needed;
* `MergesKeepSources`: the relation is among the `Origins` of its image.

The second half of the module is about `GraphAnalysis`.  `StepOfGraph` shows that every
step of a host, of the analyzer and of people is a step of the graph, takes the graph
back to `call.base`, or begins a replay anew.  So the graph stays sound if `call.base`
is (`Base!GraphInv`, with `Base` the graph an answer falls back to): it was sound when
the call began, and what else `GraphInv` speaks of (watermarks, the session) does not move
during a call, except for evidence, which only grows.  `AnalysisInv` further has

* `GrownFromBase`: an answer only adds to its base; a node that came into being is the
  answer's own, is alive, and no other changed its status; the focus is that of the base,
  or a derived one where the base had no choice of a person.  The last is what
  `ChoicesStand` needs, the others are what `RefusedForGoodReason` needs: an end of a
  relation that was let through is alive, unless an older prompt let an archived one in;
* `BegunBefore`: a meeting with anything heard has two events, so that the revision to
  which a replay is reset exists.

`AnalysesAreSound` is the invariant, `AnswersKeepLifecycles` the part of it that the run
checks by name, `ChoicesStand` the action property.

### ServiceJobsProofs

`StoreInv` is `JobsInv` and `BatchOnItsBasis` with `Claimed`: what a worker's local
variables say of the row it claimed, at every place it may stand.  A worker that has
selected a row is one attempt ahead of it, later it may only fall behind; what is being
analysed was read at the revision the claim started from; and a held session row is
open.  With it go `OneAttemptSettles`, `BatchesFollowTheirBasis`, and for SQLite
`NoLockWaits`, without which its steps would not be those of the record.  One lemma for
each kind of write (`RowStep`, `MeetingStep`, `HearStep`, `ClaimStep`, `SettleStep`,
`TouchStep`) and one for each group of actions.

`ServiceKeepsRecord` is the refinement: on either store, the first state is a first state
of `MeetingRecord` and every step is one of its steps or changes nothing it sees.  A
result that is accepted is `Analyse` there: its job is the next in order because
predecessors are done, and nothing was analysed twice because the row was still
processing at this attempt.  `MeetingRecord`'s specification is pure safety, so this is
all of `KeepsRecord`.

`MeetingsTakeTurns` is `NoSessionPassedOver` for any number of meetings and workers, on
both stores: meetings are marked with the time a claim took before its transaction, as in
the code.  A worker may once leave a meeting before the one that waits, with a claim whose
time is older; so the bound counts the other meetings and the other workers together.
`TurnInv` is what the count needs: the claims that passed a meeting are no more than its
`Others`, the meetings `Behind` it that no worker is about to claim and the workers whose
next claim will be `Late` enough to leave its meeting behind.  A claim selected while the
meeting's row was locked still commits, and is counted, after it waits again, and only
then does its meeting go behind.  So no two workers may be selecting in one meeting
(`OneSelects`, because only the first job that is not completed can be claimed, and its
row is locked), and times are strictly ordered (`InOrder`).

### ServiceCaptureProofs

`Spec => []CaptureInv` for every finite set of sockets, every set of pages and every
bound, and from it all safety properties of `capture_intake`: `AudioIsAccounted`
(`NoSilentLoss` and `SilenceIsOnRecord`), `OneSocketPerGeneration`,
`EndStopsListening`, `VersionTellsState` and the action property `ClosedIsFrozen`.
What `CaptureInv` adds, and why:

* `InRange`: leases and sockets are never ahead of the session's generation, so a
  fence leaves every socket behind;
* `ActiveIsClaimed`: a handler past its lease, and a browser that may record,
  belong to a socket that held the lease of its generation;
* `HolderIsLeased`: until a generation listens, a socket that claimed it still has the
  lease row.  Then `Vacant` is enough for `OneSocketPerGeneration`: the row of a
  generation goes only with its fence or after its audio was paused;
* `SilentBefore`: a generation that has not listened has no audio, so a fence on the
  way to listening loses nothing that is not on record;
* `StopIsVerified`: the tail that was compared at the stop still equals what the
  browser sent, because its microphone is off; this is why a pause needs no gap;
* `LateVoiceIsOnRecord`: where a browser may still speak after its generation is
  over, the gap is there already, so that late frames cannot break `NoSilentLoss`;
* `EndHoldsNoLease`: a meeting that is reconnecting under an end has no lease
  of its generation, so that no socket can take it to listening;
* `ViewsAreOld`: no page is ahead of the version.

`Shapes` reduces the steps to eight shapes (a fence, an end, a step that changes no
row, the owner's requests, the steps of a serving handler, an expired lease, a passed
deadline and a dropped lease), and there is one lemma for each.

### ProviderItemsProofs

`ItemsTellOneStory` (`ItemsInv`) and `CompleteMeansHeard` (`CompleteEndHeardAll`).  The
inductive invariant `ItemsInd` has three parts:

* `Connections`, for each connection: its ledger is sane (`Sane`: allocated frames are
  those of items or of commits under way, in order, without overlap; every allocated
  frame is owned by an item), its rows agree with it (`Agree`), and what the handler and
  the provider still owe is news (`Owes`: no pending event is on record yet or twice in
  the queue, and while a pause settles all audio has been asked for).  A pause's commit
  may be refused and its intent retired: then an item owns all that it asked for
  (`CommitRetired`, which needs that all audio of the model has sound, `AllSound`);
* `Spoken`: an item has evidence exactly if its row says so, once, and behind all its
  predecessors;
* `Ended`: a meeting without a gap had one connection, and it was paused and settled
  when the meeting ended.

`CompleteMeansHeard` then goes: no gap, so one connection; it settled, so every item
was acknowledged as evidence (or it would be unresolved); nothing was left unallocated,
so each frame is in the range of such an item.  Ranges and intents are sequences; where
the argument is by their position, the least counterexample is taken (`WFMin`), because
induction is out of reach.

### MeetingAccessProofs

`NobodySeesTooMuch` (`AccessInv`) and the action property `OwnerIsToldOneWay`
(`OwnerAnswersAdvance`).  The inductive invariant `AccessInd` has one part for each
kind of row (`Rows` for accounts, logins and Web Sessions, `Owned` for meetings, keys and
jobs, `Claimed` for deletion workers, `Displayed`) and `Requested`: what a request still
knows when it acts after others did (`Knows`), for example that a meeting being opened has
its key and no row, that a login which was consumed has made no Web Session yet, and that
the owner of content on its way out still owned it.  `Monotone` is why that knowledge
survives: accounts, logins, meetings and credentials only go forward.

### LiveQueueProofs

`QueueInd` adds to the properties of the queue `InOrder` (the item the worker holds is
behind no other that was never retried) and `Reading` (what the two reads of the revision
say of the graph by now).  From it `BatchesFollowWhatTheySaw`, and, step by step,
`QueueKeepsPromise`: the safety part of `AnalyzerQueue` (`QueueSafety`).  Its liveness part
is checked by TLC.  `UtteranceInd` adds the session above: `ShownUtterancesAreSettled`.

### LiveSessionProofs

`SessionInd` is `Handled` (who is in `drain()`, who holds the manager's lock, and where
handlers stand), `Sound` for the meeting (a meeting that was given up never counts as a
clean end, one that waits for its browser has its gap on record, one that ended shows its
last map) and `EndedMapIsFinal`.  `Careful` and `Steady` say what a method of the session
may do; each method is shown to be so once.  Theorems: `CleanEndsAreFinal` (`SessionInv`),
`LossesAreKept` (`LossesStay`), `RecordingKeepsUp` (`RecordingInv`), and
`RecordedMeetingIsAMeeting`, that under its recording a meeting takes no step it would not
take alone.

### LiveCaptureProofs

`TurnsInvHolds` (`TurnsInv`) and `FinalsInOrderHolds` (`FinalsInOrder`), for any number of
frames and turns and every finalization mode.  The inductive invariant `CaptureInd` says,
while the capture runs (`Live`), that ledger, provider and the two sockets between them
agree once the first `a` items were acknowledged:

* `Hears`: the provider's items lie end to end;
* `Owns`: what the ledger has of an item is what the provider committed.  The one exception
  is the item behind one whose range was lost: it begins too early.  That is why
  `RangeIsTrue` is about items the meeting took, all of whose predecessors are known
  (`AllKnown`), and not about all items;
* `Told`: commits that were not read come in order, each right behind its speech_stopped
  if it has one, and before the completion of its item.  A speech_stopped that was read
  has its commit next.  A commit that was announced and not made yet is taken for made, as
  the last thing that is on its way (`Said`, `Due`), and `Promises` says that it can be:
  so it makes no difference to the ledger whether it comes soon, late or never;
* `Sends` and `Answers`: there is one commit at most, as a request on its way, as an error
  on its way back, or as the one unread item that no speech_stopped announces; its end is
  that of the intent in the ledger.  So the intent that an item takes is its own;
* `Owing`: what the client counts as owed is bounded by the items that stopped;
* `Out` and `Heard`: what was emitted and not acknowledged waits among the events in the
  order of the items, and what was acknowledged is a prefix of the items.

Once it is over, nothing of this changes any more.  `Agree` has the first six as one
operator of values, and there is one lemma for each thing that happens to it (a frame or a
commit sent, heard, refused, announced, made, taken), which the steps of the provider, of the reader and of
the loop (`ProviderSteps`, `ReaderSteps`, `LoopSteps`) cite.  What `release()` emits is put
in order by `ready`, a choice of an increasing enumeration: that there is one is
`CanBeCounted`, by the least bound below which a set could not be counted.

### Only model-checked

* Liveness, fairness and `ENABLED` are out of the prover's reach: `DrainEnds`,
  `NextJobSettles`, `EndIsReached`, `HandedOverEnds`, the liveness of
  `KeepsQueuePromise`, `TerminationSeals`, `LoopComesBack`, `StopEnds`, `FencedIsPurged`.
* `CanvasInv`, `NewCardMovesNobody`, and the parts of `MapInv` about the focused flow and
  the overview, say what folds over the events compute; proving them would need induction
  over data.
* Not proved yet: `MapInv`'s `OwnPlace` and `SlotsAreFilled` and `SharedCardStays`, which
  rest on what folds over the cards return.

## Not modelled

Encryption, wording, HTTP, prompts and the language model are data or
pure I/O: an analysis is any batch of valid events, an answer any sequence of intents.
The noise guard and the compaction of contexts decide what text the model sees, never
what is applied.  Render coalescing, PCM framing, cookies, origins, CSRF tokens and the
bytes of tokens are left out, as no property is about them.  The offline tools
(`stt*.py`, `*_evaluation.py`, `prompt_v5_stt.py`, `real_world_t1a.py`) are batch
programs over recorded meetings that keep no state.
