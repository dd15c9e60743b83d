----------------------------- MODULE LiveQueue -----------------------------
(***************************************************************************)
(* The queue and the single analyzer worker of one live meeting,           *)
(* prototype/live_queue.py: LiveUtteranceQueue, SingleAnalyzerWorker and   *)
(* LiveAnalyzerRuntime.                                                    *)
(*                                                                         *)
(* The runtime lock and the queue's condition are taken and left several   *)
(* times while one item is processed, and the analyzer runs outside both:  *)
(* an action is one stretch under a lock.  The graph is the sequence of    *)
(* its events; an event remembers the revision its author had read.  What  *)
(* an analyzer says, an event's contents, times and latencies are left out.*)
(***************************************************************************)
EXTENDS Integers, Sequences, FiniteSets

CONSTANTS
    MaxItems,       \* bound: utterances of a meeting
    MaxRetries,     \* bound: retries of one utterance
    MaxCommands     \* bound: commands of a person

ASSUME LiveQueueAssumption ==
    MaxItems \in Nat /\ MaxRetries \in Nat /\ MaxCommands \in Nat

Items == 1 .. MaxItems
Human == 0          \* the author of a command's event; an utterance is a number from 1

VARIABLES
    item,       \* LiveQueueItem: its state and retry_count
    log,        \* result.events: author of each and the revision it was made from
    closed,     \* the queue's _closed
    worker      \* where the worker is and its local variables

vars == <<item, log, closed, worker>>

States == {"none", "pending", "processing", "completed", "failed"}
Idle == [pc |-> "idle", n |-> 0, start |-> 0, current |-> 0, seen |-> 0, events |-> 0]
Revision == Len(log)
At(states) == {n \in Items : item[n].state \in states}

Init ==
    /\ item = [n \in Items |-> [state |-> "none", retries |-> 0]]
    /\ log = << >> /\ closed = FALSE /\ worker = Idle

-----------------------------------------------------------------------------
(* What the meeting and its people do.                                     *)

enqueue(n) ==
    /\ ~closed /\ item[n].state = "none"
    /\ item' = [item EXCEPT ![n].state = "pending"]

\* register_utterance: evidence, utterance and item under one lock.
Register(n) ==
    /\ enqueue(n)
    /\ \A m \in 1 .. n - 1 : item[m].state # "none"
    /\ UNCHANGED <<log, closed, worker>>

Retry(n) ==
    /\ item[n].state = "failed" /\ ~closed /\ item[n].retries < MaxRetries
    /\ item' = [item EXCEPT ![n] = [state |-> "pending", retries |-> @.retries + 1]]
    /\ UNCHANGED <<log, closed, worker>>

\* execute_command: the event of a person, under the runtime lock.
ExecuteCommand ==
    /\ Cardinality({k \in DOMAIN log : log[k].by = Human}) < MaxCommands
    /\ log' = Append(log, [by |-> Human, seen |-> Revision])
    /\ UNCHANGED <<item, closed, worker>>

Close ==
    /\ ~closed /\ closed' = TRUE
    /\ UNCHANGED <<item, log, worker>>

-----------------------------------------------------------------------------
(* The worker.                                                             *)

\* Mutated: items are taken in the order of a stack.
IsNextBug(n) == n \in At({"pending"}) /\ \A m \in At({"pending"}) : m <= n

\* The heap gives the pending item that was spoken first.
IsNext(n) == n \in At({"pending"}) /\ \A m \in At({"pending"}) : n <= m

\* Mutated: the worker leaves a closed queue without looking whether anything waits.
DrainedBug == closed

Drained == closed /\ At({"pending"}) = {}

ClaimNext ==
    /\ worker.pc = "idle"
    /\ \/ \E n \in Items :
             /\ IsNext(n)
             /\ item' = [item EXCEPT ![n].state = "processing"]
             /\ worker' = [Idle EXCEPT !.pc = "claimed", !.n = n]
       \/ /\ Drained
          /\ worker' = [Idle EXCEPT !.pc = "stopped"]
          /\ UNCHANGED item
    /\ UNCHANGED <<log, closed>>

\* The copy of the graph, its revision, and what the utterance turns out to be.
Snapshot ==
    /\ worker.pc = "claimed"
    /\ \E kind \in {"analyse", "correct"} :
         worker' = [worker EXCEPT !.pc = kind, !.start = Revision, !.seen = Revision]
    /\ UNCHANGED <<item, log, closed>>

\* A spoken correction of a relation becomes a human command that names the revision
\* of now, or a question when it does not fit the graph.
Correct ==
    /\ worker.pc = "correct"
    /\ \E events \in 0 .. 1 :
         /\ log' = log \o [k \in 1 .. events |-> [by |-> worker.n, seen |-> Revision]]
         /\ worker' = [worker EXCEPT !.pc = "applied", !.events = events]
    /\ UNCHANGED <<item, closed>>

\* The analyzer answers with events, with none, or fails.
Analyse ==
    /\ worker.pc \in {"analyse", "reanalyse"}
    /\ \/ \E events \in 0 .. 1 :
            worker' = [worker EXCEPT !.events = events,
                                     !.pc = IF @ = "analyse" THEN "check" ELSE "recheck"]
       \/ worker' = [worker EXCEPT !.pc = "failing"]
    /\ UNCHANGED <<item, log, closed>>

CheckRevision ==
    /\ worker.pc = "check"
    /\ worker' = [worker EXCEPT !.current = Revision,
                                !.pc = IF Revision = worker.start THEN "append" ELSE "copy"]
    /\ UNCHANGED <<item, log, closed>>

\* The second copy is taken under the lock again, after the revision was read.
CopyAgain ==
    /\ worker.pc = "copy"
    /\ worker' = [worker EXCEPT !.pc = "reanalyse", !.seen = Revision]
    /\ UNCHANGED <<item, log, closed>>

Recheck ==
    /\ worker.pc = "recheck"
    /\ worker' = [worker EXCEPT !.pc = IF Revision = worker.current THEN "append" ELSE "failing"]
    /\ UNCHANGED <<item, log, closed>>

\* Mutated: the events are applied without looking at the revision again.
FreshBug == TRUE

Fresh == Revision = worker.current

\* The batch is applied to a copy that replaces the result as a whole, or it is
\* rejected as a whole: a conflict, or a candidate the materializer refuses.
AppendBatch ==
    /\ worker.pc = "append"
    /\ \/ /\ Fresh
          /\ log' = log \o [k \in 1 .. worker.events |-> [by |-> worker.n, seen |-> worker.seen]]
          /\ worker' = [worker EXCEPT !.pc = "applied"]
       \/ /\ ~Fresh \/ worker.events > 0
          /\ worker' = [worker EXCEPT !.pc = "failing"]
          /\ UNCHANGED log
    /\ UNCHANGED <<item, closed>>

Outcome == IF worker.pc = "applied" THEN "completed" ELSE "failed"

\* queue.complete or queue.fail, and on_settled after it.
Finish ==
    /\ worker.pc \in {"applied", "failing"}
    /\ item' = [item EXCEPT ![worker.n].state = Outcome]
    /\ worker' = Idle
    /\ UNCHANGED <<log, closed>>

WorkerStep ==
    \/ ClaimNext \/ Snapshot \/ Correct \/ Analyse \/ CheckRevision \/ CopyAgain
    \/ Recheck \/ AppendBatch \/ Finish

Next ==
    \/ \E n \in Items : Register(n) \/ Retry(n)
    \/ ExecuteCommand \/ Close \/ WorkerStep

\* The worker is a thread that nothing suspends and the analyzer's call returns or raises.
Spec == Init /\ [][Next]_vars /\ WF_vars(WorkerStep)

-----------------------------------------------------------------------------
(* What the queue promises.                                                *)

\* Every item, event and local variable keeps its type, and at most the item the
\* worker holds is processing: SingleAnalyzerWorker with its queue.
TypeOK ==
    /\ item \in [Items -> [state : States, retries : 0 .. MaxRetries]]
    /\ log \in Seq([by : 0 .. MaxItems, seen : Nat])
    /\ closed \in BOOLEAN
    /\ worker \in [pc : {"idle", "claimed", "analyse", "correct", "check", "copy", "reanalyse",
                         "recheck", "append", "applied", "failing", "stopped"},
                   n : 0 .. MaxItems, start : Nat, current : Nat, seen : Nat, events : 0 .. 1]
    /\ At({"processing"}) = IF worker.pc \in {"idle", "stopped"} THEN {} ELSE {worker.n}

\* Whatever people do while the analyzer runs, the events it proposed are in the graph
\* only right behind the graph it was shown: _process_item's two copies, two reads of the
\* revision and final check, each in a lock section of its own.
AppendedToWhatWasSeen == \A k \in DOMAIN log : log[k].seen = k - 1

\* A worker that stopped left nothing behind that waits: retry and enqueue are refused
\* from close on, and close itself drops nothing.
NothingStranded == worker.pc = "stopped" => At({"pending", "processing"}) = {}

\* The worker and the queue agree on what is under way, and a stopped worker leaves nothing.
QueueInv ==
    /\ TypeOK
    /\ NothingStranded

\* An utterance that was handed over, first or again, comes to an end, with its queue
\* closed or open, through conflicts, failures of the analyzer and commands.
EveryItemSettles ==
    \A n \in Items : item[n].state = "pending" ~> item[n].state \in {"completed", "failed"}

\* An item is settled for the meeting when its events are in the graph, which is before
\* the queue says so.
StatusOf(n) ==
    CASE item[n].state \in {"none", "completed", "failed"} -> item[n].state
      [] worker.n = n /\ worker.pc = "applied" -> "completed"
      [] OTHER -> "open"

Status == [n \in Items |-> StatusOf(n)]
Attempts == [n \in Items |-> IF item[n].state = "none" THEN 0 ELSE item[n].retries + 1]
Authors == [k \in DOMAIN log |-> log[k].by]

Meeting == INSTANCE AnalyzerQueue WITH
    status <- Status, attempts <- Attempts, authors <- Authors

\* LiveAnalyzerRuntime gives the meeting what AnalyzerQueue states: order, no event
\* without its item's end, no lost command, and an end for every item.
KeepsQueuePromise == Meeting!QueueSpec
=============================================================================
