--------------------------- MODULE AnalyzerQueue ---------------------------
(***************************************************************************)
(* What the queue in front of the live analyzer promises to the meeting    *)
(* that feeds it: an utterance that was handed over is settled, utterances *)
(* that were never retried are settled in the order they were spoken, and  *)
(* the graph only grows, by an item's events at the moment it is settled   *)
(* as completed or by a person's command.                                  *)
(*                                                                         *)
(* prototype/live_queue.py is the implementation: LiveQueue refines this   *)
(* module, and LiveSession is built on it.                                 *)
(***************************************************************************)
EXTENDS Integers, Sequences

CONSTANTS
    MaxItems,       \* bound: utterances of a meeting
    MaxRetries,     \* bound: retries of one utterance
    MaxCommands     \* bound: commands of a person

ASSUME QueueAssumption ==
    MaxItems \in Nat /\ MaxRetries \in Nat /\ MaxCommands \in Nat

Items == 1 .. MaxItems
Human == 0          \* the author of a command's event; an utterance is a number from 1

VARIABLES
    status,     \* of each utterance: "none" until it is handed over, then open until settled
    attempts,   \* how often it was handed over, retries included
    authors     \* who wrote each event of the graph, oldest first; its length is the revision

queue == <<status, attempts, authors>>

Statuses == {"none", "open", "completed", "failed"}

QueueInit ==
    /\ status = [n \in Items |-> "none"]
    /\ attempts = [n \in Items |-> 0]
    /\ authors = << >>

\* Sequences are given out in the order the utterances become final.
QueueIdle == \A n \in Items : status[n] # "open"

HandOver(n) ==
    /\ status[n] = "none" /\ \A m \in 1 .. n - 1 : status[m] # "none"
    /\ status' = [status EXCEPT ![n] = "open"]
    /\ attempts' = [attempts EXCEPT ![n] = 1]
    /\ UNCHANGED authors

Again(n) ==
    /\ status[n] = "failed" /\ attempts[n] <= MaxRetries
    /\ status' = [status EXCEPT ![n] = "open"]
    /\ attempts' = [attempts EXCEPT ![n] = @ + 1]
    /\ UNCHANGED authors

\* An utterance that was retried waits for nobody and nobody waits for it.
InTurn(n) ==
    \/ attempts[n] > 1
    \/ \A m \in 1 .. n - 1 : status[m] = "open" => attempts[m] > 1

Complete(n, events) ==
    /\ status[n] = "open" /\ InTurn(n)
    /\ status' = [status EXCEPT ![n] = "completed"]
    /\ authors' = authors \o [k \in 1 .. events |-> n]
    /\ UNCHANGED attempts

Fail(n) ==
    /\ status[n] = "open" /\ InTurn(n)
    /\ status' = [status EXCEPT ![n] = "failed"]
    /\ UNCHANGED <<attempts, authors>>

Settle(n) == Fail(n) \/ \E events \in 0 .. 1 : Complete(n, events)

Command ==
    /\ authors' = Append(authors, Human)
    /\ UNCHANGED <<status, attempts>>

QueueNext ==
    \/ \E n \in Items : HandOver(n) \/ Again(n) \/ Settle(n)
    \/ Command

QueueSpec == QueueInit /\ [][QueueNext]_queue /\ WF_queue(\E n \in Items : Settle(n))
=============================================================================
