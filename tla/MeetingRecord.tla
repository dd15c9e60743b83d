-------------------------- MODULE MeetingRecord --------------------------
(***************************************************************************)
(* What the account service promises of a meeting's record: every accepted *)
(* utterance is analysed at most once and in the order it was spoken, its  *)
(* events enter the canonical stream as one block, people correct the      *)
(* graph only until intake is closed, and an ended meeting never changes.  *)
(* "ended" means that nothing is missing; anything else ends incomplete.   *)
(*                                                                         *)
(* Workers, leases, attempts, locks, crashes and retries do not exist here:*)
(* ServiceJobs implements this specification with them.                    *)
(***************************************************************************)
EXTENDS Integers, Sequences

CONSTANTS
    Sessions,
    MaxBatch   \* bound: events one analysis proposes

VARIABLES
    heard,     \* number of utterances accepted as evidence
    missing,   \* audio is known that no evidence stands for
    analysed,  \* utterances whose events are in the stream
    authors,   \* who wrote each event of the canonical stream
    closed,    \* intake is closed
    outcome    \* open, ended or ended_incomplete

recordVars == <<heard, missing, analysed, authors, closed, outcome>>

System == [by |-> "system", job |-> 0]
Person == [by |-> "human", job |-> 0]
Analyzer(e) == [by |-> "analyzer", job |-> e]

Write(s, events) == authors' = [authors EXCEPT ![s] = @ \o events]

Init ==
    /\ heard = [s \in Sessions |-> 0]
    /\ missing = [s \in Sessions |-> FALSE]
    /\ analysed = [s \in Sessions |-> {}]
    /\ authors = [s \in Sessions |-> <<>>]
    /\ closed = [s \in Sessions |-> FALSE]
    /\ outcome = [s \in Sessions |-> "open"]

\* Audio is found to be missing, and is found again, until the end.
Listen(s, lost) ==
    /\ outcome[s] = "open"
    /\ missing' = [missing EXCEPT ![s] = lost]

Capture(s, lost) ==
    /\ Listen(s, lost)
    /\ UNCHANGED <<heard, analysed, authors, closed, outcome>>

Hear(s, lost) ==
    /\ Listen(s, lost)
    /\ heard' = [heard EXCEPT ![s] = @ + 1]
    /\ UNCHANGED <<analysed, authors, closed, outcome>>

Analyse(s, e, n) ==
    /\ outcome[s] = "open"
    /\ e \notin analysed[s]
    /\ 1 .. e - 1 \subseteq analysed[s]
    /\ analysed' = [analysed EXCEPT ![s] = @ \cup {e}]
    /\ Write(s, [i \in 1 .. n |-> Analyzer(e)])
    /\ UNCHANGED <<heard, missing, closed, outcome>>

Correct(s) ==
    /\ outcome[s] = "open" /\ ~closed[s]
    /\ Write(s, <<Person>>)
    /\ UNCHANGED <<heard, missing, analysed, closed, outcome>>

Close(s) ==
    /\ outcome[s] = "open" /\ ~closed[s]
    /\ closed' = [closed EXCEPT ![s] = TRUE]
    /\ Write(s, <<System>>)
    /\ UNCHANGED <<heard, missing, analysed, outcome>>

Complete(s) == ~missing[s] /\ analysed[s] = 1 .. heard[s]

End(s) ==
    /\ outcome[s] = "open" /\ closed[s]
    /\ outcome' = [outcome EXCEPT ![s] = IF Complete(s) THEN "ended" ELSE "ended_incomplete"]
    /\ Write(s, <<System>>)
    /\ UNCHANGED <<heard, missing, analysed, closed>>

Next ==
    \E s \in Sessions :
        \/ \E lost \in BOOLEAN : Capture(s, lost) \/ Hear(s, lost)
        \/ \E e \in 1 .. heard[s], n \in 0 .. MaxBatch : Analyse(s, e, n)
        \/ Correct(s)
        \/ Close(s)
        \/ End(s)

Spec == Init /\ [][Next]_recordVars
=============================================================================
