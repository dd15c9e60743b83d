-------------------------- MODULE MCContractStore --------------------------
(* ServiceJobs and ContractStore on small instances.                       *)
EXTENDS ContractStore, TLC

\* Workers are only compared, and so are meetings.
Symmetry == Permutations(Workers)
Symmetries == Permutations(Workers) \cup Permutations(Sessions)

Untouched(s) == ~closed[s] /\ ~gap[s] /\ items[s] = 0 /\ jobs[s] = <<>> /\ stream[s] = <<>>

\* Bound: what happens while two meetings go on is one utterance in each, and no fault.
Small ==
    \/ \E s \in Sessions : Untouched(s)
    \/ /\ faults = 0
       /\ \A s \in Sessions :
             /\ \E r \in Sessions : Len(jobs[r]) <= 1
             /\ items[s] = 0 /\ ~gap[s] /\ ~closed[s]
             /\ \A i \in DOMAIN stream[s] : stream[s][i].by # "human"
=============================================================================
