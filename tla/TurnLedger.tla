----------------------------- MODULE TurnLedger -----------------------------
(***************************************************************************)
(* Which stretch of a connection's audio belongs to which item of the      *)
(* realtime transcription provider: TurnLedger of prototype/live_turns.py. *)
(* Operators on a ledger value; LiveCapture and ProviderItems hold one for *)
(* each connection and feed it.                                            *)
(*                                                                         *)
(* Audio is counted in frames, and all that is known of a frame is whether *)
(* it has meaningful sound (its peak).  Items are numbered as the provider *)
(* commits them; its previous_item_id is the item before.                  *)
(***************************************************************************)
EXTENDS Integers, Sequences, FiniteSets, FiniteSetsExt

CONSTANTS
    MaxTurns        \* bound: items of a connection

ASSUME TurnLedgerAssumption == MaxTurns \in Nat

Turns == 1 .. MaxTurns
Unknown == -1       \* a position that is not known

\* vadEnd of a speech_stopped; acked once the commit was seen, with the range and reason it
\* got then; completion of the transcription, emitted in its turn, acknowledged by the loop.
NewItem == [vadEnd |-> Unknown, acked |-> FALSE, start |-> Unknown, end |-> Unknown,
            reason |-> "unknown", completion |-> "none", emitted |-> FALSE, delivered |-> FALSE]

\* frames holds the meaningful bit of each frame; intents are commits that were sent and
\* not answered yet, oldest first; requests numbers them.
NewLedger == [frames |-> << >>, allocated |-> 0, intents |-> << >>, requests |-> 0,
              items |-> [k \in Turns |-> NewItem]]

samples(L) == Len(L.frames)
AppendFrame(L, sound) == [L EXCEPT !.frames = Append(@, sound)]

meaningful(L, start, end) == \E f \in DOMAIN L.frames : start < f /\ f <= end /\ L.frames[f]

\* Everything before it is owned by an item or by a commit on its way.
cursor(L) == Max({L.allocated} \cup {L.intents[k].end : k \in DOMAIN L.intents})

\* meaningful_pending_seconds: there is sound that nobody has asked for yet.
meaningful_pending(L) == meaningful(L, cursor(L), samples(L))

request(L) ==
    [L EXCEPT !.requests = @ + 1,
              !.intents = Append(@, [id |-> L.requests + 1, start |-> cursor(L), end |-> samples(L)])]

\* Mutated: sound behind what is owned is given up with the commit.
SupersededBug(L, id) ==
    /\ Len(L.intents) = 1
    /\ id \in {Unknown, L.intents[1].id}
    /\ \E k \in Turns :
          /\ L.items[k].reason = "vad" /\ L.items[k].start # Unknown
          /\ L.items[k].start <= L.intents[1].start /\ L.intents[1].start < L.items[k].end

\* A commit was rejected because the provider's own commit came first: the intent goes if
\* it is the only one, the error is about it, and all its sound is owned by an item.
Superseded(L, id) ==
    /\ Len(L.intents) = 1
    /\ id \in {Unknown, L.intents[1].id}
    /\ \E k \in Turns :
          /\ L.items[k].reason = "vad" /\ L.items[k].start # Unknown
          /\ L.items[k].start <= L.intents[1].start /\ L.intents[1].start < L.items[k].end
          /\ L.items[k].end >= Min({L.intents[1].end, L.allocated})
    /\ ~meaningful(L, L.allocated, L.intents[1].end)

reconcile_empty_commit(L) == [L EXCEPT !.intents = << >>]

ObserveStopped(L, k, end) == [L EXCEPT !.items[k].vadEnd = end]

\* Mutated: a commit that overlaps what is owned keeps its range.
OwnedBug(L, k) ==
    IF L.items[k].vadEnd # Unknown
    THEN [start |-> L.allocated, end |-> L.items[k].vadEnd, reason |-> "vad"]
    ELSE IF L.intents = << >>
    THEN [start |-> Unknown, end |-> Unknown, reason |-> "unknown"]
    ELSE [start |-> L.intents[1].start, end |-> L.intents[1].end, reason |-> "commit"]

\* The item takes the stretch up to where speech stopped, or that of the oldest commit that
\* was asked for, unless some of it is owned already.
Owned(L, k) ==
    IF L.items[k].vadEnd # Unknown
    THEN [start |-> L.allocated, end |-> L.items[k].vadEnd, reason |-> "vad"]
    ELSE IF L.intents = << >>
    THEN [start |-> Unknown, end |-> Unknown, reason |-> "unknown"]
    ELSE IF L.intents[1].start < L.allocated
    THEN [start |-> Unknown, end |-> Unknown, reason |-> "commit"]
    ELSE [start |-> L.intents[1].start, end |-> L.intents[1].end, reason |-> "commit"]

ObserveCommitted(L, k) ==
    IF L.items[k].acked THEN L
    ELSE LET own == Owned(L, k)
             answered == L.items[k].vadEnd = Unknown /\ L.intents # << >>
         IN  [L EXCEPT !.items[k] = [L.items[k] EXCEPT !.acked = TRUE, !.start = own.start,
                                                       !.end = own.end, !.reason = own.reason],
                       !.intents = IF answered THEN Tail(L.intents) ELSE L.intents,
                       !.allocated = Max({L.allocated, own.end})]

\* context()["range_known"]
range_known(L, k) ==
    /\ L.items[k].start # Unknown
    /\ L.items[k].start <= L.items[k].end /\ L.items[k].end <= samples(L)

\* complete() and release(): a completion waits until the item before it was emitted.
Completed(L, k, completion) == [L EXCEPT !.items[k].completion = completion]

\* Mutated: what is complete is emitted at once.
ReleasedBug(L) == {k \in Turns : L.items[k].completion # "none" /\ ~L.items[k].emitted}

\* Only a commit that was seen tells which item is before.
Released(L) ==
    {k \in Turns :
        /\ L.items[k].completion # "none" /\ ~L.items[k].emitted
        /\ \E first \in 1 .. k :
              /\ first = 1 \/ L.items[first - 1].emitted \/ ~L.items[first].acked
              /\ \A j \in first .. k : L.items[j].completion # "none"
              /\ \A j \in first + 1 .. k : L.items[j].acked}

Emitted(L) == [L EXCEPT !.items = [k \in Turns |->
                    [L.items[k] EXCEPT !.emitted = L.items[k].emitted \/ k \in Released(L)]]]

\* In the order in which they were committed.
ready(L) == CHOOSE s \in [1 .. Cardinality(Released(L)) -> Released(L)] :
                \A i, j \in DOMAIN s : i < j => s[i] < s[j]

acknowledge(L, k) == [L EXCEPT !.items[k].delivered = TRUE]

Unresolved(L) == {k \in Turns : L.items[k].acked /\ ~L.items[k].delivered}
pending(L) == L.intents # << >> \/ Unresolved(L) # {}
=============================================================================
