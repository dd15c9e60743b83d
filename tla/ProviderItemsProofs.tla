------------------------ MODULE ProviderItemsProofs ------------------------
(***************************************************************************)
(* From an item of the provider to evidence, for any number of connections *)
(* frames and items: the rows of the store, what the client's ledger knows *)
(* and what is still on its way between them, part by part.                *)
(***************************************************************************)
EXTENDS ProviderItems, FiniteSetTheorems, SequenceTheorems, WellFoundedInduction, TLAPS

-----------------------------------------------------------------------------
(* The ledger.                                                             *)

ItemRows == [vadEnd : Int, acked : BOOLEAN, start : Int, end : Int,
             reason : {"unknown", "vad", "commit"},
             completion : {"none", "text", "empty", "error"},
             emitted : BOOLEAN, delivered : BOOLEAN]
Intents == [id : Nat, start : Nat, end : Nat]
IntentLists == {s \in Seq(Intents) : Len(s) <= 1}
Ledgers == [frames : Seq(BOOLEAN), allocated : Nat, intents : IntentLists, requests : Nat,
            items : [Turns -> ItemRows]]

Lost(L, k) == L.items[k].acked /\ L.items[k].start = Unknown

\* A range is known or it is not, and what it covers was allocated.
SaneItem(x, allocated) ==
    /\ ~x.acked => x.vadEnd = Unknown
    /\ \/ x.start = Unknown /\ x.end = Unknown
       \/ /\ x.acked /\ x.start \in Nat /\ x.end \in Nat
          /\ x.start <= x.end /\ x.end <= allocated
    /\ x.emitted => x.completion # "none"

\* The commit on its way asks for what nobody owns, up to a frame that was heard.
SaneIntents(L) ==
    L.intents # << >> => /\ L.intents[1].start <= L.allocated
                         /\ L.intents[1].start <= L.intents[1].end
                         /\ L.intents[1].end <= samples(L)

OwnedBy(x, f) == x.acked /\ x.start < f /\ f <= x.end

\* All audio of the model has sound.
AllSound(fs) == \A f \in 1 .. Len(fs) : fs[f]

\* Every frame that is allocated is of an item.
Sane(L) ==
    /\ L \in Ledgers /\ AllSound(L.frames)
    /\ L.allocated <= samples(L)
    /\ SaneIntents(L)
    /\ \A k \in Turns : SaneItem(L.items[k], L.allocated)
    /\ \A f \in 1 .. L.allocated : \E k \in Turns : OwnedBy(L.items[k], f)

\* All that was heard is of an item or was asked for, or an item has lost its range.
AllAskedFor(L) ==
    \/ L.allocated = samples(L)
    \/ L.intents # << >> /\ L.intents[1].end = samples(L)
    \/ \E k \in Turns : Lost(L, k)

-----------------------------------------------------------------------------
(* The rows of one connection, and the events on their way to them.        *)

StoreRows == [status : Statuses, text : {"none", "text", "empty"}]
RowsOf == [Turns -> StoreRows]

\* What the row r says of an item x, whose frames are known or not.
AgreeItem(x, covered, r) ==
    /\ r.status \in {"none", "committed"} => r.text = "none"
    /\ r.status = "unmatched_completion" => r.text # "none"
    /\ r.status \in {"transcribed", "evidence_accepted"} => r.text = "text"
    /\ r.status = "empty" => r.text = "empty"
    /\ r.status \notin {"none", "unmatched_completion"} => x.acked
    /\ r.status \in {"committed", "transcribed", "empty", "evidence_accepted"} => covered
    /\ r.text # "none" => x.emitted
    /\ x.delivered => /\ r.text # "none"
                      /\ r.status \in {"evidence_accepted", "empty", "coverage_unknown"}

\* R are the rows of the connection whose ledger is L.
Agree(L, R) ==
    /\ R \in RowsOf
    /\ \A k \in Turns : AgreeItem(L.items[k], Covered(L, k), R[k])

EventRows == [type : {"none", "committed", "text", "empty", "error"}, item : Nat, covered : BOOLEAN]

Completions == {"text", "empty"}
Alike(d, e) == d.item = e.item /\ ( \/ d.type = "committed" /\ e.type = "committed"
                                    \/ d.type \in Completions /\ e.type \in Completions )

\* What an event says is not on record yet.
News(e, L, R) ==
    /\ e.type = "committed" => /\ e.item \in Turns /\ L.items[e.item].acked
                               /\ e.covered = Covered(L, e.item)
                               /\ R[e.item].status \in {"none", "unmatched_completion"}
    /\ e.type \in Completions => /\ e.item \in Turns /\ L.items[e.item].emitted
                                 /\ R[e.item].text = "none"

\* s are the events that were not handled yet, oldest first.
Owes(s, L, R) ==
    /\ s \in Seq(EventRows)
    /\ \A n \in 1 .. Len(s) : News(s[n], L, R)
    /\ \A m, n \in 1 .. Len(s) : m # n => ~Alike(s[m], s[n])

\* es are the events of a connection: with the one that its handler has in hand.
Handling == {"handling", "s-handling"}
Accepting == {"accepting", "s-accepting"}
Settling == {"settling", "s-handling", "s-accepting"}
GatewayRows == [pc : {"off", "loop", "handling", "accepting", "closing", "gone"} \cup Settling,
                event : EventRows]
Due(g, es) == IF g.pc \in Handling THEN <<g.event>> \o es ELSE es

\* Ledger, rows, events and handler of one connection.
Connection(L, R, es, g) ==
    /\ Sane(L) /\ Agree(L, R)
    /\ es \in Seq(EventRows) /\ g \in GatewayRows
    /\ Owes(Due(g, es), L, R)
    /\ g.pc \in Accepting => g.event.item \in Turns
    /\ g.pc \in Settling => AllAskedFor(L)
    /\ g.pc = "off" => samples(L) = 0 /\ \A k \in Turns : ~L.items[k].acked

Connections ==
    /\ ledger \in [Conns -> Ledgers] /\ row \in [Conns -> RowsOf]
    /\ events \in [Conns -> Seq(EventRows)] /\ owing \in [Conns -> SUBSET Turns]
    /\ gateway \in [Conns -> GatewayRows]
    /\ \A c \in Conns : Connection(ledger[c], row[c], events[c], gateway[c])

-----------------------------------------------------------------------------
(* The evidence and the meeting.                                           *)

IsEvidence(c, k) == row[c][k].status = "evidence_accepted"

Spoken ==
    /\ evidence \in Seq(Conns \X Turns)
    /\ \A c \in Conns, k \in Turns :
          IsEvidence(c, k) <=> \E n \in DOMAIN evidence : evidence[n] = <<c, k>>
    /\ \A m, n \in DOMAIN evidence : m # n => evidence[m] # evidence[n]
    /\ \A c \in Conns, k \in Turns : IsEvidence(c, k) => \A j \in 1 .. k - 1 : IsEvidence(c, j)
    /\ SpokenOrder

\* The socket of a connection was closed with its pause settled.
WasSettled(c) ==
    /\ gateway[c].pc = "gone" /\ ledger[c].intents = << >> /\ Unresolved(ledger[c]) = {}
    /\ AllAskedFor(ledger[c])

\* Without a gap there was one connection, and it was paused when the meeting ended.
Ended ==
    /\ service \in {"open", "ended", "ended_incomplete"} /\ gap \in BOOLEAN
    /\ capture \in [state : {"resuming", "listening", "pausing", "paused", "reconnecting",
                             "finalizing"},
                    generation : 1 .. MaxConns + 1, lease : {"none", "live", "expired"}]
    /\ capture.lease # "none" \/ capture.state \in {"listening", "pausing", "paused"} =>
          capture.generation \in Conns
    /\ capture.state = "reconnecting" => gap
    /\ ~gap => /\ capture.generation = 1
               /\ \A c \in Conns : c # 1 => gateway[c].pc = "off"
               /\ capture.state = "paused" => WasSettled(1)
               /\ capture.state = "finalizing" => 1 \in Conns /\ WasSettled(1)
    /\ service # "open" => capture.state = "finalizing"
    /\ service = "ended" => ~gap /\ PendingItems = {}

\* The inductive invariant.
ItemsInd == Connections /\ Spoken /\ Ended

-----------------------------------------------------------------------------
(* Numbers and sequences.                                                  *)

LEMMA MaxOfTwo == ASSUME NEW a \in Int, NEW b \in Int PROVE Max({a, b}) = IF a >= b THEN a ELSE b
BY DEF Max

LEMMA CursorIs ==
    ASSUME NEW L \in Ledgers
    PROVE  cursor(L) = IF L.intents = << >> THEN L.allocated
                       ELSE IF L.allocated >= L.intents[1].end THEN L.allocated ELSE L.intents[1].end
<1>1. L.allocated \in Int /\ L.intents \in Seq(Intents) /\ Len(L.intents) \in {0, 1}
    <2>1. L.allocated \in Int /\ L.intents \in IntentLists
        BY DEF Ledgers
    <2>2. L.intents \in Seq(Intents) /\ Len(L.intents) <= 1
        BY <2>1 DEF IntentLists
    <2>3. Len(L.intents) \in Nat
        BY <2>2, LenProperties
    <2>4. \A n \in Nat : n <= 1 => n \in {0, 1}
        OBVIOUS
    <2>5. Len(L.intents) \in {0, 1}
        BY <2>2, <2>3, <2>4, Zenon
    <2> QED BY <2>1, <2>2, <2>5
<1>2. CASE L.intents = << >>
    <2>1. {L.intents[k].end : k \in DOMAIN L.intents} = {}
        BY <1>2
    <2>2. {L.allocated} \cup {L.intents[k].end : k \in DOMAIN L.intents} = {L.allocated, L.allocated}
        BY <2>1
    <2>3. cursor(L) = Max({L.allocated, L.allocated})
        BY <2>2 DEF cursor
    <2> QED BY <1>1, <1>2, <2>3, MaxOfTwo
<1>3. CASE L.intents # << >>
    <2>1. DOMAIN L.intents = {1} /\ L.intents[1] \in Intents
        BY <1>1, <1>3
    <2>2. {L.intents[k].end : k \in DOMAIN L.intents} = {L.intents[1].end}
        BY <2>1
    <2>3. {L.allocated} \cup {L.intents[k].end : k \in DOMAIN L.intents}
            = {L.allocated, L.intents[1].end}
        BY <2>2
    <2>4. L.intents[1].end \in Int
        BY <2>1 DEF Intents
    <2>5. cursor(L) = Max({L.allocated, L.intents[1].end})
        BY <2>3 DEF cursor
    <2> QED BY <1>1, <1>3, <2>4, <2>5, MaxOfTwo
<1> QED BY <1>2, <1>3

\* What is finite can be put in order: the smallest bound for which it could not is not 0,
\* and a set below the next bound has at most one element more.
Increasing(S) ==
    \E s \in [1 .. Cardinality(S) -> S] : \A i, j \in DOMAIN s : i < j => s[i] < s[j]

LEMMA CanBeOrdered == \A n \in Nat : \A S \in SUBSET (1 .. n) : Increasing(S)
<1> DEFINE Bad == {n \in Nat : \E S \in SUBSET (1 .. n) : ~Increasing(S)}
<1> SUFFICES ASSUME Bad # {} PROVE FALSE
    OBVIOUS
<1>1. PICK n \in Bad : \A m \in Bad : ~(m < n)
    <2>1. PICK n \in Bad : \A m \in Bad : ~(<<m, n>> \in OpToRel(<, Nat))
        <3>1. Bad \subseteq Nat
            OBVIOUS
        <3> HIDE DEF Bad
        <3> QED BY <3>1, WFMin, NatLessThanWellFounded
    <2> QED BY <2>1 DEF OpToRel
<1>2. PICK S \in SUBSET (1 .. n) : ~Increasing(S)
    OBVIOUS
<1>3. n # 0
    <2>1. SUFFICES ASSUME n = 0 PROVE FALSE
        OBVIOUS
    <2>2. S = {}
        BY <2>1
    <2>3. Cardinality(S) = 0
        BY <2>2, FS_EmptySet
    <2> DEFINE s == [k \in 1 .. 0 |-> k]
    <2>4. s \in [1 .. Cardinality(S) -> S] /\ \A i, j \in DOMAIN s : i < j => s[i] < s[j]
        BY <2>2, <2>3
    <2> QED BY <1>2, <2>4 DEF Increasing
<1>4. \A T \in SUBSET (1 .. n - 1) : Increasing(T)
    BY <1>1, <1>3
<1>5. n \in S
    BY <1>2, <1>4
<1> DEFINE T == S \ {n}
           c == Cardinality(T)
<1>6. IsFiniteSet(S) /\ c \in Nat /\ Cardinality(S) = c + 1
    <2>1. IsFiniteSet(1 .. n)
        BY FS_Interval
    <2>2. IsFiniteSet(S)
        BY <2>1, FS_Subset
    <2>3. Cardinality(T) = Cardinality(S) - 1 /\ Cardinality(S) \in Nat /\ IsFiniteSet(T)
        BY <1>5, <2>2, FS_RemoveElement, FS_CardinalityType
    <2>4. Cardinality(T) \in Nat
        BY <2>3, FS_CardinalityType
    <2> QED BY <2>2, <2>3, <2>4
<1>7. T \in SUBSET (1 .. n - 1)
    OBVIOUS
<1>8. PICK s \in [1 .. c -> T] : \A i, j \in DOMAIN s : i < j => s[i] < s[j]
    <2>1. Increasing(T)
        BY <1>4, <1>7
    <2> QED BY <2>1 DEF Increasing
<1> HIDE DEF c
<1> DEFINE t == [i \in 1 .. c + 1 |-> IF i = c + 1 THEN n ELSE s[i]]
<1>9. t \in [1 .. Cardinality(S) -> S]
    BY <1>5, <1>6
<1>10. \A i, j \in DOMAIN t : i < j => t[i] < t[j]
    <2>1. \A k \in 1 .. c : s[k] \in 1 .. n - 1
        BY <1>7
    <2>2. \A k \in 1 .. c : s[k] < n
        BY <2>1
    <2> QED BY <1>6, <1>8, <2>2
<1> QED BY <1>2, <1>9, <1>10 DEF Increasing

\* What is emitted together is in order, and every item once.
LEMMA ReadyIs ==
    ASSUME NEW L
    PROVE  /\ ready(L) \in Seq(Released(L))
           /\ \A m, n \in 1 .. Len(ready(L)) : m # n => ready(L)[m] # ready(L)[n]
<1> DEFINE S == Released(L)
<1>1. S \in SUBSET (1 .. MaxTurns)
    BY DEF Released, Turns
<1>2. Increasing(S)
    BY <1>1, CanBeOrdered, TurnLedgerAssumption
<1>3. Cardinality(S) \in Nat
    <2>1. IsFiniteSet(1 .. MaxTurns)
        BY FS_Interval, TurnLedgerAssumption
    <2>2. IsFiniteSet(S)
        BY <1>1, <2>1, FS_Subset
    <2> QED BY <2>2, FS_CardinalityType
<1>4. ready(L) \in [1 .. Cardinality(S) -> S]
      /\ \A i, j \in DOMAIN ready(L) : i < j => ready(L)[i] < ready(L)[j]
    BY <1>2 DEF ready, Increasing
<1>5. S \subseteq Int
    BY <1>1, TurnLedgerAssumption
<1> HIDE DEF S
<1>6. ready(L) \in Seq(S) /\ Len(ready(L)) = Cardinality(S)
    BY <1>3, <1>4
<1> QED BY <1>3, <1>4, <1>5, <1>6 DEF S

-----------------------------------------------------------------------------
(* What the operations of the ledger leave.                                *)

\* What no step takes back.
Keeps(L, M) ==
    /\ samples(L) <= samples(M)
    /\ \A k \in Turns :
          /\ L.items[k].acked => /\ M.items[k].acked /\ M.items[k].start = L.items[k].start
                                 /\ M.items[k].end = L.items[k].end
          /\ L.items[k].emitted => M.items[k].emitted
          /\ M.items[k].delivered = L.items[k].delivered

LEMMA SamplesAre == ASSUME NEW L \in Ledgers PROVE samples(L) \in Nat
BY DEF Ledgers, samples

LEMMA LedgerFields ==
    ASSUME NEW L \in Ledgers
    PROVE  /\ L.frames \in Seq(BOOLEAN) /\ L.allocated \in Nat /\ L.intents \in IntentLists
           /\ L.requests \in Nat /\ L.items \in [Turns -> ItemRows]
BY DEF Ledgers

LEMMA IntentFields ==
    ASSUME NEW s \in IntentLists, s # << >>
    PROVE  /\ s[1] \in Intents /\ s[1].start \in Nat /\ s[1].end \in Nat /\ s = <<s[1]>>
           /\ Tail(s) = << >>
<1>1. s \in Seq(Intents) /\ Len(s) <= 1
    BY DEF IntentLists
<1>2. Len(s) = 1
    <2>1. Len(s) \in Nat \ {0}
        BY <1>1, EmptySeq
    <2>2. \A n \in Nat \ {0} : n <= 1 => n = 1
        OBVIOUS
    <2> QED BY <1>1, <2>1, <2>2, Zenon
<1>3. s[1] \in Intents
    BY <1>1, <1>2, ElementOfSeq
<1>4. s = <<s[1]>>
    BY <1>1, <1>2, <1>3, SeqEqual, LenProperties
<1>5. Tail(s) = << >>
    <2>1. Tail(s) \in Seq(Intents) /\ Len(Tail(s)) = 0
        BY <1>1, <1>2, HeadTailProperties
    <2> QED BY <2>1, EmptySeq
<1> QED BY <1>3, <1>4, <1>5 DEF Intents

LEMMA NewIsSane ==
    /\ Sane(NewLedger) /\ samples(NewLedger) = 0
    /\ \A k \in Turns : ~NewLedger.items[k].acked /\ ~NewLedger.items[k].delivered
<1>1. NewItem \in ItemRows
    BY DEF NewItem, ItemRows, Unknown
<1>2. << >> \in Seq(BOOLEAN) /\ << >> \in IntentLists
    BY DEF IntentLists
<1>3. NewLedger \in Ledgers
    BY <1>1, <1>2 DEF NewLedger, Ledgers
<1>4. samples(NewLedger) = 0
    BY DEF NewLedger, samples
<1>5. NewLedger.intents = << >> /\ NewLedger.allocated = 0
      /\ \A k \in Turns : NewLedger.items[k] = NewItem
    BY DEF NewLedger
<1>6. ~NewItem.acked /\ ~NewItem.delivered /\ ~NewItem.emitted /\ NewItem.vadEnd = Unknown
      /\ NewItem.start = Unknown /\ NewItem.end = Unknown
    BY DEF NewItem
<1>7. SaneItem(NewItem, 0)
    BY <1>6 DEF SaneItem
<1>8. SaneIntents(NewLedger)
    BY <1>5 DEF SaneIntents
<1>9. AllSound(NewLedger.frames)
    BY DEF NewLedger, AllSound
<1> QED BY <1>3, <1>4, <1>5, <1>6, <1>7, <1>8, <1>9 DEF Sane

\* The ranges, and so the sanity, are the same after a step that only adds frames or has
\* other news of the items.
SameRange(x, y) ==
    /\ y.acked = x.acked /\ y.start = x.start /\ y.end = x.end /\ y.vadEnd = x.vadEnd
    /\ y.emitted => y.completion # "none"

LEMMA RangesStay ==
    ASSUME NEW L, Sane(L), NEW M \in Ledgers, M.allocated = L.allocated, M.intents = L.intents,
           AllSound(M.frames), samples(L) <= samples(M), \A k \in Turns : SameRange(L.items[k], M.items[k])
    PROVE  Sane(M)
<1>1. L \in Ledgers /\ L.allocated \in Nat /\ samples(L) \in Nat /\ samples(M) \in Nat
    BY SamplesAre, LedgerFields DEF Sane
<1>2. M.allocated <= samples(M)
    BY <1>1 DEF Sane
<1>3. SaneIntents(M)
    <2>1. CASE M.intents = << >>
        BY <2>1 DEF SaneIntents
    <2>2. CASE M.intents # << >>
        <3>1. M.intents[1].end \in Nat
            BY <2>2, LedgerFields, IntentFields
        <3> QED BY <1>1, <3>1 DEF SaneIntents, Sane
    <2> QED BY <2>1, <2>2
<1>4. ASSUME NEW k \in Turns PROVE SaneItem(M.items[k], M.allocated)
    BY DEF Sane, SaneItem, SameRange
<1>5. ASSUME NEW f \in 1 .. M.allocated PROVE \E k \in Turns : OwnedBy(M.items[k], f)
    <2>1. PICK k \in Turns : OwnedBy(L.items[k], f)
        BY DEF Sane
    <2>2. OwnedBy(M.items[k], f)
        BY <2>1 DEF OwnedBy, SameRange
    <2> QED BY <2>2
<1> QED BY <1>2, <1>3, <1>4, <1>5 DEF Sane

\* The only commit on its way is retired, and all that it asked for is of an item.
LEMMA CommitRetired ==
    ASSUME NEW L, Sane(L), NEW id, Superseded(L, id), NEW M, M = reconcile_empty_commit(L)
    PROVE  /\ Sane(M) /\ Keeps(L, M)
           /\ AllAskedFor(L) => AllAskedFor(M)
<1>1. L \in Ledgers /\ samples(L) \in Nat /\ L.allocated \in Nat /\ L.intents \in IntentLists
    BY SamplesAre, LedgerFields DEF Sane
<1>2. << >> \in IntentLists
    BY DEF IntentLists
<1>3. /\ M \in Ledgers /\ M.frames = L.frames /\ M.allocated = L.allocated /\ M.items = L.items
      /\ M.intents = << >>
    BY <1>1, <1>2 DEF reconcile_empty_commit, Ledgers
<1>4. samples(M) = samples(L)
    BY <1>3 DEF samples
<1>5. Sane(M)
    BY <1>3, <1>4 DEF Sane, SaneIntents
<1>6. Keeps(L, M)
    BY <1>1, <1>3, <1>4 DEF Keeps
<1>7. L.intents # << >>
    BY DEF Superseded
<1>8. L.intents[1].end \in Nat
    BY <1>1, <1>7, IntentFields
<1>9. L.intents[1].end <= L.allocated
    <2>1. SUFFICES ASSUME ~(L.intents[1].end <= L.allocated) PROVE FALSE
        OBVIOUS
    <2>2. PICK e \in Nat : e = L.intents[1].end
        BY <1>8
    <2>3. PICK fs \in Seq(BOOLEAN) : fs = L.frames
        BY <1>1, LedgerFields
    <2>4. e <= samples(L) /\ samples(L) = Len(fs)
        BY <1>7, <2>2, <2>3 DEF Sane, SaneIntents, samples
    <2>5. L.allocated < e /\ e \in 1 .. Len(fs)
        BY <1>1, <2>1, <2>2, <2>4
    <2>6. fs[e]
        BY <2>3, <2>5 DEF Sane, AllSound
    <2>7. e \in DOMAIN fs
        BY <2>5
    <2>8. ~meaningful(L, L.allocated, e)
        BY <2>2 DEF Superseded
    <2> QED BY <2>2, <2>3, <2>5, <2>6, <2>7, <2>8 DEF meaningful
<1>10. ASSUME AllAskedFor(L) PROVE AllAskedFor(M)
    <2>1. CASE L.allocated = samples(L)
        BY <1>3, <1>4, <2>1 DEF AllAskedFor
    <2>2. CASE L.intents[1].end = samples(L)
        <3>1. L.allocated <= samples(L)
            BY DEF Sane
        <3>2. L.allocated = samples(L)
            BY <1>1, <1>9, <2>2, <3>1
        <3> QED BY <1>3, <1>4, <3>2 DEF AllAskedFor
    <2>3. ASSUME NEW k \in Turns, Lost(L, k) PROVE AllAskedFor(M)
        <3>1. Lost(M, k)
            BY <1>3, <2>3 DEF Lost
        <3> QED BY <3>1 DEF AllAskedFor
    <2> QED BY <1>10, <2>1, <2>2, <2>3 DEF AllAskedFor
<1> QED BY <1>5, <1>6, <1>10

\* One item of a ledger is changed.
LEMMA ItemChanged ==
    ASSUME NEW L \in Ledgers, NEW k \in Turns, NEW x \in ItemRows
    PROVE  LET M == [L EXCEPT !.items[k] = x]
           IN  /\ M \in Ledgers /\ M.frames = L.frames /\ M.allocated = L.allocated
               /\ M.intents = L.intents /\ samples(M) = samples(L)
               /\ \A j \in Turns : M.items[j] = IF j = k THEN x ELSE L.items[j]
BY DEF Ledgers, samples

LEMMA FrameHeard ==
    ASSUME NEW L, Sane(L), NEW M, M = AppendFrame(L, TRUE)
    PROVE  /\ Sane(M) /\ Keeps(L, M) /\ M.items = L.items
<1>1. L \in Ledgers
    BY DEF Sane
<1>2. PICK fs : fs = Append(L.frames, TRUE)
    OBVIOUS
<1>3. fs \in Seq(BOOLEAN) /\ Len(fs) = Len(L.frames) + 1 /\ Len(L.frames) \in Nat
    BY <1>1, <1>2 DEF Ledgers
<1>4. M = [L EXCEPT !.frames = fs]
    BY <1>2 DEF AppendFrame
<1>5. /\ M.frames = fs /\ M.allocated = L.allocated
      /\ M.intents = L.intents /\ M.items = L.items /\ M \in Ledgers
    BY <1>1, <1>3, <1>4 DEF Ledgers
<1>6. samples(L) <= samples(M)
    <2>1. samples(L) = Len(L.frames) /\ samples(M) = Len(fs)
        BY <1>5 DEF samples
    <2>2. samples(L) \in Nat /\ samples(M) = samples(L) + 1
        BY <1>3, <2>1, Zenon
    <2>3. \A n \in Nat : n <= n + 1
        OBVIOUS
    <2> QED BY <2>2, <2>3, Zenon
<1>7. \A k \in Turns : SameRange(L.items[k], M.items[k])
    BY <1>5 DEF Sane, SaneItem, SameRange
<1>8. AllSound(M.frames)
    <2>1. AllSound(L.frames)
        BY DEF Sane
    <2>2. PICK gs \in Seq(BOOLEAN) : gs = L.frames
        BY <1>1 DEF Ledgers
    <2>3. \A f \in 1 .. Len(gs) : gs[f]
        BY <2>1, <2>2 DEF AllSound
    <2>4. fs = Append(gs, TRUE)
        BY <1>2, <2>2
    <2>5. ASSUME NEW f \in 1 .. Len(fs) PROVE fs[f]
        BY <2>3, <2>4
    <2> QED BY <1>5, <2>5 DEF AllSound
<1>9. Sane(M)
    BY <1>5, <1>6, <1>7, <1>8, RangesStay
<1> QED BY <1>5, <1>6, <1>9 DEF Keeps

LEMMA CommitAskedFor ==
    ASSUME NEW L, Sane(L), L.intents = << >>, NEW M, M = request(L)
    PROVE  Sane(M) /\ Keeps(L, M) /\ AllAskedFor(M) /\ M.items = L.items
<1> DEFINE i == [id |-> L.requests + 1, start |-> cursor(L), end |-> samples(L)]
<1>1. L \in Ledgers /\ samples(L) \in Nat
    BY SamplesAre DEF Sane
<1>2. cursor(L) = L.allocated
    BY <1>1, CursorIs
<1>3. L.requests \in Nat /\ L.allocated \in Nat /\ L.allocated <= samples(L)
    BY <1>1, LedgerFields DEF Sane
<1>4. i \in Intents /\ i.start = L.allocated /\ i.end = samples(L) /\ i.start <= i.end
    BY <1>1, <1>2, <1>3 DEF Intents
<1>5. PICK is : is = Append(L.intents, i)
    OBVIOUS
<1>6. PICK r : r = L.requests + 1
    OBVIOUS
<1>7. M = [L EXCEPT !.requests = r, !.intents = is]
    BY <1>5, <1>6 DEF request
<1> HIDE DEF i
<1>8. is = <<i>> /\ is # << >> /\ is[1] = i /\ is \in IntentLists
    BY <1>4, <1>5 DEF IntentLists
<1>9. r \in Nat
    BY <1>3, <1>6
<1>10. /\ M \in Ledgers /\ M.frames = L.frames /\ M.allocated = L.allocated /\ M.items = L.items
       /\ M.intents = is
    BY <1>1, <1>7, <1>8, <1>9 DEF Ledgers
<1>11. samples(M) = samples(L)
    BY <1>10 DEF samples
<1>12. SaneIntents(M)
    BY <1>3, <1>4, <1>8, <1>10, <1>11, <1>1 DEF SaneIntents
<1>13. Sane(M)
    BY <1>10, <1>11, <1>12 DEF Sane
<1>14. AllAskedFor(M)
    BY <1>4, <1>8, <1>10, <1>11 DEF AllAskedFor
<1> QED BY <1>1, <1>10, <1>11, <1>13, <1>14 DEF Keeps

LEMMA TurnAcknowledged ==
    ASSUME NEW L, Sane(L), NEW k \in Turns, NEW M, M = acknowledge(L, k)
    PROVE  /\ Sane(M) /\ M.intents = L.intents /\ samples(M) = samples(L)
           /\ AllAskedFor(L) => AllAskedFor(M)
           /\ \A j \in Turns :
                 /\ M.items[j].acked = L.items[j].acked /\ M.items[j].start = L.items[j].start
                 /\ M.items[j].end = L.items[j].end /\ M.items[j].emitted = L.items[j].emitted
                 /\ M.items[j].delivered = (L.items[j].delivered \/ j = k)
<1>1. L \in Ledgers /\ samples(L) \in Nat
    BY SamplesAre DEF Sane
<1>2. PICK x : x = [L.items[k] EXCEPT !.delivered = TRUE]
    OBVIOUS
<1>3. x \in ItemRows /\ x.acked = L.items[k].acked /\ x.start = L.items[k].start
      /\ x.end = L.items[k].end /\ x.emitted = L.items[k].emitted /\ x.vadEnd = L.items[k].vadEnd
      /\ x.completion = L.items[k].completion /\ x.delivered = TRUE
    <2>1. L.items[k] \in ItemRows
        BY <1>1, LedgerFields
    <2> QED BY <1>2, <2>1 DEF ItemRows
<1>4. M = [L EXCEPT !.items[k] = x]
    BY <1>2 DEF acknowledge
<1>5. /\ M \in Ledgers /\ M.frames = L.frames /\ M.allocated = L.allocated /\ M.intents = L.intents
      /\ samples(M) = samples(L)
      /\ \A j \in Turns : M.items[j] = IF j = k THEN x ELSE L.items[j]
    BY <1>1, <1>3, <1>4, ItemChanged
<1>6. ASSUME NEW j \in Turns
      PROVE  /\ SameRange(L.items[j], M.items[j]) /\ M.items[j].emitted = L.items[j].emitted
             /\ M.items[j].delivered = (L.items[j].delivered \/ j = k)
    <2>1. SaneItem(L.items[j], L.allocated)
        BY DEF Sane
    <2>2. L.items[j].delivered \in BOOLEAN
        BY <1>1, LedgerFields DEF ItemRows
    <2>3. CASE j = k
        BY <1>3, <1>5, <2>1, <2>3 DEF SameRange, SaneItem
    <2>4. CASE j # k
        BY <1>5, <2>1, <2>2, <2>4 DEF SameRange, SaneItem
    <2> QED BY <2>3, <2>4
<1>7. AllSound(M.frames)
    BY <1>5 DEF Sane
<1>8. Sane(M)
    BY <1>1, <1>5, <1>6, <1>7, RangesStay
<1>9. AllAskedFor(L) => AllAskedFor(M)
    BY <1>5, <1>6 DEF AllAskedFor, Lost, SameRange
<1> QED BY <1>5, <1>6, <1>8, <1>9 DEF SameRange

\* What is released was not emitted before, and is now.
EmitsNow(L, X, M) ==
    \A j \in Released(X) : /\ j \in Turns /\ ~L.items[j].emitted /\ M.items[j].emitted
                           /\ X.items[j].completion \in {"text", "empty", "error"}

LEMMA TurnCompleted ==
    ASSUME NEW L, Sane(L), NEW k \in Turns, NEW said \in {"text", "empty", "error"},
           NEW X, X = Completed(L, k, said), NEW M, M = Emitted(X)
    PROVE  /\ Sane(M) /\ Keeps(L, M) /\ M.intents = L.intents /\ samples(M) = samples(L)
           /\ AllAskedFor(L) => AllAskedFor(M)
           /\ \A j \in Turns : M.items[j].acked = L.items[j].acked
           /\ EmitsNow(L, X, M)
<1>1. L \in Ledgers /\ samples(L) \in Nat
    BY SamplesAre DEF Sane
<1>2. PICK x : x = [L.items[k] EXCEPT !.completion = said]
    OBVIOUS
<1>3. x \in ItemRows /\ x.acked = L.items[k].acked /\ x.start = L.items[k].start
      /\ x.end = L.items[k].end /\ x.emitted = L.items[k].emitted /\ x.vadEnd = L.items[k].vadEnd
      /\ x.completion = said /\ x.delivered = L.items[k].delivered
    <2>1. L.items[k] \in ItemRows
        BY <1>1, LedgerFields
    <2> QED BY <1>2, <2>1 DEF ItemRows
<1>4. X = [L EXCEPT !.items[k] = x]
    BY <1>2 DEF Completed
<1>5. /\ X \in Ledgers /\ X.frames = L.frames /\ X.allocated = L.allocated /\ X.intents = L.intents
      /\ samples(X) = samples(L)
      /\ \A j \in Turns : X.items[j] = IF j = k THEN x ELSE L.items[j]
    BY <1>1, <1>3, <1>4, ItemChanged
<1>6. ASSUME NEW j \in Turns
      PROVE  /\ SameRange(L.items[j], X.items[j]) /\ X.items[j].emitted = L.items[j].emitted
             /\ X.items[j].delivered = L.items[j].delivered
    <2>1. SaneItem(L.items[j], L.allocated)
        BY DEF Sane
    <2>2. said # "none"
        OBVIOUS
    <2>3. CASE j = k
        BY <1>3, <1>5, <2>2, <2>3 DEF SameRange
    <2>4. CASE j # k
        BY <1>5, <2>1, <2>4 DEF SameRange, SaneItem
    <2> QED BY <2>3, <2>4
<1> DEFINE R == Released(X)
           Now(j) == [X.items[j] EXCEPT !.emitted = X.items[j].emitted \/ j \in R]
<1>7. \A j \in R : j \in Turns /\ ~X.items[j].emitted /\ X.items[j].completion # "none"
    BY DEF Released
<1> HIDE DEF R
<1>8. ASSUME NEW j \in Turns
      PROVE  /\ Now(j) \in ItemRows /\ Now(j).acked = X.items[j].acked
             /\ Now(j).start = X.items[j].start
             /\ Now(j).end = X.items[j].end /\ Now(j).vadEnd = X.items[j].vadEnd
             /\ Now(j).completion = X.items[j].completion
             /\ Now(j).delivered = X.items[j].delivered
             /\ Now(j).emitted = (X.items[j].emitted \/ j \in R)
    <2>1. X.items[j] \in ItemRows
        BY <1>5, LedgerFields
    <2>2. PICK b \in BOOLEAN : b = (X.items[j].emitted \/ j \in R)
        OBVIOUS
    <2>3. Now(j) = [X.items[j] EXCEPT !.emitted = b]
        BY <2>2
    <2> HIDE DEF Now
    <2> QED BY <2>1, <2>2, <2>3 DEF ItemRows
<1> DEFINE its == [j \in Turns |-> Now(j)]
<1>9. M = [X EXCEPT !.items = its]
    BY DEF Emitted, R
<1> HIDE DEF Now
<1>10. its \in [Turns -> ItemRows] /\ \A j \in Turns : its[j] = Now(j)
    BY <1>8
<1> HIDE DEF its
<1>11. /\ M \in Ledgers /\ M.frames = X.frames /\ M.allocated = X.allocated /\ M.intents = X.intents
       /\ M.items = its
    BY <1>5, <1>9, <1>10 DEF Ledgers
<1>12. samples(M) = samples(L)
    BY <1>5, <1>11 DEF samples
<1>13. ASSUME NEW j \in Turns
       PROVE  /\ SameRange(L.items[j], M.items[j]) /\ M.items[j].delivered = L.items[j].delivered
              /\ M.items[j].emitted = (L.items[j].emitted \/ j \in R)
    <2>1. M.items[j] = Now(j)
        BY <1>10, <1>11
    <2>2. j \in R => M.items[j].completion # "none"
        BY <1>7, <1>8, <2>1
    <2>3. L.items[j].emitted => M.items[j].completion # "none"
        BY <1>6, <1>8, <2>1 DEF SameRange
    <2>4. M.items[j].emitted = (L.items[j].emitted \/ j \in R)
        BY <1>6, <1>8, <2>1
    <2>5. M.items[j].emitted => M.items[j].completion # "none"
        BY <2>2, <2>3, <2>4
    <2>6. /\ M.items[j].acked = L.items[j].acked /\ M.items[j].start = L.items[j].start
          /\ M.items[j].end = L.items[j].end /\ M.items[j].vadEnd = L.items[j].vadEnd
        BY <1>6, <1>8, <2>1 DEF SameRange
    <2>7. SameRange(L.items[j], M.items[j])
        BY <2>5, <2>6 DEF SameRange
    <2>8. M.items[j].delivered = L.items[j].delivered
        BY <1>6, <1>8, <2>1
    <2> QED BY <2>4, <2>7, <2>8
<1>14. AllSound(M.frames)
    BY <1>5, <1>11 DEF Sane
<1>15. Sane(M)
    BY <1>1, <1>5, <1>11, <1>12, <1>13, <1>14, RangesStay
<1>16. ASSUME NEW j \in R
       PROVE  /\ j \in Turns /\ ~L.items[j].emitted /\ M.items[j].emitted
              /\ X.items[j].completion \in {"text", "empty", "error"}
    <2>1. X.items[j].completion \in {"none", "text", "empty", "error"}
        BY <1>5, <1>7, LedgerFields DEF ItemRows
    <2> QED BY <1>6, <1>7, <1>13, <2>1
<1>17. Keeps(L, M)
    <2>1. ASSUME NEW j \in Turns
          PROVE  /\ M.items[j].acked = L.items[j].acked /\ M.items[j].start = L.items[j].start
                 /\ M.items[j].end = L.items[j].end
                 /\ M.items[j].delivered = L.items[j].delivered
                 /\ L.items[j].emitted => M.items[j].emitted
        BY <1>13 DEF SameRange
    <2> QED BY <1>1, <1>12, <2>1 DEF Keeps
<1>18. AllAskedFor(L) => AllAskedFor(M)
    BY <1>5, <1>11, <1>12, <1>13 DEF AllAskedFor, Lost, SameRange
<1> QED BY <1>5, <1>11, <1>12, <1>13, <1>15, <1>16, <1>17, <1>18 DEF R, SameRange, EmitsNow

\* What an item takes at its commit, and what is left.
Takes(X, k, own, a, is) ==
    /\ own = Owned(X, k) /\ a = Max({X.allocated, own.end})
    /\ is = IF X.items[k].vadEnd = Unknown /\ X.intents # << >>
            THEN Tail(X.intents) ELSE X.intents

\* The item gets the sound after all that is allocated, or no range that is known.
LEMMA OwnedIs ==
    ASSUME NEW X \in Ledgers, SaneIntents(X), X.allocated <= samples(X), NEW k \in Turns,
           X.items[k].vadEnd \in {Unknown} \cup X.allocated .. samples(X),
           NEW own, NEW a, NEW is, Takes(X, k, own, a, is)
    PROVE  /\ a \in Nat /\ X.allocated <= a /\ a <= samples(X) /\ is \in IntentLists
           /\ own.reason \in {"unknown", "vad", "commit"}
           /\ \/ own.start = Unknown /\ own.end = Unknown /\ a = X.allocated
              \/ own.start = X.allocated /\ own.end = a
           /\ \/ is = X.intents
              \/ is = << >> /\ (own.start = Unknown \/ a = X.intents[1].end)
<1>1. X.allocated \in Nat /\ X.intents \in IntentLists /\ samples(X) \in Nat
    BY LedgerFields, SamplesAre
<1>2. Unknown = -1
    BY DEF Unknown
<1>3. CASE X.items[k].vadEnd # Unknown
    <2>1. own = [start |-> X.allocated, end |-> X.items[k].vadEnd, reason |-> "vad"] /\ is = X.intents
        BY <1>3 DEF Takes, Owned
    <2>2. PICK e \in X.allocated .. samples(X) : e = X.items[k].vadEnd
        BY <1>3
    <2>3. own.start = X.allocated /\ own.end = e /\ own.reason = "vad"
        BY <2>1, <2>2
    <2>4. e \in Nat /\ X.allocated <= e /\ e <= samples(X)
        BY <1>1, <2>2
    <2>5. a = e
        BY <1>1, <2>3, <2>4, MaxOfTwo DEF Takes
    <2> QED BY <1>1, <2>1, <2>3, <2>4, <2>5
<1>4. CASE X.items[k].vadEnd = Unknown /\ X.intents = << >>
    <2>1. own.start = Unknown /\ own.end = Unknown /\ own.reason = "unknown" /\ is = X.intents
        BY <1>4 DEF Takes, Owned
    <2>2. a = X.allocated
        <3>1. own.end = -1
            BY <1>2, <2>1, Zenon
        <3>2. a = IF X.allocated >= -1 THEN X.allocated ELSE -1
            BY <1>1, <3>1, MaxOfTwo DEF Takes
        <3> QED BY <1>1, <3>2
    <2>3. a \in Nat /\ X.allocated <= a /\ a <= samples(X)
        BY <1>1, <2>2
    <2> QED BY <1>1, <2>1, <2>2, <2>3, Zenon
<1>5. CASE X.items[k].vadEnd = Unknown /\ X.intents # << >>
    <2>1. is = Tail(X.intents)
        BY <1>5 DEF Takes
    <2>2. /\ X.intents[1].start \in Nat /\ X.intents[1].end \in Nat /\ is = << >>
          /\ << >> \in IntentLists
        BY <1>1, <1>5, <2>1, IntentFields DEF IntentLists
    <2>3. /\ X.intents[1].start <= X.allocated /\ X.intents[1].start <= X.intents[1].end
          /\ X.intents[1].end <= samples(X)
        BY <1>5 DEF SaneIntents
    <2>4. CASE X.intents[1].start < X.allocated
        <3>1. own.start = Unknown /\ own.end = Unknown /\ own.reason = "commit"
            BY <1>5, <2>4 DEF Takes, Owned
        <3>2. a = X.allocated
            <4>1. own.end = -1
                BY <1>2, <3>1, Zenon
            <4>2. a = IF X.allocated >= -1 THEN X.allocated ELSE -1
                BY <1>1, <4>1, MaxOfTwo DEF Takes
            <4> QED BY <1>1, <4>2
        <3>3. a \in Nat /\ X.allocated <= a /\ a <= samples(X)
            BY <1>1, <3>2
        <3> QED BY <2>2, <3>1, <3>2, <3>3, Zenon
    <2>5. CASE ~(X.intents[1].start < X.allocated)
        <3>1. own.start = X.intents[1].start /\ own.end = X.intents[1].end /\ own.reason = "commit"
            BY <1>5, <2>5 DEF Takes, Owned
        <3>2. X.intents[1].start = X.allocated
            BY <1>1, <2>2, <2>3, <2>5
        <3>3. a = X.intents[1].end
            BY <1>1, <2>2, <2>3, <3>1, <3>2, MaxOfTwo DEF Takes
        <3> QED BY <1>1, <2>2, <2>3, <3>1, <3>2, <3>3
    <2> QED BY <2>4, <2>5
<1> QED BY <1>3, <1>4, <1>5

\* X is L once it is known where the item's speech stopped, if it is.
Stopped(L, k, end, X) == X = IF end = Unknown THEN L ELSE ObserveStopped(L, k, end)

\* The provider saw speech stop, or it did not, and committed the item.
LEMMA CommitSeen ==
    ASSUME NEW L, Sane(L), NEW k \in Turns, ~L.items[k].acked,
           NEW end \in {Unknown} \cup L.allocated .. samples(L),
           NEW X, Stopped(L, k, end, X),
           NEW M, M = ObserveCommitted(X, k)
    PROVE  /\ Sane(M) /\ Keeps(L, M)
           /\ M.items[k].acked /\ M.items[k].emitted = L.items[k].emitted
           /\ AllAskedFor(L) => AllAskedFor(M)
           /\ \A j \in Turns : j # k => M.items[j] = L.items[j]
<1>1. /\ L \in Ledgers /\ L.allocated \in Nat /\ L.intents \in IntentLists /\ samples(L) \in Nat
      /\ L.items[k] \in ItemRows
    BY LedgerFields, SamplesAre DEF Sane
<1>2. Unknown = -1
    BY DEF Unknown
<1>3. end \in Int
    BY <1>1, <1>2
<1>4. PICK x : x = [L.items[k] EXCEPT !.vadEnd = end]
    OBVIOUS
<1>5. x \in ItemRows /\ x.vadEnd = end /\ x.acked = FALSE /\ x.emitted = L.items[k].emitted
      /\ x.delivered = L.items[k].delivered /\ x.completion = L.items[k].completion
    BY <1>1, <1>3, <1>4 DEF ItemRows
<1>6. /\ X \in Ledgers /\ X.frames = L.frames /\ X.allocated = L.allocated /\ X.intents = L.intents
      /\ samples(X) = samples(L) /\ X.items[k] \in ItemRows
      /\ X.items[k].vadEnd = end /\ X.items[k].acked = FALSE
      /\ X.items[k].emitted = L.items[k].emitted /\ X.items[k].delivered = L.items[k].delivered
      /\ X.items[k].completion = L.items[k].completion
      /\ \A j \in Turns : j # k => X.items[j] = L.items[j]
    <2>1. CASE end = Unknown
        <3>1. X = L
            BY <2>1 DEF Stopped
        <3>2. L.items[k].vadEnd = Unknown
            BY DEF Sane, SaneItem
        <3>3. L.items[k].acked = FALSE
            BY <1>1 DEF ItemRows
        <3> QED BY <1>1, <2>1, <3>1, <3>2, <3>3
    <2>2. CASE end # Unknown
        <3>1. X = [L EXCEPT !.items[k] = x]
            BY <1>4, <2>2 DEF Stopped, ObserveStopped
        <3>2. /\ X \in Ledgers /\ X.frames = L.frames /\ X.allocated = L.allocated
              /\ X.intents = L.intents /\ samples(X) = samples(L)
              /\ \A j \in Turns : X.items[j] = IF j = k THEN x ELSE L.items[j]
            BY <1>1, <1>5, <3>1, ItemChanged
        <3> QED BY <1>5, <3>2
    <2> QED BY <2>1, <2>2
<1>7. PICK own, a, is : Takes(X, k, own, a, is)
    BY DEF Takes
<1>8. PICK y : y = [X.items[k] EXCEPT !.acked = TRUE, !.start = own.start,
                                       !.end = own.end, !.reason = own.reason]
    OBVIOUS
<1>9. M = [X EXCEPT !.items[k] = y, !.intents = is, !.allocated = a]
    BY <1>6, <1>7, <1>8 DEF ObserveCommitted, Takes
<1>10. /\ a \in Nat /\ L.allocated <= a /\ a <= samples(L) /\ is \in IntentLists
       /\ own.reason \in {"unknown", "vad", "commit"}
       /\ \/ own.start = Unknown /\ own.end = Unknown /\ a = L.allocated
          \/ own.start = L.allocated /\ own.end = a
       /\ \/ is = L.intents
          \/ is = << >> /\ (own.start = Unknown \/ a = L.intents[1].end)
    <2>1. SaneIntents(X) /\ X.allocated <= samples(X)
        BY <1>6 DEF Sane, SaneIntents
    <2>2. X.items[k].vadEnd \in {Unknown} \cup X.allocated .. samples(X)
        BY <1>6
    <2> QED BY <1>6, <1>7, <2>1, <2>2, OwnedIs
<1>11. own.start \in Int /\ own.end \in Int
    BY <1>1, <1>2, <1>10
<1>12. /\ y \in ItemRows /\ y.acked = TRUE /\ y.start = own.start /\ y.end = own.end
       /\ y.emitted = L.items[k].emitted /\ y.delivered = L.items[k].delivered
       /\ y.completion = L.items[k].completion
    BY <1>6, <1>8, <1>10, <1>11 DEF ItemRows
<1>13. PICK its : its = [X.items EXCEPT ![k] = y]
    OBVIOUS
<1>14. /\ M \in Ledgers /\ M.frames = X.frames /\ M.allocated = a /\ M.intents = is
       /\ \A j \in Turns : M.items[j] = IF j = k THEN y ELSE X.items[j]
    <2>1. X.items \in [Turns -> ItemRows]
        BY <1>6, LedgerFields
    <2>2. its \in [Turns -> ItemRows]
          /\ \A j \in Turns : its[j] = IF j = k THEN y ELSE X.items[j]
        BY <1>13, <1>12, <2>1
    <2>3. M = [X EXCEPT !.items = its, !.intents = is, !.allocated = a]
        BY <1>13, <1>9
    <2>4. M \in Ledgers /\ M.frames = X.frames /\ M.allocated = a /\ M.intents = is
          /\ M.items = its
        BY <1>6, <1>10, <2>2, <2>3 DEF Ledgers
    <2> QED BY <2>2, <2>4
<1>15. samples(M) = samples(L)
    BY <1>6, <1>14 DEF samples
<1>16. \A j \in Turns : j # k => M.items[j] = L.items[j]
    BY <1>6, <1>14
<1>17. M.items[k] = y
    BY <1>14
<1>18. M.allocated <= samples(M)
    BY <1>10, <1>14, <1>15
<1>19. SaneIntents(M)
    <2>1. SUFFICES ASSUME is # << >> PROVE SaneIntents(M)
        BY <1>14 DEF SaneIntents
    <2>2. is = L.intents
        BY <1>10, <2>1
    <2>3. L.intents[1].start \in Nat
        BY <1>1, <2>1, <2>2, IntentFields
    <2>4. /\ L.intents[1].start <= L.allocated /\ L.intents[1].start <= L.intents[1].end
          /\ L.intents[1].end <= samples(L)
        BY <2>1, <2>2 DEF Sane, SaneIntents
    <2>5. L.intents[1].start <= a
        BY <1>1, <1>10, <2>3, <2>4
    <2> QED BY <1>14, <1>15, <2>2, <2>4, <2>5 DEF SaneIntents
<1>20. ASSUME NEW j \in Turns PROVE SaneItem(M.items[j], M.allocated)
    <2>1. CASE j # k
        <3>1. SaneItem(L.items[j], L.allocated)
            BY DEF Sane
        <3>2. M.items[j] = L.items[j] /\ M.allocated = a
            BY <1>14, <1>16, <2>1
        <3> QED BY <1>1, <1>10, <3>1, <3>2 DEF SaneItem
    <2>2. CASE j = k
        <3>1. M.items[j] = y /\ M.allocated = a
            BY <1>14, <2>2
        <3>2. L.items[k].emitted => L.items[k].completion # "none"
            BY DEF Sane, SaneItem
        <3> QED BY <1>1, <1>10, <1>12, <3>1, <3>2 DEF SaneItem
    <2> QED BY <2>1, <2>2
<1>21. ASSUME NEW f \in 1 .. M.allocated PROVE \E j \in Turns : OwnedBy(M.items[j], f)
    <2>1. f \in 1 .. a
        BY <1>14
    <2>2. CASE f <= L.allocated
        <3>1. f \in 1 .. L.allocated
            BY <1>1, <1>10, <2>1, <2>2
        <3>2. PICK j \in Turns : OwnedBy(L.items[j], f)
            BY <3>1 DEF Sane
        <3>3. j # k
            BY <3>2 DEF OwnedBy
        <3> QED BY <1>16, <3>2, <3>3
    <2>3. CASE ~(f <= L.allocated)
        <3>1. own.start = L.allocated /\ own.end = a
            BY <1>10, <2>1, <2>3
        <3>2. OwnedBy(y, f)
            BY <1>1, <1>10, <1>12, <2>1, <2>3, <3>1 DEF OwnedBy
        <3> QED BY <1>17, <3>2
    <2> QED BY <2>2, <2>3
<1>22. AllSound(M.frames)
    BY <1>6, <1>14 DEF Sane
<1>23. Sane(M)
    BY <1>14, <1>18, <1>19, <1>20, <1>21, <1>22 DEF Sane
<1>24. Keeps(L, M)
    <2>1. ASSUME NEW j \in Turns
          PROVE  /\ L.items[j].acked => /\ M.items[j].acked /\ M.items[j].start = L.items[j].start
                                        /\ M.items[j].end = L.items[j].end
                 /\ L.items[j].emitted => M.items[j].emitted
                 /\ M.items[j].delivered = L.items[j].delivered
        <3>1. CASE j # k
            BY <1>16, <3>1
        <3>2. CASE j = k
            BY <1>12, <1>17, <3>2
        <3> QED BY <3>1, <3>2
    <2>2. samples(L) <= samples(M)
        BY <1>1, <1>15
    <2> QED BY <2>1, <2>2 DEF Keeps
<1>25. AllAskedFor(L) => AllAskedFor(M)
    <2>1. CASE L.allocated = samples(L)
        <3>1. a = samples(L)
            BY <1>1, <1>10, <2>1
        <3> QED BY <1>14, <1>15, <3>1 DEF AllAskedFor
    <2>2. CASE L.intents # << >> /\ L.intents[1].end = samples(L)
        <3>1. CASE is = L.intents
            BY <1>14, <1>15, <2>2, <3>1 DEF AllAskedFor
        <3>2. CASE a = L.intents[1].end
            BY <1>14, <1>15, <2>2, <3>2 DEF AllAskedFor
        <3>3. CASE own.start = Unknown
            <4>1. Lost(M, k)
                BY <1>12, <1>17, <3>3 DEF Lost
            <4> QED BY <4>1 DEF AllAskedFor
        <3> QED BY <1>10, <3>1, <3>2, <3>3
    <2>3. ASSUME NEW j \in Turns, Lost(L, j) PROVE AllAskedFor(M)
        <3>1. j # k
            BY <2>3 DEF Lost
        <3>2. Lost(M, j)
            BY <1>16, <2>3, <3>1 DEF Lost
        <3> QED BY <3>2 DEF AllAskedFor
    <2> QED BY <2>1, <2>2, <2>3 DEF AllAskedFor
<1> QED BY <1>12, <1>16, <1>17, <1>23, <1>24, <1>25

-----------------------------------------------------------------------------
(* Rows and events over the steps of a ledger.                             *)

LEMMA CoveredIs ==
    ASSUME NEW L, Sane(L), NEW k \in Turns, L.items[k].acked
    PROVE  Covered(L, k) = (L.items[k].start # Unknown /\ L.items[k].start < L.items[k].end)
<1>1. samples(L) \in Nat /\ L.allocated \in Nat /\ L.allocated <= samples(L)
    BY SamplesAre, LedgerFields DEF Sane
<1>2. SaneItem(L.items[k], L.allocated)
    BY DEF Sane
<1>3. CASE L.items[k].start = Unknown
    BY <1>3 DEF Covered, range_known
<1>4. CASE L.items[k].start # Unknown
    <2>1. /\ L.items[k].start \in Nat /\ L.items[k].end \in Nat
          /\ L.items[k].start <= L.items[k].end /\ L.items[k].end <= L.allocated
        BY <1>2, <1>4 DEF SaneItem
    <2>2. L.items[k].end <= samples(L)
        BY <1>1, <2>1
    <2> QED BY <1>4, <2>1, <2>2 DEF Covered, range_known
<1> QED BY <1>3, <1>4

LEMMA CoveredStays ==
    ASSUME NEW L, Sane(L), NEW M, Sane(M), NEW k \in Turns, L.items[k].acked, M.items[k].acked,
           M.items[k].start = L.items[k].start, M.items[k].end = L.items[k].end
    PROVE  Covered(M, k) = Covered(L, k)
BY CoveredIs

LEMMA AgreeStays ==
    ASSUME NEW L, Sane(L), NEW M, Sane(M), Keeps(L, M), NEW R, Agree(L, R)
    PROVE  Agree(M, R)
<1>1. R \in RowsOf
    BY DEF Agree
<1>2. ASSUME NEW k \in Turns, L.items[k].acked PROVE M.items[k].acked /\ Covered(M, k) = Covered(L, k)
    BY <1>2, CoveredStays DEF Keeps
<1>3. \A k \in Turns : /\ L.items[k].emitted => M.items[k].emitted
                       /\ M.items[k].delivered = L.items[k].delivered
    BY DEF Keeps
<1>4. ASSUME NEW k \in Turns PROVE AgreeItem(M.items[k], Covered(M, k), R[k])
    <2>1. AgreeItem(L.items[k], Covered(L, k), R[k])
        BY DEF Agree
    <2>2. R[k].status \in Statuses
        BY <1>1 DEF RowsOf, StoreRows
    <2> QED BY <1>2, <1>3, <2>1, <2>2 DEF AgreeItem, Statuses
<1> QED BY <1>1, <1>4 DEF Agree

LEMMA NewsStays ==
    ASSUME NEW L, Sane(L), NEW M, Sane(M), Keeps(L, M), NEW R, NEW e, News(e, L, R)
    PROVE  News(e, M, R)
<1>1. ASSUME NEW k \in Turns, L.items[k].acked PROVE M.items[k].acked /\ Covered(M, k) = Covered(L, k)
    BY <1>1, CoveredStays DEF Keeps
<1>2. \A k \in Turns : L.items[k].emitted => M.items[k].emitted
    BY DEF Keeps
<1> QED BY <1>1, <1>2 DEF News

LEMMA OwesStays ==
    ASSUME NEW L, Sane(L), NEW M, Sane(M), Keeps(L, M), NEW R, NEW s, Owes(s, L, R)
    PROVE  Owes(s, M, R)
BY NewsStays DEF Owes

\* What is said anew joins the queue.
LEMMA OwesMore ==
    ASSUME NEW L, NEW R, NEW s, Owes(s, L, R), NEW t, Owes(t, L, R),
           \A m \in 1 .. Len(s), n \in 1 .. Len(t) : ~Alike(s[m], t[n])
    PROVE  Owes(s \o t, L, R)
<1>1. s \in Seq(EventRows) /\ t \in Seq(EventRows)
    BY DEF Owes
<1>2. /\ s \o t \in Seq(EventRows)
      /\ Len(s \o t) = Len(s) + Len(t)
      /\ Len(s) \in Nat /\ Len(t) \in Nat
      /\ \A i \in 1 .. Len(s) + Len(t) :
            (s \o t)[i] = IF i <= Len(s) THEN s[i] ELSE t[i - Len(s)]
    BY <1>1, ConcatProperties, LenProperties
<1>3. \A d, e : Alike(d, e) => Alike(e, d)
    BY DEF Alike
<1> DEFINE u == s \o t
<1> HIDE DEF u
<1>4. ASSUME NEW i \in 1 .. Len(s) + Len(t)
      PROVE  \/ i \in 1 .. Len(s) /\ u[i] = s[i]
             \/ i - Len(s) \in 1 .. Len(t) /\ u[i] = t[i - Len(s)]
    BY <1>2 DEF u
<1>5. ASSUME NEW i \in 1 .. Len(s) + Len(t) PROVE News(u[i], L, R)
    BY <1>4 DEF Owes
<1>6. ASSUME NEW i \in 1 .. Len(s) + Len(t), NEW j \in 1 .. Len(s) + Len(t), i # j
      PROVE  ~Alike(u[i], u[j])
    <2>1. CASE i \in 1 .. Len(s) /\ u[i] = s[i] /\ j \in 1 .. Len(s) /\ u[j] = s[j]
        BY <1>6, <2>1 DEF Owes
    <2>2. CASE i - Len(s) \in 1 .. Len(t) /\ u[i] = t[i - Len(s)]
               /\ j - Len(s) \in 1 .. Len(t) /\ u[j] = t[j - Len(s)]
        <3>1. i - Len(s) # j - Len(s)
            BY <1>2, <1>6
        <3> QED BY <2>2, <3>1 DEF Owes
    <2>3. CASE i \in 1 .. Len(s) /\ u[i] = s[i] /\ j - Len(s) \in 1 .. Len(t) /\ u[j] = t[j - Len(s)]
        BY <2>3
    <2>4. CASE j \in 1 .. Len(s) /\ u[j] = s[j] /\ i - Len(s) \in 1 .. Len(t) /\ u[i] = t[i - Len(s)]
        BY <1>3, <2>4
    <2> QED BY <1>4, <2>1, <2>2, <2>3, <2>4
<1>7. u \in Seq(EventRows) /\ Len(u) = Len(s) + Len(t)
    BY <1>2 DEF u
<1>8. Owes(u, L, R)
    BY <1>5, <1>6, <1>7 DEF Owes
<1> QED BY <1>8 DEF u

LEMMA NothingIsOwed == \A L, R : Owes(<< >>, L, R)
BY DEF Owes

LEMMA OneIsOwed == ASSUME NEW L, NEW R, NEW e \in EventRows, News(e, L, R) PROVE Owes(<<e>>, L, R)
<1>1. <<e>> \in Seq(EventRows) /\ Len(<<e>>) = 1 /\ <<e>>[1] = e
    OBVIOUS
<1>2. \A n \in 1 .. 1 : n = 1
    OBVIOUS
<1> QED BY <1>1, <1>2 DEF Owes

\* The event in hand is not repeated by what waits behind it.
LEMMA FirstIsOwed ==
    ASSUME NEW L, NEW R, NEW e, NEW t \in Seq(EventRows), e \in EventRows, Owes(<<e>> \o t, L, R)
    PROVE  /\ News(e, L, R) /\ Owes(t, L, R)
           /\ \A n \in 1 .. Len(t) : ~Alike(e, t[n])
<1> DEFINE u == <<e>> \o t
<1>1. <<e>> \in Seq(EventRows) /\ Len(<<e>>) = 1 /\ <<e>>[1] = e
    OBVIOUS
<1>2. /\ Len(u) = 1 + Len(t) /\ Len(t) \in Nat
      /\ \A i \in 1 .. 1 + Len(t) : u[i] = IF i <= 1 THEN <<e>>[i] ELSE t[i - 1]
    BY <1>1, ConcatProperties, LenProperties
<1> HIDE DEF u
<1>3. u[1] = e /\ 1 \in 1 .. Len(u)
    BY <1>1, <1>2
<1>4. ASSUME NEW n \in 1 .. Len(t) PROVE n + 1 \in 1 .. Len(u) /\ n + 1 # 1 /\ u[n + 1] = t[n]
    BY <1>2
<1>5. Owes(u, L, R)
    BY DEF u
<1>6. News(e, L, R)
    BY <1>3, <1>5 DEF Owes
<1>7. ASSUME NEW n \in 1 .. Len(t) PROVE News(t[n], L, R) /\ ~Alike(e, t[n])
    BY <1>3, <1>4, <1>5 DEF Owes
<1>8. ASSUME NEW m \in 1 .. Len(t), NEW n \in 1 .. Len(t), m # n PROVE ~Alike(t[m], t[n])
    <2>1. m + 1 # n + 1
        BY <1>2, <1>8
    <2> QED BY <1>4, <1>5, <2>1 DEF Owes
<1> QED BY <1>6, <1>7, <1>8 DEF Owes

-----------------------------------------------------------------------------
(* One step of one connection.                                             *)

\* The connection c is now as told, and the others are as they were.
Becomes(c, L, R, es, g) ==
    /\ ledger' = [ledger EXCEPT ![c] = L] /\ row' = [row EXCEPT ![c] = R]
    /\ events' = [events EXCEPT ![c] = es] /\ gateway' = [gateway EXCEPT ![c] = g]

LEMMA OneConnection ==
    ASSUME Connections, NEW c \in Conns, NEW L, NEW R, NEW es, NEW g,
           Becomes(c, L, R, es, g), Connection(L, R, es, g), owing' \in [Conns -> SUBSET Turns]
    PROVE  /\ Connections'
           /\ ledger'[c] = L /\ row'[c] = R /\ events'[c] = es /\ gateway'[c] = g
           /\ \A d \in Conns : d # c => /\ ledger'[d] = ledger[d] /\ row'[d] = row[d]
                                        /\ events'[d] = events[d] /\ gateway'[d] = gateway[d]
<1>1. L \in Ledgers /\ R \in RowsOf /\ es \in Seq(EventRows) /\ g \in GatewayRows
    BY DEF Connection, Sane, Agree
<1>2. /\ ledger \in [Conns -> Ledgers] /\ row \in [Conns -> RowsOf]
      /\ events \in [Conns -> Seq(EventRows)] /\ gateway \in [Conns -> GatewayRows]
    BY DEF Connections
<1>3. ledger' \in [Conns -> Ledgers] /\ ledger'[c] = L
      /\ \A d \in Conns : d # c => ledger'[d] = ledger[d]
    BY <1>1, <1>2 DEF Becomes
<1>4. row' \in [Conns -> RowsOf] /\ row'[c] = R
      /\ \A d \in Conns : d # c => row'[d] = row[d]
    BY <1>1, <1>2 DEF Becomes
<1>5. events' \in [Conns -> Seq(EventRows)] /\ events'[c] = es
      /\ \A d \in Conns : d # c => events'[d] = events[d]
    BY <1>1, <1>2 DEF Becomes
<1>6. gateway' \in [Conns -> GatewayRows] /\ gateway'[c] = g
      /\ \A d \in Conns : d # c => gateway'[d] = gateway[d]
    BY <1>1, <1>2 DEF Becomes
<1>7. ASSUME NEW d \in Conns PROVE Connection(ledger'[d], row'[d], events'[d], gateway'[d])
    <2>1. CASE d = c
        BY <1>3, <1>4, <1>5, <1>6, <2>1
    <2>2. CASE d # c
        <3>1. Connection(ledger[d], row[d], events[d], gateway[d])
            BY DEF Connections
        <3> QED BY <1>3, <1>4, <1>5, <1>6, <2>2, <3>1
    <2> QED BY <2>1, <2>2
<1>8. Connections'
    BY <1>3, <1>4, <1>5, <1>6, <1>7 DEF Connections
<1> QED BY <1>3, <1>4, <1>5, <1>6, <1>8

LEMMA OfConnection ==
    ASSUME Connections, NEW c \in Conns
    PROVE  /\ Connection(ledger[c], row[c], events[c], gateway[c])
           /\ Sane(ledger[c]) /\ ledger[c] \in Ledgers /\ Agree(ledger[c], row[c])
           /\ row[c] \in RowsOf
           /\ events[c] \in Seq(EventRows) /\ gateway[c] \in GatewayRows
           /\ gateway[c].event \in EventRows
           /\ Owes(Due(gateway[c], events[c]), ledger[c], row[c])
           /\ gateway[c].pc \in Settling => AllAskedFor(ledger[c])
           /\ owing[c] \subseteq Turns
<1>1. Connection(ledger[c], row[c], events[c], gateway[c]) /\ owing[c] \subseteq Turns
    BY DEF Connections
<1>2. gateway[c] \in GatewayRows => gateway[c].event \in EventRows
    BY DEF GatewayRows
<1> QED BY <1>1, <1>2 DEF Connection, Sane, Agree

\* What is not changed is what it becomes.
LEMMA Unchanged ==
    ASSUME Connections, NEW c \in Conns
    PROVE  /\ ledger = [ledger EXCEPT ![c] = ledger[c]] /\ row = [row EXCEPT ![c] = row[c]]
           /\ events = [events EXCEPT ![c] = events[c]]
           /\ gateway = [gateway EXCEPT ![c] = gateway[c]]
<1>1. /\ ledger \in [Conns -> Ledgers] /\ row \in [Conns -> RowsOf]
      /\ events \in [Conns -> Seq(EventRows)] /\ gateway \in [Conns -> GatewayRows]
    BY DEF Connections
<1>2. ledger = [ledger EXCEPT ![c] = ledger[c]]
    BY <1>1
<1>3. row = [row EXCEPT ![c] = row[c]]
    BY <1>1
<1>4. events = [events EXCEPT ![c] = events[c]]
    BY <1>1
<1>5. gateway = [gateway EXCEPT ![c] = gateway[c]]
    BY <1>1
<1> QED BY <1>2, <1>3, <1>4, <1>5

LEMMA DueGrows ==
    ASSUME NEW g, g.event \in EventRows, NEW es \in Seq(EventRows), NEW t \in Seq(EventRows)
    PROVE  Due(g, es \o t) = Due(g, es) \o t
<1>1. CASE g.pc \in Handling
    <2>1. PICK e \in EventRows : e = g.event
        OBVIOUS
    <2>2. <<e>> \in Seq(EventRows)
        OBVIOUS
    <2>3. (<<e>> \o es) \o t = <<e>> \o (es \o t)
        BY <2>2, ConcatAssociative
    <2>4. Due(g, es \o t) = <<e>> \o (es \o t) /\ Due(g, es) = <<e>> \o es
        BY <1>1, <2>1 DEF Due
    <2> QED BY <2>3, <2>4
<1>2. CASE g.pc \notin Handling
    BY <1>2 DEF Due
<1> QED BY <1>1, <1>2

\* The ledger of an open socket learns more, and the provider says it.
LEMMA LedgerLearns ==
    ASSUME Connections, NEW c \in Conns, NEW M, NEW t,
           gateway[c].pc # "off", Sane(M), Keeps(ledger[c], M),
           AllAskedFor(ledger[c]) /\ gateway[c].pc \in Settling => AllAskedFor(M),
           Owes(t, M, row[c]),
           \A m \in 1 .. Len(Due(gateway[c], events[c])), n \in 1 .. Len(t) :
               ~Alike(Due(gateway[c], events[c])[m], t[n])
    PROVE  Connection(M, row[c], events[c] \o t, gateway[c])
<1> DEFINE L == ledger[c]
           R == row[c]
           g == gateway[c]
           es == events[c]
<1>1. /\ Connection(L, R, es, g) /\ Sane(L) /\ Agree(L, R) /\ es \in Seq(EventRows)
      /\ g \in GatewayRows /\ g.event \in EventRows /\ Owes(Due(g, es), L, R)
      /\ g.pc \in Settling => AllAskedFor(L)
    BY OfConnection
<1>2. Agree(M, R)
    BY <1>1, AgreeStays
<1>3. t \in Seq(EventRows)
    BY DEF Owes
<1>4. es \o t \in Seq(EventRows)
    BY <1>1, <1>3, ConcatProperties
<1>5. Owes(Due(g, es), M, R)
    BY <1>1, OwesStays
<1>6. Owes(Due(g, es) \o t, M, R)
    BY <1>5, OwesMore
<1>7. Due(g, es \o t) = Due(g, es) \o t
    BY <1>1, <1>3, DueGrows
<1>8. Owes(Due(g, es \o t), M, R)
    BY <1>6, <1>7
<1>9. g.pc \in Settling => AllAskedFor(M)
    BY <1>1 DEF Settling
<1>10. g.pc \in Accepting => g.event.item \in Turns
    BY <1>1 DEF Connection
<1> QED BY <1>1, <1>2, <1>4, <1>8, <1>9, <1>10 DEF Connection

-----------------------------------------------------------------------------
(* The provider.                                                           *)

\* Only the ledger of c changed, and what waits to be handled.
LEMMA FrameIsHeard ==
    ASSUME Connections, NEW c \in Conns, Hear(c)
    PROVE  Connections' /\ row' = row /\ gateway' = gateway
<1> DEFINE L == ledger[c]
<1>1. Connection(L, row[c], events[c], gateway[c]) /\ Sane(L) /\ events[c] \in Seq(EventRows)
    BY OfConnection
<1>2. PICK M : M = AppendFrame(L, TRUE)
    OBVIOUS
<1>3. Sane(M) /\ Keeps(L, M)
    BY <1>1, <1>2, FrameHeard
<1>4. gateway[c].pc = "loop"
    BY DEF Hear
<1>5. Connection(M, row[c], events[c] \o << >>, gateway[c])
    <2>1. gateway[c].pc # "off" /\ gateway[c].pc \notin Settling
        BY <1>4 DEF Settling
    <2>2. Owes(<< >>, M, row[c]) /\ \A n \in 1 .. Len(<< >>) : FALSE
        BY NothingIsOwed
    <2> QED BY <1>3, <2>1, <2>2, LedgerLearns
<1>6. events[c] \o << >> = events[c]
    BY <1>1, ConcatEmptySeq
<1>7. row' = row /\ gateway' = gateway /\ events' = events /\ owing' = owing
    BY DEF Hear, ProviderOnly, store
<1>8. ledger' = [ledger EXCEPT ![c] = M]
    BY <1>2 DEF Hear
<1>9. Becomes(c, M, row[c], events[c], gateway[c])
    BY <1>7, <1>8, Unchanged DEF Becomes
<1>10. owing' \in [Conns -> SUBSET Turns]
    BY <1>7 DEF Connections
<1>11. Connections'
    BY <1>5, <1>6, <1>9, <1>10, OneConnection
<1> QED BY <1>7, <1>11

\* The intent of the pause goes, and nothing else is news.
LEMMA EmptyIsRetired ==
    ASSUME Connections, NEW c \in Conns, CommitEmpty(c)
    PROVE  Connections' /\ row' = row /\ gateway' = gateway
<1> DEFINE L == ledger[c]
<1>1. Connection(L, row[c], events[c], gateway[c]) /\ Sane(L) /\ events[c] \in Seq(EventRows)
    BY OfConnection
<1>2. PICK M : M = reconcile_empty_commit(L)
    OBVIOUS
<1>3. PICK id : Superseded(L, id)
    BY DEF CommitEmpty
<1>4. Sane(M) /\ Keeps(L, M) /\ (AllAskedFor(L) => AllAskedFor(M))
    BY <1>1, <1>2, <1>3, CommitRetired
<1>5. Connection(M, row[c], events[c] \o << >>, gateway[c])
    <2>1. gateway[c].pc # "off"
        BY DEF CommitEmpty, Live
    <2>2. Owes(<< >>, M, row[c]) /\ \A n \in 1 .. Len(<< >>) : FALSE
        BY NothingIsOwed
    <2> QED BY <1>4, <2>1, <2>2, LedgerLearns
<1>6. events[c] \o << >> = events[c]
    BY <1>1, ConcatEmptySeq
<1>7. row' = row /\ gateway' = gateway /\ events' = events /\ owing' = owing
    BY DEF CommitEmpty, ProviderOnly, store
<1>8. ledger' = [ledger EXCEPT ![c] = M]
    BY <1>2 DEF CommitEmpty
<1>9. Becomes(c, M, row[c], events[c], gateway[c])
    BY <1>7, <1>8, Unchanged DEF Becomes
<1>10. owing' \in [Conns -> SUBSET Turns]
    BY <1>7 DEF Connections
<1>11. Connections'
    BY <1>5, <1>6, <1>9, <1>10, OneConnection
<1> QED BY <1>7, <1>11

LEMMA FirstUnseen == ASSUME NEW S \in SUBSET Turns, S # {} PROVE Min(S) \in S
<1>1. S \subseteq Nat
    BY TurnLedgerAssumption DEF Turns
<1>2. PICK n \in S : \A m \in S : ~(<<m, n>> \in OpToRel(<, Nat))
    BY <1>1, WFMin, NatLessThanWellFounded
<1>3. ASSUME NEW m \in S PROVE n <= m
    <2>1. m \in Nat /\ n \in Nat
        BY <1>1
    <2>2. ~(m < n)
        BY <1>2, <2>1 DEF OpToRel
    <2> QED BY <2>1, <2>2
<1>4. \E n1 \in S : \A m \in S : n1 <= m
    BY <1>3
<1> QED BY <1>4 DEF Min

LEMMA CommitIsSeen ==
    ASSUME Connections, NEW c \in Conns, Committed(c)
    PROVE  Connections' /\ row' = row /\ gateway' = gateway
<1> DEFINE L == ledger[c]
<1>1. /\ Connection(L, row[c], events[c], gateway[c]) /\ Sane(L) /\ Agree(L, row[c])
      /\ events[c] \in Seq(EventRows)
      /\ Owes(Due(gateway[c], events[c]), L, row[c]) /\ owing[c] \subseteq Turns
    BY OfConnection
<1>2. PICK k \in Turns : k = Min(Unseen(c)) /\ ~L.items[k].acked
    <2>1. Unseen(c) # {} /\ Unseen(c) \in SUBSET Turns
        BY DEF Committed, Unseen
    <2> QED BY <2>1, FirstUnseen DEF Unseen
<1>3. PICK end \in {Unknown} \cup L.allocated .. samples(L) :
         ledger' = [ledger EXCEPT ![c] =
             ObserveCommitted(IF end = Unknown THEN L ELSE ObserveStopped(L, k, end), k)]
    BY <1>2 DEF Committed
<1>4. PICK X : Stopped(L, k, end, X)
    BY DEF Stopped
<1>5. PICK M : M = ObserveCommitted(X, k)
    OBVIOUS
<1>6. ledger' = [ledger EXCEPT ![c] = M]
    BY <1>3, <1>4, <1>5 DEF Stopped
<1>7. /\ Sane(M) /\ Keeps(L, M) /\ M.items[k].acked
      /\ AllAskedFor(L) => AllAskedFor(M)
    BY <1>1, <1>2, <1>4, <1>5, CommitSeen
<1>8. ledger'[c] = M
    BY <1>6 DEF Connections
<1>9. PICK e : e = [type |-> "committed", item |-> k, covered |-> Covered(M, k)]
    OBVIOUS
<1>10. events' = [events EXCEPT ![c] = events[c] \o <<e>>]
    BY <1>2, <1>8, <1>9 DEF Committed, Emit
<1>11. e.type = "committed" /\ e.item = k /\ e.covered = Covered(M, k) /\ e \in EventRows
    <2>1. Covered(M, k) \in BOOLEAN
        BY DEF Covered, range_known
    <2>2. k \in Nat
        BY TurnLedgerAssumption DEF Turns
    <2> QED BY <1>9, <2>1, <2>2 DEF EventRows
<1>12. row[c][k].status \in {"none", "unmatched_completion"}
    BY <1>1, <1>2 DEF Agree, AgreeItem
<1>13. News(e, M, row[c])
    BY <1>7, <1>11, <1>12 DEF News, Completions
<1>14. Owes(<<e>>, M, row[c])
    BY <1>11, <1>13, OneIsOwed
<1>15. \A m \in 1 .. Len(Due(gateway[c], events[c])) : ~Alike(Due(gateway[c], events[c])[m], e)
    <2>1. SUFFICES ASSUME NEW m \in 1 .. Len(Due(gateway[c], events[c])),
                          Alike(Due(gateway[c], events[c])[m], e)
                   PROVE  FALSE
        OBVIOUS
    <2> DEFINE d == Due(gateway[c], events[c])[m]
    <2>2. News(d, L, row[c])
        BY <1>1 DEF Owes
    <2>3. d.type = "committed" /\ d.item = k
        BY <1>11, <2>1 DEF Alike, Completions
    <2> QED BY <1>2, <2>2, <2>3 DEF News
<1>16. \A m \in 1 .. Len(Due(gateway[c], events[c])), n \in 1 .. Len(<<e>>) :
          ~Alike(Due(gateway[c], events[c])[m], <<e>>[n])
    <2>1. \A n \in 1 .. Len(<<e>>) : <<e>>[n] = e
        OBVIOUS
    <2> QED BY <1>15, <2>1
<1>17. gateway[c].pc # "off"
    BY DEF Committed, Live
<1>18. Connection(M, row[c], events[c] \o <<e>>, gateway[c])
    BY <1>7, <1>14, <1>16, <1>17, LedgerLearns
<1>19. row' = row /\ gateway' = gateway
    BY DEF Committed, ProviderOnly, store
<1>20. owing' \in [Conns -> SUBSET Turns]
    <2>1. owing' = owing \/ owing' = [owing EXCEPT ![c] = owing[c] \cup {k}]
        BY <1>2 DEF Committed
    <2>2. owing \in [Conns -> SUBSET Turns]
        BY DEF Connections
    <2> QED BY <1>1, <2>1, <2>2
<1>21. Becomes(c, M, row[c], events[c] \o <<e>>, gateway[c])
    BY <1>6, <1>10, <1>19, Unchanged DEF Becomes
<1>22. Connections'
    BY <1>18, <1>20, <1>21, OneConnection
<1> QED BY <1>19, <1>22

LEMMA TextIsHeard ==
    ASSUME Connections, NEW c \in Conns, Transcribed(c)
    PROVE  Connections' /\ row' = row /\ gateway' = gateway
<1> DEFINE L == ledger[c]
<1>1. /\ Connection(L, row[c], events[c], gateway[c]) /\ Sane(L) /\ Agree(L, row[c])
      /\ events[c] \in Seq(EventRows)
      /\ Owes(Due(gateway[c], events[c]), L, row[c]) /\ owing[c] \subseteq Turns
    BY OfConnection
<1>2. owing[c] \cup (IF Unseen(c) = {} THEN {} ELSE {Min(Unseen(c))}) \subseteq Turns
    <2>1. Unseen(c) \in SUBSET Turns
        BY DEF Unseen
    <2> QED BY <1>1, <2>1, FirstUnseen
<1>3. PICK k \in Turns, text \in {"text", "empty"} :
        LET said == IF text = "text" /\ ~range_known(L, k) THEN "error" ELSE text
            complete == Completed(L, k, said)
        IN  /\ ledger' = [ledger EXCEPT ![c] = Emitted(complete)]
            /\ Emit(c, [n \in DOMAIN ready(complete) |->
                          [type |-> complete.items[ready(complete)[n]].completion,
                           item |-> ready(complete)[n], covered |-> FALSE]])
            /\ owing' = [owing EXCEPT ![c] = owing[c] \ {k}]
    BY <1>2 DEF Transcribed
<1>4. PICK said \in {"text", "empty", "error"} :
          said = IF text = "text" /\ ~range_known(L, k) THEN "error" ELSE text
    OBVIOUS
<1>5. PICK X : X = Completed(L, k, said)
    OBVIOUS
<1>6. PICK M : M = Emitted(X)
    OBVIOUS
<1>7. PICK r : r = ready(X)
    OBVIOUS
<1>8. PICK t : t = [n \in DOMAIN r |-> [type |-> X.items[r[n]].completion,
                                        item |-> r[n], covered |-> FALSE]]
    OBVIOUS
<1>9. /\ ledger' = [ledger EXCEPT ![c] = M]
      /\ events' = [events EXCEPT ![c] = events[c] \o t]
      /\ owing' = [owing EXCEPT ![c] = owing[c] \ {k}]
    BY <1>3, <1>4, <1>5, <1>6, <1>7, <1>8 DEF Emit
<1>10. /\ Sane(M) /\ Keeps(L, M)
       /\ AllAskedFor(L) => AllAskedFor(M)
       /\ EmitsNow(L, X, M)
    BY <1>1, <1>5, <1>6, TurnCompleted
<1>11. /\ r \in Seq(Released(X))
       /\ \A m, n \in 1 .. Len(r) : m # n => r[m] # r[n]
    BY <1>7, ReadyIs
<1>12. Len(r) \in Nat /\ DOMAIN r = 1 .. Len(r) /\ \A n \in 1 .. Len(r) : r[n] \in Released(X)
    BY <1>11, LenProperties, ElementOfSeq
<1>13. ASSUME NEW n \in 1 .. Len(r)
       PROVE  /\ t[n].type \in {"text", "empty", "error"} /\ t[n].item = r[n]
              /\ t[n].covered = FALSE /\ t[n].item \in Turns /\ t[n] \in EventRows
    <2>1. t[n] = [type |-> X.items[r[n]].completion, item |-> r[n], covered |-> FALSE]
        BY <1>8, <1>12
    <2>2. r[n] \in Turns /\ r[n] \in Nat /\ X.items[r[n]].completion \in {"text", "empty", "error"}
        BY <1>10, <1>12, TurnLedgerAssumption DEF Turns, EmitsNow
    <2> QED BY <2>1, <2>2 DEF EventRows
<1>14. t \in Seq(EventRows) /\ Len(t) = Len(r)
    <2>1. t \in [1 .. Len(r) -> EventRows]
        BY <1>8, <1>12, <1>13
    <2> QED BY <1>12, <2>1, IsASeq, LenProperties
<1>15. ASSUME NEW n \in 1 .. Len(t) PROVE News(t[n], M, row[c])
    <2>1. /\ ~L.items[t[n].item].emitted /\ M.items[t[n].item].emitted /\ t[n].item \in Turns
          /\ t[n].type \in {"text", "empty", "error"}
        <3>1. n \in 1 .. Len(r)
            BY <1>14
        <3>2. t[n].item = r[n] /\ r[n] \in Released(X) /\ t[n].type \in {"text", "empty", "error"}
            BY <1>12, <1>13, <3>1
        <3> QED BY <1>10, <3>2 DEF EmitsNow
    <2>2. row[c][t[n].item].text = "none"
        BY <1>1, <2>1 DEF Agree, AgreeItem
    <2> QED BY <2>1, <2>2 DEF News
<1>16. ASSUME NEW m \in 1 .. Len(t), NEW n \in 1 .. Len(t), m # n PROVE ~Alike(t[m], t[n])
    <2>1. m \in 1 .. Len(r) /\ n \in 1 .. Len(r)
        BY <1>14
    <2>2. t[m].item # t[n].item
        BY <1>11, <1>13, <1>16, <2>1
    <2> QED BY <2>2 DEF Alike
<1>17. Owes(t, M, row[c])
    BY <1>14, <1>15, <1>16 DEF Owes
<1>18. ASSUME NEW m \in 1 .. Len(Due(gateway[c], events[c])), NEW n \in 1 .. Len(t)
       PROVE  ~Alike(Due(gateway[c], events[c])[m], t[n])
    <2>1. SUFFICES ASSUME Alike(Due(gateway[c], events[c])[m], t[n]) PROVE FALSE
        OBVIOUS
    <2> DEFINE d == Due(gateway[c], events[c])[m]
    <2>2. News(d, L, row[c])
        BY <1>1 DEF Owes
    <2>3. d.type \in Completions /\ d.item = t[n].item
        BY <1>13, <1>14, <2>1 DEF Alike
    <2>4. L.items[t[n].item].emitted
        BY <2>2, <2>3 DEF News
    <2>5. ~L.items[t[n].item].emitted
        <3>1. n \in 1 .. Len(r)
            BY <1>14
        <3>2. r[n] \in Released(X) /\ t[n].item = r[n]
            BY <1>12, <1>13, <3>1
        <3> QED BY <1>10, <3>2 DEF EmitsNow
    <2> QED BY <2>4, <2>5
<1>19. gateway[c].pc # "off"
    BY DEF Transcribed, Live
<1>20. Connection(M, row[c], events[c] \o t, gateway[c])
    BY <1>10, <1>17, <1>18, <1>19, LedgerLearns
<1>21. row' = row /\ gateway' = gateway
    BY DEF Transcribed, ProviderOnly, store
<1>22. owing' \in [Conns -> SUBSET Turns]
    <2>1. owing \in [Conns -> SUBSET Turns]
        BY DEF Connections
    <2> QED BY <1>1, <1>9, <2>1
<1>23. Becomes(c, M, row[c], events[c] \o t, gateway[c])
    BY <1>9, <1>21, Unchanged DEF Becomes
<1>24. Connections'
    BY <1>20, <1>22, <1>23, OneConnection
<1> QED BY <1>21, <1>24

-----------------------------------------------------------------------------
(* The rows and what is owed to them, when the store writes one.           *)

\* A whole row is written, or the status of one.
Puts(Q, R, k, r) == Q = [R EXCEPT ![k] = r]
Writes(Q, R, k, x) == Q = [R EXCEPT ![k].status = x]

LEMMA OneRow ==
    ASSUME NEW R \in RowsOf, NEW k \in Turns, NEW r \in StoreRows,
           NEW Q, Puts(Q, R, k, r)
    PROVE  Q \in RowsOf /\ Q[k] = r /\ \A j \in Turns : j # k => Q[j] = R[j]
BY DEF RowsOf, Puts

LEMMA OneAgrees ==
    ASSUME NEW L, NEW R, Agree(L, R), NEW Q \in RowsOf, NEW k \in Turns,
           \A j \in Turns : j # k => Q[j] = R[j], AgreeItem(L.items[k], Covered(L, k), Q[k])
    PROVE  Agree(L, Q)
BY DEF Agree

\* A status is written: what remains of the row is as it was.
LEMMA StatusWritten ==
    ASSUME NEW R \in RowsOf, NEW k \in Turns, NEW x \in Statuses, NEW Q, Writes(Q, R, k, x)
    PROVE  /\ Q \in RowsOf /\ Q[k].status = x /\ Q[k].text = R[k].text
           /\ \A j \in Turns : j # k => Q[j] = R[j]
<1>1. PICK r : r = [R[k] EXCEPT !.status = x]
    OBVIOUS
<1>2. R[k] \in StoreRows
    BY DEF RowsOf
<1>3. r \in StoreRows /\ r.status = x /\ r.text = R[k].text
    BY <1>1, <1>2 DEF StoreRows
<1>4. Puts(Q, R, k, r)
    BY <1>1 DEF Writes, Puts
<1> QED BY <1>3, <1>4, OneRow

LEMMA CommitAgrees ==
    ASSUME NEW L, NEW R, Agree(L, R), NEW k \in Turns, L.items[k].acked,
           R[k].status \in {"none", "unmatched_completion"},
           NEW x \in {"coverage_unknown", "committed", "empty", "transcribed"},
           x # "coverage_unknown" => Covered(L, k),
           x = "committed" => R[k].text = "none", x = "empty" => R[k].text = "empty",
           x = "transcribed" => R[k].text \notin {"none", "empty"},
           NEW Q, Writes(Q, R, k, x)
    PROVE  /\ Agree(L, Q) /\ Q[k].status = x /\ Q[k].text = R[k].text
           /\ \A j \in Turns : j # k => Q[j] = R[j]
<1>1. R \in RowsOf /\ x \in Statuses
    BY DEF Agree, Statuses
<1>2. /\ Q \in RowsOf /\ Q[k].status = x /\ Q[k].text = R[k].text
      /\ \A j \in Turns : j # k => Q[j] = R[j]
    BY <1>1, StatusWritten
<1>3. AgreeItem(L.items[k], Covered(L, k), R[k])
    BY DEF Agree
<1>4. R[k].text \in {"none", "text", "empty"}
    BY <1>1 DEF RowsOf, StoreRows
<1>5. ~L.items[k].delivered /\ (R[k].text # "none" => L.items[k].emitted)
    BY <1>3 DEF AgreeItem
<1>6. AgreeItem(L.items[k], Covered(L, k), Q[k])
    BY <1>2, <1>4, <1>5 DEF AgreeItem
<1> QED BY <1>2, <1>6, OneAgrees

LEMMA CompletionAgrees ==
    ASSUME NEW L, NEW R, Agree(L, R), NEW k \in Turns, L.items[k].emitted, R[k].text = "none",
           NEW text \in Completions, NEW x,
           x = IF R[k].status = "none" THEN "unmatched_completion"
               ELSE IF R[k].status = "coverage_unknown" THEN "coverage_unknown"
               ELSE IF text = "empty" THEN "empty" ELSE "transcribed",
           NEW Q, Puts(Q, R, k, [status |-> x, text |-> text])
    PROVE  /\ Agree(L, Q) /\ Q[k].status = x /\ Q[k].text = text
           /\ R[k].status \in {"none", "unmatched_completion"} => x = "unmatched_completion"
           /\ R[k].status # "evidence_accepted" /\ x # "evidence_accepted"
           /\ \A j \in Turns : j # k => Q[j] = R[j]
<1>1. R \in RowsOf /\ x \in Statuses /\ text \in {"none", "text", "empty"}
    BY DEF Agree, Statuses, Completions
<1>2. PICK r : r = [status |-> x, text |-> text]
    OBVIOUS
<1>3. r \in StoreRows /\ r.status = x /\ r.text = text
    BY <1>1, <1>2 DEF StoreRows
<1>4. Q \in RowsOf /\ Q[k] = r /\ \A j \in Turns : j # k => Q[j] = R[j]
    BY <1>1, <1>2, <1>3, OneRow
<1>5. AgreeItem(L.items[k], Covered(L, k), R[k])
    BY DEF Agree
<1>6. R[k].status \in Statuses
    BY <1>1 DEF RowsOf, StoreRows
<1>7. R[k].status \in {"none", "coverage_unknown", "committed"} /\ ~L.items[k].delivered
    BY <1>5, <1>6 DEF AgreeItem, Statuses
<1>8. /\ R[k].status = "coverage_unknown" => L.items[k].acked
      /\ R[k].status = "committed" => L.items[k].acked /\ Covered(L, k)
    BY <1>5 DEF AgreeItem
<1>9. AgreeItem(L.items[k], Covered(L, k), r)
    BY <1>3, <1>7, <1>8 DEF AgreeItem, Completions
<1>10. Agree(L, Q)
    BY <1>4, <1>9, OneAgrees
<1> QED BY <1>3, <1>4, <1>7, <1>10

LEMMA AcceptedAgrees ==
    ASSUME NEW L, NEW R, Agree(L, R), NEW k \in Turns, R[k].status = "transcribed",
           NEW Q, Writes(Q, R, k, "evidence_accepted")
    PROVE  /\ Agree(L, Q) /\ Q[k].status = "evidence_accepted" /\ Q[k].text = "text"
           /\ R[k].text = "text"
           /\ \A j \in Turns : j # k => Q[j] = R[j]
<1>1. R \in RowsOf /\ "evidence_accepted" \in Statuses
    BY DEF Agree, Statuses
<1>2. /\ Q \in RowsOf /\ Q[k].status = "evidence_accepted" /\ Q[k].text = R[k].text
      /\ \A j \in Turns : j # k => Q[j] = R[j]
    BY <1>1, StatusWritten
<1>3. AgreeItem(L.items[k], Covered(L, k), R[k])
    BY DEF Agree
<1>4. R[k].text = "text"
    BY <1>3 DEF AgreeItem
<1>5. AgreeItem(L.items[k], Covered(L, k), Q[k])
    BY <1>2, <1>3, <1>4 DEF AgreeItem
<1> QED BY <1>2, <1>4, <1>5, OneAgrees

\* The client counts an item as delivered once its outcome is on record.
LEMMA AcknowledgedAgrees ==
    ASSUME NEW L, Sane(L), NEW R, Agree(L, R), NEW k \in Turns, R[k].text # "none",
           R[k].status \in {"evidence_accepted", "empty", "coverage_unknown"},
           NEW M, M = acknowledge(L, k), NEW t, Owes(t, L, R)
    PROVE  /\ Sane(M) /\ Agree(M, R) /\ Owes(t, M, R)
           /\ AllAskedFor(L) => AllAskedFor(M)
<1>1. /\ Sane(M)
      /\ AllAskedFor(L) => AllAskedFor(M)
      /\ \A j \in Turns :
            /\ M.items[j].acked = L.items[j].acked /\ M.items[j].start = L.items[j].start
            /\ M.items[j].end = L.items[j].end /\ M.items[j].emitted = L.items[j].emitted
            /\ M.items[j].delivered = (L.items[j].delivered \/ j = k)
    BY TurnAcknowledged
<1>2. ASSUME NEW j \in Turns, L.items[j].acked PROVE M.items[j].acked /\ Covered(M, j) = Covered(L, j)
    BY <1>1, <1>2, CoveredStays
<1>3. R \in RowsOf
    BY DEF Agree
<1>4. ASSUME NEW j \in Turns PROVE AgreeItem(M.items[j], Covered(M, j), R[j])
    <2>1. AgreeItem(L.items[j], Covered(L, j), R[j])
        BY DEF Agree
    <2>2. R[j].status \in Statuses
        BY <1>3 DEF RowsOf, StoreRows
    <2>3. R[j].status \in {"committed", "transcribed", "empty", "evidence_accepted"} => Covered(M, j)
        BY <1>2, <2>1 DEF AgreeItem
    <2>4. M.items[j].delivered =>
              R[j].text # "none" /\ R[j].status \in {"evidence_accepted", "empty", "coverage_unknown"}
        BY <1>1, <2>1 DEF AgreeItem
    <2>5. M.items[j].acked = L.items[j].acked /\ M.items[j].emitted = L.items[j].emitted
        BY <1>1
    <2> QED BY <2>1, <2>3, <2>4, <2>5 DEF AgreeItem
<1>5. Agree(M, R)
    BY <1>3, <1>4 DEF Agree
<1>6. ASSUME NEW n \in 1 .. Len(t) PROVE News(t[n], M, R)
    <2>1. News(t[n], L, R)
        BY DEF Owes
    <2> QED BY <1>1, <1>2, <2>1 DEF News
<1>7. Owes(t, M, R)
    BY <1>6 DEF Owes
<1> QED BY <1>1, <1>5, <1>7

LEMMA OwesRows ==
    ASSUME NEW L, NEW R, NEW t, Owes(t, L, R), NEW Q, NEW k,
           \A j \in Turns : j # k => Q[j] = R[j],
           \A n \in 1 .. Len(t) : t[n].item = k =>
               /\ t[n].type = "committed" => Q[k].status \in {"none", "unmatched_completion"}
               /\ t[n].type \in Completions => Q[k].text = "none"
    PROVE  Owes(t, L, Q)
<1>1. ASSUME NEW n \in 1 .. Len(t) PROVE News(t[n], L, Q)
    <2>1. News(t[n], L, R)
        BY DEF Owes
    <2>2. CASE t[n].item = k
        BY <2>1, <2>2 DEF News
    <2>3. CASE t[n].item # k
        BY <2>1, <2>3 DEF News
    <2> QED BY <2>2, <2>3
<1> QED BY <1>1 DEF Owes

-----------------------------------------------------------------------------
(* The handler of a connection.                                            *)

\* Where the handler of c is now, and what it did not touch.
OnlyRow(c, R) == row'[c] = R /\ \A d \in Conns : d # c => row'[d] = row[d]

LEMMA HandlerQuits ==
    ASSUME Connections, NEW c \in Conns, NEW pc \in {"closing", "gone"}, Closes(c, pc),
           ledger' = ledger, NEW R, Agree(ledger[c], R), row' = [row EXCEPT ![c] = R]
    PROVE  Connections' /\ OnlyRow(c, R)
<1>1. PICK g : g = [pc |-> pc, event |-> NoEvent]
    OBVIOUS
<1>2. g \in GatewayRows /\ g.pc = pc
    <2>1. NoEvent \in EventRows
        BY DEF NoEvent, EventRows
    <2> QED BY <1>1, <2>1 DEF GatewayRows
<1>3. g.pc \notin Handling /\ g.pc \notin Accepting /\ g.pc \notin Settling /\ g.pc # "off"
    BY <1>2 DEF Handling, Accepting, Settling
<1>4. Due(g, << >>) = << >>
    BY <1>3 DEF Due
<1>5. Sane(ledger[c])
    BY OfConnection
<1>6. << >> \in Seq(EventRows)
    OBVIOUS
<1>7. Connection(ledger[c], R, << >>, g)
    BY <1>2, <1>3, <1>4, <1>5, <1>6, NothingIsOwed DEF Connection
<1>8. gateway' = [gateway EXCEPT ![c] = g] /\ events' = [events EXCEPT ![c] = << >>]
    BY <1>1 DEF Closes, Goes
<1>9. owing' \in [Conns -> SUBSET Turns]
    <2>1. owing \in [Conns -> SUBSET Turns]
        BY DEF Connections
    <2> QED BY <2>1 DEF Closes
<1>10. Becomes(c, ledger[c], R, << >>, g)
    BY <1>8, Unchanged DEF Becomes
<1> QED BY <1>7, <1>9, <1>10, OneConnection DEF OnlyRow

LEMMA HandlerReturns ==
    ASSUME Connections, NEW c \in Conns, NEW pc \in {"loop", "settling"}, Goes(c, pc),
           NEW M, Sane(M), NEW R, Agree(M, R), Owes(events[c], M, R),
           pc = "settling" => AllAskedFor(M),
           ledger' = [ledger EXCEPT ![c] = M], row' = [row EXCEPT ![c] = R],
           events' = events, owing' = owing
    PROVE  Connections' /\ OnlyRow(c, R)
<1>1. PICK g : g = [pc |-> pc, event |-> NoEvent]
    OBVIOUS
<1>2. g \in GatewayRows /\ g.pc = pc
    <2>1. NoEvent \in EventRows
        BY DEF NoEvent, EventRows
    <2>2. pc \in {"off", "loop", "handling", "accepting", "closing", "gone"} \cup Settling
        BY DEF Settling
    <2> QED BY <1>1, <2>1, <2>2 DEF GatewayRows
<1>3. g.pc \notin Handling /\ g.pc \notin Accepting /\ g.pc # "off"
      /\ (g.pc \in Settling => pc = "settling")
    BY <1>2 DEF Handling, Accepting, Settling
<1>4. Due(g, events[c]) = events[c]
    BY <1>3 DEF Due
<1>5. events[c] \in Seq(EventRows)
    BY OfConnection
<1>6. Connection(M, R, events[c], g)
    BY <1>2, <1>3, <1>4, <1>5 DEF Connection
<1>7. gateway' = [gateway EXCEPT ![c] = g]
    BY <1>1 DEF Goes
<1>8. owing' \in [Conns -> SUBSET Turns]
    BY DEF Connections
<1>9. Becomes(c, M, R, events[c], g)
    BY <1>7, Unchanged DEF Becomes
<1> QED BY <1>6, <1>8, <1>9, OneConnection DEF OnlyRow

\* What waits behind the event in hand, if any, is owed alone.
LEMMA WaitingIsOwed ==
    ASSUME Connections, NEW c \in Conns
    PROVE  Owes(events[c], ledger[c], row[c])
<1>1. /\ events[c] \in Seq(EventRows) /\ gateway[c].event \in EventRows
      /\ Owes(Due(gateway[c], events[c]), ledger[c], row[c])
    BY OfConnection
<1>2. CASE gateway[c].pc \in Handling
    BY <1>1, <1>2, FirstIsOwed DEF Due
<1>3. CASE gateway[c].pc \notin Handling
    BY <1>1, <1>3 DEF Due
<1> QED BY <1>2, <1>3

LEMMA EventIsNews ==
    ASSUME Connections, NEW c \in Conns, gateway[c].pc \in Handling
    PROVE  /\ News(gateway[c].event, ledger[c], row[c])
           /\ \A n \in 1 .. Len(events[c]) : ~Alike(gateway[c].event, events[c][n])
<1>1. /\ events[c] \in Seq(EventRows) /\ gateway[c].event \in EventRows
      /\ Owes(Due(gateway[c], events[c]), ledger[c], row[c])
    BY OfConnection
<1> QED BY <1>1, FirstIsOwed DEF Due

LEMMA StagesAre ==
    ASSUME NEW c
    PROVE  /\ In(c, "handling") = (gateway[c].pc \in Handling)
           /\ In(c, "accepting") = (gateway[c].pc \in Accepting)
           /\ InPause("handling") = "s-handling" /\ InPause("accepting") = "s-accepting"
BY DEF In, InPause, Handling, Accepting

\* The rows of evidence are the same, and so is the evidence.
EvidenceStays ==
    /\ evidence' = evidence
    /\ \A d \in Conns, k \in Turns : IsEvidence(d, k)' <=> IsEvidence(d, k)

LEMMA RowOfNoEvidence ==
    ASSUME NEW c \in Conns, NEW k \in Turns, NEW R, OnlyRow(c, R), evidence' = evidence,
           R[k].status # "evidence_accepted", row[c][k].status # "evidence_accepted",
           \A j \in Turns : j # k => R[j] = row[c][j]
    PROVE  EvidenceStays
<1>1. ASSUME NEW d \in Conns, NEW j \in Turns PROVE IsEvidence(d, j)' <=> IsEvidence(d, j)
    <2>1. CASE d # c
        BY <2>1 DEF OnlyRow, IsEvidence
    <2>2. CASE d = c /\ j # k
        BY <2>2 DEF OnlyRow, IsEvidence
    <2>3. CASE d = c /\ j = k
        BY <2>3 DEF OnlyRow, IsEvidence
    <2> QED BY <2>1, <2>2, <2>3
<1> QED BY <1>1 DEF EvidenceStays

LEMMA EventTaken ==
    ASSUME Connections, NEW c \in Conns, TakeEvent(c)
    PROVE  Connections' /\ row' = row /\ evidence' = evidence
<1> DEFINE es == events[c]
<1>1. /\ Connection(ledger[c], row[c], es, gateway[c]) /\ Sane(ledger[c])
      /\ Agree(ledger[c], row[c]) /\ es \in Seq(EventRows)
      /\ Owes(es, ledger[c], row[c])
      /\ gateway[c].pc \in Settling => AllAskedFor(ledger[c])
    BY OfConnection, WaitingIsOwed
<1>2. gateway[c].pc \in {"loop", "settling"} /\ es # << >>
    BY DEF TakeEvent
<1>3. PICK g : g = [pc |-> IF gateway[c].pc = "loop" THEN "handling" ELSE "s-handling",
                    event |-> Head(es)]
    OBVIOUS
<1>4. gateway' = [gateway EXCEPT ![c] = g] /\ events' = [events EXCEPT ![c] = Tail(es)]
      /\ ledger' = ledger /\ row' = row /\ owing' = owing /\ evidence' = evidence
    BY <1>3 DEF TakeEvent, store
<1>5. Head(es) \in EventRows /\ Tail(es) \in Seq(EventRows) /\ es = <<Head(es)>> \o Tail(es)
    BY <1>1, <1>2, HeadTailProperties
<1>6. g.pc \in Handling /\ g.event = Head(es) /\ g \in GatewayRows
      /\ (g.pc \in Settling => gateway[c].pc \in Settling)
      /\ g.pc \notin Accepting /\ g.pc # "off"
    BY <1>2, <1>3, <1>5 DEF Handling, Settling, Accepting, GatewayRows
<1>7. Due(g, Tail(es)) = es
    BY <1>5, <1>6 DEF Due
<1>8. Connection(ledger[c], row[c], Tail(es), g)
    BY <1>1, <1>5, <1>6, <1>7 DEF Connection
<1>9. Becomes(c, ledger[c], row[c], Tail(es), g)
    BY <1>4, Unchanged DEF Becomes
<1>10. owing' \in [Conns -> SUBSET Turns]
    BY <1>4 DEF Connections
<1> QED BY <1>4, <1>8, <1>9, <1>10, OneConnection

LEMMA CommitRecorded ==
    ASSUME Connections, NEW c \in Conns, RecordCommit(c)
    PROVE  Connections' /\ EvidenceStays
<1> DEFINE L == ledger[c]
           e == gateway[c].event
           k == Item(c)
<1>1. gateway[c].pc \in Handling /\ e.type = "committed"
    BY StagesAre DEF RecordCommit, Handles
<1>2. /\ Sane(L) /\ Agree(L, row[c]) /\ row[c] \in RowsOf
      /\ Owes(events[c], L, row[c])
      /\ gateway[c].pc \in Settling => AllAskedFor(L)
    BY OfConnection, WaitingIsOwed
<1>3. /\ News(e, L, row[c])
      /\ \A n \in 1 .. Len(events[c]) : ~Alike(e, events[c][n])
    BY <1>1, EventIsNews
<1>4. /\ k \in Turns /\ L.items[k].acked /\ e.covered = Covered(L, k)
      /\ row[c][k].status \in {"none", "unmatched_completion"}
    BY <1>1, <1>3 DEF News, Item
<1>5. PICK x : x = CommitStatus(c, k)
    OBVIOUS
<1>6. /\ x \in {"coverage_unknown", "committed", "empty", "transcribed"}
      /\ x # "coverage_unknown" => Covered(L, k)
      /\ x = "committed" => row[c][k].text = "none"
      /\ x = "empty" => row[c][k].text = "empty"
      /\ x = "transcribed" => row[c][k].text \notin {"none", "empty"}
    BY <1>4, <1>5 DEF CommitStatus
<1>7. PICK Q : Writes(Q, row[c], k, x)
    BY DEF Writes
<1>8. /\ Agree(L, Q) /\ Q[k].status = x /\ Q[k].text = row[c][k].text
      /\ \A j \in Turns : j # k => Q[j] = row[c][j]
    BY <1>2, <1>4, <1>6, <1>7, CommitAgrees
<1>9. Owes(events[c], L, Q)
    <2>1. ASSUME NEW n \in 1 .. Len(events[c]), events[c][n].item = k
          PROVE  /\ events[c][n].type # "committed"
                 /\ events[c][n].type \in Completions => Q[k].text = "none"
        <3>1. events[c][n].type # "committed"
            BY <1>1, <1>3, <2>1 DEF Alike, Item
        <3>2. News(events[c][n], L, row[c])
            BY <1>2 DEF Owes
        <3> QED BY <1>8, <2>1, <3>1, <3>2 DEF News
    <2>2. \A j \in Turns : j # k => Q[j] = row[c][j]
        BY <1>8
    <2> QED BY <1>2, <2>1, <2>2, OwesRows
<1>10. row' = [row EXCEPT ![c] = Q]
    BY <1>5, <1>7 DEF RecordCommit, Writes
<1>11. PICK pc \in {"loop", "settling"} :
          Goes(c, pc) /\ (pc = "settling" => gateway[c].pc \in Settling)
    BY DEF RecordCommit, Back, Settling
<1>12. ledger' = [ledger EXCEPT ![c] = L] /\ events' = events /\ owing' = owing
       /\ evidence' = evidence
    BY Unchanged DEF RecordCommit, provider
<1>13. Connections' /\ OnlyRow(c, Q)
    BY <1>2, <1>8, <1>9, <1>10, <1>11, <1>12, HandlerReturns
<1>14. Q[k].status # "evidence_accepted" /\ row[c][k].status # "evidence_accepted"
    BY <1>4, <1>6, <1>8
<1> QED BY <1>4, <1>8, <1>12, <1>13, <1>14, RowOfNoEvidence

LEMMA CompletionRecorded ==
    ASSUME Connections, NEW c \in Conns, RecordCompletion(c)
    PROVE  Connections' /\ EvidenceStays
<1> DEFINE L == ledger[c]
           e == gateway[c].event
           k == Item(c)
<1>1. PICK text \in Completions :
          /\ Handles(c, text)
          /\ LET status == CompletionStatus(c, k, text)
             IN  /\ row' = [row EXCEPT ![c][k] = [status |-> status, text |-> text]]
                 /\ IF text = "text"
                    THEN Stage(c, "accepting") /\ UNCHANGED ledger
                    ELSE /\ ledger' = IF Settles(status)
                                      THEN [ledger EXCEPT ![c] = acknowledge(@, k)]
                                      ELSE ledger
                         /\ Back(c)
    BY DEF RecordCompletion, Completions
<1>2. gateway[c].pc \in Handling /\ e.type = text
    BY <1>1, StagesAre DEF Handles
<1>3. /\ Sane(L) /\ Agree(L, row[c]) /\ row[c] \in RowsOf /\ gateway[c] \in GatewayRows
      /\ Owes(events[c], L, row[c]) /\ events[c] \in Seq(EventRows)
      /\ gateway[c].pc \in Settling => AllAskedFor(L)
    BY OfConnection, WaitingIsOwed
<1>4. /\ News(e, L, row[c])
      /\ \A n \in 1 .. Len(events[c]) : ~Alike(e, events[c][n])
    BY <1>2, EventIsNews
<1>5. k \in Turns /\ L.items[k].emitted /\ row[c][k].text = "none"
    BY <1>2, <1>4 DEF News, Item
<1>6. PICK x : x = CompletionStatus(c, k, text)
    OBVIOUS
<1>7. x = IF row[c][k].status = "none" THEN "unmatched_completion"
          ELSE IF row[c][k].status = "coverage_unknown" THEN "coverage_unknown"
          ELSE IF text = "empty" THEN "empty" ELSE "transcribed"
    BY <1>6 DEF CompletionStatus
<1>8. PICK Q : Puts(Q, row[c], k, [status |-> x, text |-> text])
    BY DEF Puts
<1>9. /\ Agree(L, Q) /\ Q[k].status = x /\ Q[k].text = text
      /\ row[c][k].status \in {"none", "unmatched_completion"} => x = "unmatched_completion"
      /\ row[c][k].status # "evidence_accepted" /\ x # "evidence_accepted"
      /\ \A j \in Turns : j # k => Q[j] = row[c][j]
    BY <1>3, <1>5, <1>7, <1>8, CompletionAgrees
<1>10. Owes(events[c], L, Q)
    <2>1. ASSUME NEW n \in 1 .. Len(events[c]), events[c][n].item = k
          PROVE  /\ events[c][n].type \notin Completions
                 /\ events[c][n].type = "committed" =>
                        Q[k].status \in {"none", "unmatched_completion"}
        <3>1. events[c][n].type \notin Completions
            BY <1>2, <1>4, <2>1 DEF Alike, Item
        <3>2. News(events[c][n], L, row[c])
            BY <1>3 DEF Owes
        <3> QED BY <1>9, <2>1, <3>1, <3>2 DEF News
    <2>2. \A j \in Turns : j # k => Q[j] = row[c][j]
        BY <1>9
    <2> QED BY <1>3, <2>1, <2>2, OwesRows
<1>11. row' = [row EXCEPT ![c] = Q]
    BY <1>1, <1>6, <1>8 DEF Puts
<1>12. events' = events /\ owing' = owing /\ evidence' = evidence
    BY DEF RecordCompletion
<1>13. CASE text = "text"
    <2>1. ledger' = ledger /\ Stage(c, "accepting")
        BY <1>1, <1>13
    <2>2. PICK pc \in Accepting : /\ gateway' = [gateway EXCEPT ![c].pc = pc]
                                  /\ pc \in Settling => gateway[c].pc \in Settling
        BY <1>2, <2>1, StagesAre DEF Stage, Accepting, Handling, Settling
    <2>3. PICK g : g = [gateway[c] EXCEPT !.pc = pc]
        OBVIOUS
    <2>4. pc \in {"off", "loop", "handling", "accepting", "closing", "gone"} \cup Settling
        BY DEF Accepting, Settling
    <2>5. g \in GatewayRows /\ g.pc = pc /\ g.event = e
        BY <1>3, <2>3, <2>4 DEF GatewayRows
    <2>6. gateway' = [gateway EXCEPT ![c] = g]
        BY <2>2, <2>3
    <2>7. g.pc \notin Handling /\ g.pc # "off" /\ g.event.item \in Turns
        BY <1>5, <2>5 DEF Accepting, Handling, Item
    <2>8. Connection(L, Q, events[c], g)
        BY <1>3, <1>9, <1>10, <2>2, <2>5, <2>7 DEF Connection, Due
    <2>9. Becomes(c, L, Q, events[c], g)
        BY <1>11, <1>12, <2>1, <2>6, Unchanged DEF Becomes
    <2>10. owing' \in [Conns -> SUBSET Turns]
        BY <1>12 DEF Connections
    <2>11. Connections' /\ OnlyRow(c, Q)
        BY <2>8, <2>9, <2>10, OneConnection DEF OnlyRow
    <2> QED BY <1>5, <1>9, <1>12, <2>11, RowOfNoEvidence
<1>14. CASE text # "text"
    <2>1. Back(c) /\ ledger' = IF Settles(x) THEN [ledger EXCEPT ![c] = acknowledge(@, k)] ELSE ledger
        BY <1>1, <1>6, <1>14
    <2>2. PICK pc \in {"loop", "settling"} :
              Goes(c, pc) /\ (pc = "settling" => gateway[c].pc \in Settling)
        BY <2>1 DEF Back, Settling
    <2>3. PICK M : /\ ledger' = [ledger EXCEPT ![c] = M]
                   /\ Sane(M) /\ Agree(M, Q) /\ Owes(events[c], M, Q)
                   /\ AllAskedFor(L) => AllAskedFor(M)
        <3>1. CASE Settles(x)
            <4>1. Q[k].text # "none" /\ Q[k].status \in {"evidence_accepted", "empty", "coverage_unknown"}
                BY <1>9, <1>14, <3>1 DEF Settles, Completions
            <4>2. PICK M : M = acknowledge(L, k)
                OBVIOUS
            <4>3. /\ Sane(M) /\ Agree(M, Q) /\ Owes(events[c], M, Q)
                  /\ AllAskedFor(L) => AllAskedFor(M)
                BY <1>3, <1>5, <1>9, <1>10, <4>1, <4>2, AcknowledgedAgrees
            <4>4. ledger' = [ledger EXCEPT ![c] = M]
                BY <2>1, <3>1, <4>2
            <4> QED BY <4>3, <4>4
        <3>2. CASE ~Settles(x)
            <4>1. ledger' = [ledger EXCEPT ![c] = L]
                BY <2>1, <3>2, Unchanged
            <4> QED BY <1>3, <1>9, <1>10, <4>1
        <3> QED BY <3>1, <3>2
    <2>4. Connections' /\ OnlyRow(c, Q)
        BY <1>3, <1>11, <1>12, <2>2, <2>3, HandlerReturns
    <2> QED BY <1>5, <1>9, <1>12, <2>4, RowOfNoEvidence
<1> QED BY <1>13, <1>14

\* Evidence of an item whose turn it is.
LEMMA EvidenceAccepted ==
    ASSUME Connections, Spoken, NEW c \in Conns, NEW k \in Turns, Accepts(c, k)
    PROVE  /\ Spoken'
           /\ \E Q : /\ row' = [row EXCEPT ![c] = Q] /\ Agree(ledger[c], Q)
                     /\ Owes(events[c], ledger[c], Q)
                     /\ Q[k].status = "evidence_accepted" /\ Q[k].text = "text"
<1> DEFINE L == ledger[c]
<1>1. Agree(L, row[c]) /\ Owes(events[c], L, row[c]) /\ row[c] \in RowsOf
    BY OfConnection, WaitingIsOwed
<1>2. PICK Q : Writes(Q, row[c], k, "evidence_accepted")
    BY DEF Writes
<1>3. row[c][k].status = "transcribed"
    BY DEF Accepts
<1>4. /\ Agree(L, Q) /\ Q[k].status = "evidence_accepted" /\ Q[k].text = "text"
      /\ row[c][k].text = "text"
      /\ \A j \in Turns : j # k => Q[j] = row[c][j]
    BY <1>1, <1>2, <1>3, AcceptedAgrees
<1>5. row' = [row EXCEPT ![c] = Q]
    BY <1>2 DEF Accepts, WithItem, Writes
<1>6. OnlyRow(c, Q)
    <2>1. row \in [Conns -> RowsOf]
        BY DEF Connections
    <2> QED BY <1>5, <2>1 DEF OnlyRow
<1>7. Owes(events[c], L, Q)
    <2>1. ASSUME NEW n \in 1 .. Len(events[c]), events[c][n].item = k
          PROVE  events[c][n].type # "committed" /\ events[c][n].type \notin Completions
        <3>1. News(events[c][n], L, row[c])
            BY <1>1 DEF Owes
        <3> QED BY <1>3, <1>4, <2>1, <3>1 DEF News
    <2>2. \A j \in Turns : j # k => Q[j] = row[c][j]
        BY <1>4
    <2> QED BY <1>1, <2>1, <2>2, OwesRows
<1>8. ASSUME NEW d \in Conns, NEW j \in Turns
      PROVE  IsEvidence(d, j)' <=> (IsEvidence(d, j) \/ (d = c /\ j = k))
    <2>1. CASE d # c
        BY <1>6, <2>1 DEF OnlyRow, IsEvidence
    <2>2. CASE d = c /\ j # k
        BY <1>4, <1>6, <2>2 DEF OnlyRow, IsEvidence
    <2>3. CASE d = c /\ j = k
        BY <1>4, <1>6, <2>3 DEF OnlyRow, IsEvidence
    <2> QED BY <2>1, <2>2, <2>3
<1>9. ~IsEvidence(c, k)
    BY <1>3 DEF IsEvidence
<1>10. PICK p \in Conns \X Turns : p = <<c, k>>
    OBVIOUS
<1>11. PICK N \in Nat :
          /\ N = Len(evidence) /\ DOMAIN evidence = 1 .. N
          /\ \A n \in 1 .. N : evidence[n] \in Conns \X Turns
    BY DEF Spoken
<1>12. /\ evidence' \in Seq(Conns \X Turns) /\ DOMAIN evidence' = 1 .. N + 1
       /\ evidence'[N + 1] = p
       /\ \A n \in 1 .. N : evidence'[n] = evidence[n]
    BY <1>10, <1>11 DEF Accepts, Spoken
<1>13. ASSUME NEW n \in 1 .. N PROVE evidence[n] # p
    BY <1>9, <1>10, <1>11 DEF Spoken
<1>14. ASSUME NEW j \in 1 .. k - 1 PROVE j \in Turns /\ IsEvidence(c, j)
    <2>1. j \in Turns /\ k > 1 /\ k - 1 \in Turns
        BY TurnLedgerAssumption DEF Turns
    <2>2. IsEvidence(c, k - 1)
        BY <2>1 DEF Accepts, PredecessorAccepted, IsEvidence
    <2>3. j = k - 1 \/ j \in 1 .. (k - 1) - 1
        BY <2>1, TurnLedgerAssumption DEF Turns
    <2> QED BY <2>1, <2>2, <2>3 DEF Spoken
<1>15. \A d \in Conns, j \in Turns :
          IsEvidence(d, j)' <=> \E n \in DOMAIN evidence' : evidence'[n] = <<d, j>>
    <2> SUFFICES ASSUME NEW d \in Conns, NEW j \in Turns
                 PROVE  IsEvidence(d, j)' <=> \E n \in DOMAIN evidence' : evidence'[n] = <<d, j>>
        OBVIOUS
    <2>1. IsEvidence(d, j) <=> \E n \in 1 .. N : evidence[n] = <<d, j>>
        BY <1>11 DEF Spoken
    <2>2. (\E n \in 1 .. N + 1 : evidence'[n] = <<d, j>>)
              <=> \/ \E n \in 1 .. N : evidence[n] = <<d, j>>
                  \/ <<d, j>> = p
        <3>1. \A n \in 1 .. N + 1 : n \in 1 .. N \/ n = N + 1
            OBVIOUS
        <3>2. N + 1 \in 1 .. N + 1 /\ \A n \in 1 .. N : n \in 1 .. N + 1
            OBVIOUS
        <3> QED BY <1>12, <3>1, <3>2
    <2>3. <<d, j>> = p <=> d = c /\ j = k
        BY <1>10
    <2> QED BY <1>8, <1>12, <2>1, <2>2, <2>3
<1>16. \A m, n \in DOMAIN evidence' : m # n => evidence'[m] # evidence'[n]
    <2> SUFFICES ASSUME NEW m \in 1 .. N + 1, NEW n \in 1 .. N + 1, m # n
                 PROVE  evidence'[m] # evidence'[n]
        BY <1>12
    <2>1. CASE m \in 1 .. N /\ n \in 1 .. N
        BY <1>11, <1>12, <2>1 DEF Spoken
    <2>2. CASE m = N + 1 /\ n \in 1 .. N
        BY <1>12, <1>13, <2>2
    <2>3. CASE n = N + 1 /\ m \in 1 .. N
        BY <1>12, <1>13, <2>3
    <2> QED BY <2>1, <2>2, <2>3
<1>17. \A d \in Conns, j \in Turns : IsEvidence(d, j)' => \A i \in 1 .. j - 1 : IsEvidence(d, i)'
    <2> SUFFICES ASSUME NEW d \in Conns, NEW j \in Turns, IsEvidence(d, j)', NEW i \in 1 .. j - 1
                 PROVE  IsEvidence(d, i)'
        OBVIOUS
    <2>1. i \in Turns
        BY TurnLedgerAssumption DEF Turns
    <2>2. CASE d = c /\ j = k
        BY <1>8, <1>14, <2>1, <2>2
    <2>3. CASE IsEvidence(d, j)
        BY <1>8, <2>1, <2>3 DEF Spoken
    <2> QED BY <1>8, <2>2, <2>3
<1>18. SpokenOrder'
    <2> SUFFICES ASSUME NEW n \in 1 .. N + 1, NEW j \in 1 .. evidence'[n][2] - 1
                 PROVE  \E m \in 1 .. n - 1 : evidence'[m] = <<evidence'[n][1], j>>
        BY <1>12 DEF SpokenOrder
    <2>1. CASE n \in 1 .. N
        <3>1. PICK m \in 1 .. n - 1 : evidence[m] = <<evidence[n][1], j>>
            BY <1>11, <1>12, <2>1 DEF Spoken, SpokenOrder
        <3>2. m \in 1 .. N
            BY <2>1
        <3> QED BY <1>12, <2>1, <3>1, <3>2
    <2>2. CASE n = N + 1
        <3>1. evidence'[n][1] = c /\ evidence'[n][2] = k
            BY <1>10, <1>12, <2>2
        <3>2. j \in Turns /\ IsEvidence(c, j)
            BY <1>14, <3>1
        <3>3. PICK m \in 1 .. N : evidence[m] = <<c, j>>
            BY <1>11, <3>2 DEF Spoken
        <3>4. m \in 1 .. n - 1
            BY <2>2
        <3> QED BY <1>12, <3>1, <3>3, <3>4
    <2> QED BY <2>1, <2>2
<1>19. Spoken'
    BY <1>12, <1>15, <1>16, <1>17, <1>18 DEF Spoken
<1> QED BY <1>4, <1>5, <1>7, <1>19

LEMMA SpokenStays == ASSUME Spoken, EvidenceStays PROVE Spoken'
<1>1. evidence' = evidence /\ \A d \in Conns, k \in Turns : IsEvidence(d, k)' <=> IsEvidence(d, k)
    BY DEF EvidenceStays
<1>2. \A d \in Conns, k \in Turns :
          IsEvidence(d, k)' <=> \E n \in DOMAIN evidence' : evidence'[n] = <<d, k>>
    BY <1>1 DEF Spoken
<1>3. \A k \in Turns : \A i \in 1 .. k - 1 : i \in Turns
    BY TurnLedgerAssumption DEF Turns
<1>4. \A d \in Conns, k \in Turns : IsEvidence(d, k)' => \A i \in 1 .. k - 1 : IsEvidence(d, i)'
    BY <1>1, <1>3 DEF Spoken
<1>5. SpokenOrder'
    <2>1. SpokenOrder
        BY DEF Spoken
    <2> QED BY <1>1, <2>1 DEF SpokenOrder
<1> QED BY <1>1, <1>2, <1>4, <1>5 DEF Spoken

\* The rows are the same.
LEMMA SameRows == ASSUME row' = row, evidence' = evidence PROVE EvidenceStays
BY DEF EvidenceStays, IsEvidence

LEMMA SocketCloses ==
    ASSUME Connections, Spoken, NEW c \in Conns, NEW pc \in {"closing", "gone"}, Closes(c, pc),
           ledger' = ledger, row' = row, evidence' = evidence
    PROVE  Connections' /\ Spoken'
<1>1. Agree(ledger[c], row[c])
    BY OfConnection
<1>2. row' = [row EXCEPT ![c] = row[c]]
    BY Unchanged
<1>3. Connections'
    BY <1>1, <1>2, HandlerQuits
<1> QED BY <1>3, SameRows, SpokenStays

LEMMA FinalFails ==
    ASSUME Connections, Spoken, NEW c \in Conns, FailFinal(c)
    PROVE  Connections' /\ Spoken'
<1>1. Closes(c, "closing") /\ ledger' = ledger /\ Item(c) \in Turns
    <2>1. gateway[c].pc \in Accepting
        BY StagesAre DEF FailFinal
    <2> QED BY <2>1, OfConnection DEF FailFinal, Connection, Item
<1>2. CASE UNCHANGED store
    BY <1>1, <1>2, SocketCloses DEF store
<1>3. CASE Accepts(c, Item(c))
    <2>1. Spoken'
        BY <1>1, <1>3, EvidenceAccepted
    <2>2. PICK Q : row' = [row EXCEPT ![c] = Q] /\ Agree(ledger[c], Q)
        BY <1>1, <1>3, EvidenceAccepted
    <2> QED BY <1>1, <2>1, <2>2, HandlerQuits
<1> QED BY <1>2, <1>3 DEF FailFinal

LEMMA FinalAccepted ==
    ASSUME Connections, Spoken, NEW c \in Conns, AcceptFinal(c)
    PROVE  Connections' /\ Spoken'
<1> DEFINE L == ledger[c]
           k == Item(c)
<1>1. gateway[c].pc \in Accepting
    BY StagesAre DEF AcceptFinal
<1>2. Sane(L) /\ k \in Turns /\ (gateway[c].pc \in Settling => AllAskedFor(L))
    BY <1>1, OfConnection DEF Connection, Item
<1>3. Accepts(c, k)
    BY DEF AcceptFinal
<1>4. Spoken'
    BY <1>2, <1>3, EvidenceAccepted
<1>5. PICK Q : /\ row' = [row EXCEPT ![c] = Q] /\ Agree(L, Q) /\ Owes(events[c], L, Q)
               /\ Q[k].status = "evidence_accepted" /\ Q[k].text = "text"
    BY <1>2, <1>3, EvidenceAccepted
<1>6. PICK M : M = acknowledge(L, k)
    OBVIOUS
<1>7. Q[k].text # "none" /\ Q[k].status \in {"evidence_accepted", "empty", "coverage_unknown"}
    BY <1>5
<1>8. /\ Sane(M) /\ Agree(M, Q) /\ Owes(events[c], M, Q)
      /\ AllAskedFor(L) => AllAskedFor(M)
    BY <1>2, <1>5, <1>6, <1>7, AcknowledgedAgrees
<1>9. ledger' = [ledger EXCEPT ![c] = M] /\ events' = events /\ owing' = owing
    BY <1>6 DEF AcceptFinal
<1>10. PICK pc \in {"loop", "settling"} :
           Goes(c, pc) /\ (pc = "settling" => gateway[c].pc \in Settling)
    BY DEF AcceptFinal, Back, Settling
<1>11. Connections'
    BY <1>2, <1>5, <1>8, <1>9, <1>10, HandlerReturns
<1> QED BY <1>4, <1>11

\* A commit of the gateway's own, after which nothing is left to ask for.
LEMMA Requested ==
    ASSUME Connections, NEW c \in Conns, ledger[c].intents = << >>, NEW M, M = request(ledger[c])
    PROVE  /\ Sane(M) /\ AllAskedFor(M) /\ Keeps(ledger[c], M)
           /\ Agree(M, row[c]) /\ Owes(events[c], M, row[c])
           /\ Owes(Due(gateway[c], events[c]), M, row[c])
<1>1. /\ Sane(ledger[c]) /\ Agree(ledger[c], row[c]) /\ Owes(events[c], ledger[c], row[c])
      /\ Owes(Due(gateway[c], events[c]), ledger[c], row[c])
    BY OfConnection, WaitingIsOwed
<1>2. Sane(M) /\ AllAskedFor(M) /\ Keeps(ledger[c], M)
    BY <1>1, CommitAskedFor
<1> QED BY <1>1, <1>2, AgreeStays, OwesStays

LEMMA FallenBack ==
    ASSUME Connections, NEW c \in Conns, BoundedFallback(c)
    PROVE  Connections' /\ row' = row /\ evidence' = evidence
<1>1. PICK M : M = request(ledger[c])
    OBVIOUS
<1>2. ledger[c].intents = << >> /\ gateway[c].pc = "loop" /\ row' = row /\ evidence' = evidence
      /\ events' = events /\ gateway' = gateway /\ owing' = owing
    BY DEF BoundedFallback, store
<1>3. /\ Sane(M) /\ AllAskedFor(M) /\ Keeps(ledger[c], M)
      /\ Agree(M, row[c]) /\ Owes(events[c], M, row[c])
      /\ Owes(Due(gateway[c], events[c]), M, row[c])
    BY <1>1, <1>2, Requested
<1>4. Connection(M, row[c], events[c], gateway[c])
    <2>1. Connection(ledger[c], row[c], events[c], gateway[c])
        BY OfConnection
    <2>2. gateway[c].pc # "off"
        BY <1>2
    <2> QED BY <1>3, <2>1, <2>2 DEF Connection
<1>5. ledger' = [ledger EXCEPT ![c] = M]
    BY <1>1 DEF BoundedFallback
<1>6. Becomes(c, M, row[c], events[c], gateway[c])
    BY <1>2, <1>5, Unchanged DEF Becomes
<1>7. owing' \in [Conns -> SUBSET Turns]
    BY <1>2 DEF Connections
<1> QED BY <1>2, <1>4, <1>6, <1>7, OneConnection

\* Where the cursor is at the last frame everything was asked for.
LEMMA NothingToAskFor ==
    ASSUME NEW L, Sane(L), samples(L) = cursor(L)
    PROVE  AllAskedFor(L)
<1>1. L \in Ledgers
    BY DEF Sane
<1>2. CASE L.intents = << >>
    BY <1>1, <1>2, CursorIs DEF AllAskedFor
<1>3. CASE L.intents # << >>
    <2>1. cursor(L) = L.allocated \/ cursor(L) = L.intents[1].end
        BY <1>1, <1>3, CursorIs
    <2> QED BY <1>3, <2>1 DEF AllAskedFor
<1> QED BY <1>2, <1>3

LEMMA Stopping ==
    ASSUME Connections, NEW c \in Conns, Stop(c)
    PROVE  Connections' /\ row' = row /\ evidence' = evidence
<1> DEFINE L == ledger[c]
<1>1. Sane(L) /\ Agree(L, row[c]) /\ Owes(events[c], L, row[c])
    BY OfConnection, WaitingIsOwed
<1>2. row' = row /\ evidence' = evidence /\ events' = events /\ owing' = owing
      /\ Goes(c, "settling")
    BY DEF Stop, store
<1>3. PICK M : /\ ledger' = [ledger EXCEPT ![c] = M]
               /\ Sane(M) /\ AllAskedFor(M) /\ Agree(M, row[c]) /\ Owes(events[c], M, row[c])
    <2>1. CASE samples(L) = cursor(L) /\ ledger' = ledger
        <3>1. AllAskedFor(L)
            BY <1>1, <2>1, NothingToAskFor
        <3>2. ledger' = [ledger EXCEPT ![c] = L]
            BY <2>1, Unchanged
        <3> QED BY <1>1, <3>1, <3>2
    <2>2. CASE L.intents = << >> /\ ledger' = [ledger EXCEPT ![c] = request(L)]
        <3>1. PICK M : M = request(L)
            OBVIOUS
        <3>2. Sane(M) /\ AllAskedFor(M) /\ Agree(M, row[c]) /\ Owes(events[c], M, row[c])
            BY <2>2, <3>1, Requested
        <3> QED BY <2>2, <3>1, <3>2
    <2> QED BY <2>1, <2>2 DEF Stop
<1>4. row' = [row EXCEPT ![c] = row[c]]
    BY <1>2, Unchanged
<1>5. Connections'
    BY <1>2, <1>3, <1>4, HandlerReturns
<1> QED BY <1>2, <1>5

\* A handler whose place is all that changes.
LEMMA PlaceChanges ==
    ASSUME Connections, NEW c \in Conns, NEW pc \in {"loop", "gone"}, Goes(c, pc),
           ledger' = ledger, row' = row, events' = events, owing' = owing
    PROVE  Connections'
<1>1. /\ Sane(ledger[c]) /\ Agree(ledger[c], row[c]) /\ Owes(events[c], ledger[c], row[c])
      /\ events[c] \in Seq(EventRows)
    BY OfConnection, WaitingIsOwed
<1>2. PICK g : g = [pc |-> pc, event |-> NoEvent]
    OBVIOUS
<1>3. g \in GatewayRows /\ g.pc = pc
    <2>1. NoEvent \in EventRows
        BY DEF NoEvent, EventRows
    <2> QED BY <1>2, <2>1 DEF GatewayRows
<1>4. g.pc \notin Handling /\ g.pc \notin Accepting /\ g.pc \notin Settling /\ g.pc # "off"
    BY <1>3 DEF Handling, Accepting, Settling
<1>5. Connection(ledger[c], row[c], events[c], g)
    BY <1>1, <1>3, <1>4 DEF Connection, Due
<1>6. gateway' = [gateway EXCEPT ![c] = g]
    BY <1>2 DEF Goes
<1>7. Becomes(c, ledger[c], row[c], events[c], g)
    BY <1>6, Unchanged DEF Becomes
<1>8. owing' \in [Conns -> SUBSET Turns]
    BY DEF Connections
<1> QED BY <1>5, <1>7, <1>8, OneConnection

LEMMA NothingChanges ==
    ASSUME Connections, Spoken, UNCHANGED <<provider, store, gateway>>
    PROVE  Connections' /\ Spoken'
<1>1. /\ ledger' = ledger /\ owing' = owing /\ events' = events /\ row' = row
      /\ evidence' = evidence /\ gateway' = gateway
    BY DEF provider, store
<1>2. Connections'
    BY <1>1 DEF Connections
<1> QED BY <1>1, <1>2, SameRows, SpokenStays

\* Every step of a connection keeps rows, events and evidence together.
LEMMA ConnectionSteps ==
    ASSUME Connections, Spoken, NEW c \in Conns, Provider(c) \/ Gateway(c)
    PROVE  Connections' /\ Spoken'
<1>1. CASE Provider(c)
    <2>1. Connections' /\ row' = row
        BY <1>1, FrameIsHeard, CommitIsSeen, TextIsHeard, EmptyIsRetired DEF Provider
    <2>2. evidence' = evidence
        BY <1>1 DEF Provider, Hear, Committed, Transcribed, CommitEmpty, ProviderOnly, store
    <2> QED BY <2>1, <2>2, SameRows, SpokenStays
<1>2. CASE TakeEvent(c) \/ BoundedFallback(c) \/ Stop(c)
    <2>1. Connections' /\ row' = row /\ evidence' = evidence
        BY <1>2, EventTaken, FallenBack, Stopping
    <2> QED BY <2>1, SameRows, SpokenStays
<1>3. CASE RecordCommit(c) \/ RecordCompletion(c)
    <2>1. Connections' /\ EvidenceStays
        BY <1>3, CommitRecorded, CompletionRecorded
    <2> QED BY <2>1, SpokenStays
<1>4. CASE AcceptFinal(c) \/ FailFinal(c)
    BY <1>4, FinalAccepted, FinalFails
<1>5. CASE Refused(c) \/ GivesUp(c)
    <2>1. Closes(c, "closing") /\ ledger' = ledger /\ row' = row /\ evidence' = evidence
        BY <1>5 DEF Refused, GivesUp, store
    <2> QED BY <2>1, SocketCloses
<1>6. CASE Paused(c) \/ Crash(c)
    <2>1. Closes(c, "gone") /\ ledger' = ledger /\ row' = row /\ evidence' = evidence
        BY <1>6 DEF Paused, Crash, store
    <2> QED BY <2>1, SocketCloses
<1>7. CASE Disconnect(c)
    <2>1. Goes(c, "gone") /\ ledger' = ledger /\ row' = row /\ evidence' = evidence
          /\ events' = events /\ owing' = owing
        BY <1>7 DEF Disconnect, provider, store
    <2>2. Connections'
        BY <2>1, PlaceChanges
    <2> QED BY <2>1, <2>2, SameRows, SpokenStays
<1> QED BY <1>1, <1>2, <1>3, <1>4, <1>5, <1>6, <1>7 DEF Gateway

-----------------------------------------------------------------------------
(* The meeting.                                                            *)

\* A step of a connection is one of an open socket, and of no other.
LEMMA OpenSocket ==
    ASSUME Connections, NEW c \in Conns, Provider(c) \/ Gateway(c)
    PROVE  /\ gateway[c].pc \notin {"off", "gone"}
           /\ \A d \in Conns : d # c => gateway'[d] = gateway[d]
<1>1. gateway \in [Conns -> GatewayRows]
    BY DEF Connections
<1>2. CASE Provider(c)
    BY <1>2 DEF Provider, Hear, Committed, Transcribed, CommitEmpty, ProviderOnly, Live
<1>3. CASE TakeEvent(c) \/ BoundedFallback(c) \/ Stop(c) \/ Paused(c) \/ GivesUp(c) \/ Disconnect(c)
           \/ Crash(c)
    BY <1>1, <1>3 DEF TakeEvent, BoundedFallback, Stop, Paused, GivesUp, Disconnect, Crash, Live,
                      Closes, Goes
<1>4. CASE Refused(c) \/ RecordCommit(c) \/ RecordCompletion(c)
    <2>1. gateway[c].pc \in Handling
        BY <1>4, StagesAre DEF Refused, RecordCommit, RecordCompletion, Handles
    <2>2. \E pc : gateway' = [gateway EXCEPT ![c].pc = pc] \/ Goes(c, pc)
        BY <1>4 DEF Refused, Closes, RecordCommit, RecordCompletion, Back, Stage
    <2> QED BY <1>1, <2>1, <2>2 DEF Handling, Goes
<1>5. CASE AcceptFinal(c) \/ FailFinal(c)
    <2>1. gateway[c].pc \in Accepting
        BY <1>5, StagesAre DEF AcceptFinal, FailFinal
    <2>2. \E pc : Goes(c, pc)
        BY <1>5 DEF AcceptFinal, FailFinal, Closes, Back
    <2> QED BY <1>1, <2>1, <2>2 DEF Accepting, Goes
<1> QED BY <1>2, <1>3, <1>4, <1>5 DEF Gateway

\* Only a pause and the end of a socket are news for the meeting.
LEMMA MeetingOfStep ==
    ASSUME NEW c \in Conns, Provider(c) \/ Gateway(c)
    PROVE  /\ service' = service
           /\ \/ capture' = capture /\ gap' = gap
              \/ Paused(c)
              \/ Leased(c) /\ capture' = Discontinued /\ gap' = TRUE
<1>1. CASE Provider(c)
    <2>1. ProviderOnly
        BY <1>1 DEF Provider, Hear, Committed, Transcribed, CommitEmpty
    <2> QED BY <2>1 DEF ProviderOnly
<1>2. CASE Paused(c)
    BY <1>2 DEF Paused
<1>3. CASE Disconnect(c)
    BY <1>3 DEF Disconnect
<1>4. CASE TakeEvent(c) \/ Refused(c) \/ RecordCommit(c) \/ RecordCompletion(c) \/ AcceptFinal(c)
           \/ FailFinal(c) \/ BoundedFallback(c) \/ Stop(c) \/ GivesUp(c) \/ Crash(c)
    <2>1. GatewayOnly
        BY <1>4 DEF TakeEvent, Refused, RecordCommit, RecordCompletion, AcceptFinal, FailFinal,
                    BoundedFallback, Stop, GivesUp, Crash
    <2> QED BY <2>1 DEF GatewayOnly
<1> QED BY <1>1, <1>2, <1>3, <1>4 DEF Gateway

LEMMA EndedByConnection ==
    ASSUME Connections, Ended, NEW c \in Conns, Provider(c) \/ Gateway(c)
    PROVE  Ended'
<1>1. /\ gateway[c].pc \notin {"off", "gone"}
      /\ \A d \in Conns : d # c => gateway'[d] = gateway[d]
    BY OpenSocket
<1>2. ~gap => c = 1 /\ capture.state \notin {"paused", "finalizing"}
    BY <1>1 DEF Ended, WasSettled
<1>3. service # "ended" /\ service' = service
    BY <1>2, MeetingOfStep DEF Ended
<1>4. CASE capture' = capture /\ gap' = gap
    <2>1. ~gap' => /\ capture'.generation = 1
                   /\ \A d \in Conns : d # 1 => gateway'[d].pc = "off"
                   /\ capture'.state \notin {"paused", "finalizing"}
        BY <1>1, <1>2, <1>4 DEF Ended
    <2>2. /\ service' \in {"open", "ended", "ended_incomplete"} /\ gap' \in BOOLEAN
          /\ capture' \in [state : {"resuming", "listening", "pausing", "paused", "reconnecting",
                                    "finalizing"},
                           generation : 1 .. MaxConns + 1, lease : {"none", "live", "expired"}]
          /\ capture'.lease # "none" \/ capture'.state \in {"listening", "pausing", "paused"} =>
                capture'.generation \in Conns
          /\ capture'.state = "reconnecting" => gap'
          /\ service' # "open" => capture'.state = "finalizing"
        BY <1>3, <1>4 DEF Ended
    <2> QED BY <1>3, <2>1, <2>2 DEF Ended
<1>5. CASE Paused(c)
    <2>1. service = "open" /\ capture.generation = c
        BY <1>5 DEF Paused, Leased
    <2>2. capture' = [capture EXCEPT !.state = "paused", !.lease = "none"] /\ gap' = gap
          /\ ledger' = ledger
        BY <1>5 DEF Paused
    <2>3. /\ gap \in BOOLEAN
          /\ capture \in [state : {"resuming", "listening", "pausing", "paused", "reconnecting",
                                   "finalizing"},
                          generation : 1 .. MaxConns + 1, lease : {"none", "live", "expired"}]
          /\ ~gap => capture.generation = 1 /\ \A d \in Conns : d # 1 => gateway[d].pc = "off"
        BY DEF Ended
    <2>4. /\ capture' \in [state : {"resuming", "listening", "pausing", "paused", "reconnecting",
                                    "finalizing"},
                           generation : 1 .. MaxConns + 1, lease : {"none", "live", "expired"}]
          /\ capture'.state = "paused" /\ capture'.lease = "none" /\ capture'.generation = c
        BY <2>1, <2>2, <2>3
    <2>5. ~gap' => WasSettled(1)'
        <3>1. SUFFICES ASSUME ~gap PROVE WasSettled(1)'
            BY <2>2
        <3>2. c = 1
            BY <1>2, <3>1
        <3>3. gateway[c].pc = "settling" /\ Settled(c)
            BY <1>5 DEF Paused
        <3>4. AllAskedFor(ledger[c])
            BY <3>3, OfConnection DEF Settling
        <3>5. ledger[c].intents = << >> /\ Unresolved(ledger[c]) = {}
            BY <3>3 DEF Settled, pending
        <3>6. gateway'[c].pc = "gone"
            <4>1. gateway \in [Conns -> GatewayRows]
                BY DEF Connections
            <4> QED BY <1>5, <4>1 DEF Paused, Closes, Goes
        <3> QED BY <2>2, <3>2, <3>4, <3>5, <3>6 DEF WasSettled
    <2>6. ~gap' => capture'.generation = 1 /\ \A d \in Conns : d # 1 => gateway'[d].pc = "off"
        BY <1>1, <1>2, <2>2, <2>3, <2>4
    <2> QED BY <1>3, <2>1, <2>2, <2>3, <2>4, <2>5, <2>6 DEF Ended
<1>6. CASE Leased(c) /\ capture' = Discontinued /\ gap' = TRUE
    <2>1. service = "open" /\ capture.generation = c
        BY <1>6 DEF Leased
    <2>2. capture' = [state |-> "reconnecting", generation |-> c + 1, lease |-> "none"]
        BY <1>6, <2>1 DEF Discontinued
    <2>3. c + 1 \in 1 .. MaxConns + 1
        BY ProviderItemsAssumption DEF Conns
    <2>4. /\ capture'.state = "reconnecting" /\ capture'.lease = "none"
          /\ capture' \in [state : {"resuming", "listening", "pausing", "paused", "reconnecting",
                                    "finalizing"},
                           generation : 1 .. MaxConns + 1, lease : {"none", "live", "expired"}]
        BY <2>2, <2>3
    <2> QED BY <1>3, <1>6, <2>1, <2>4 DEF Ended
<1> QED BY <1>4, <1>5, <1>6, MeetingOfStep

LEMMA EndedBySession ==
    ASSUME Connections, Ended, Session
    PROVE  Ended'
<1> DEFINE States == {"resuming", "listening", "pausing", "paused", "reconnecting", "finalizing"}
           Captures == [state : States, generation : 1 .. MaxConns + 1,
                        lease : {"none", "live", "expired"}]
<1>1. /\ service \in {"open", "ended", "ended_incomplete"} /\ gap \in BOOLEAN
      /\ capture \in Captures
      /\ capture.lease # "none" \/ capture.state \in {"listening", "pausing", "paused"} =>
            capture.generation \in Conns
      /\ capture.state = "reconnecting" => gap
      /\ ~gap => /\ capture.generation = 1
                 /\ \A c \in Conns : c # 1 => gateway[c].pc = "off"
                 /\ capture.state = "paused" => WasSettled(1)
                 /\ capture.state = "finalizing" => 1 \in Conns /\ WasSettled(1)
      /\ service # "open" => capture.state = "finalizing"
      /\ service = "ended" => ~gap /\ PendingItems = {}
    BY DEF Ended
<1>2. ledger' = ledger /\ row' = row
    BY DEF Session, Connect, RequestPause, RequestResume, LeaseExpires, RecoverExpiredLease,
           RequestFinalizing, CompleteDrain, Meeting, provider, store
<1>3. PendingItems' = PendingItems
    BY <1>2 DEF PendingItems
<1>4. gateway' = gateway => WasSettled(1)' = WasSettled(1)
    BY <1>2 DEF WasSettled
<1>5. CASE Connect
    <2>1. /\ service = "open" /\ capture.state \in {"resuming", "reconnecting"}
          /\ capture.generation \in Conns /\ service' = service /\ gap' = gap
          /\ capture' = [capture EXCEPT !.state = "listening", !.lease = "live"]
          /\ Goes(capture.generation, "loop")
        BY <1>5 DEF Connect
    <2>2. /\ capture' \in Captures /\ capture'.state = "listening"
          /\ capture'.generation = capture.generation
        BY <1>1, <2>1
    <2>3. ~gap => \A c \in Conns : c # 1 => gateway'[c].pc = "off"
        <3>1. gateway \in [Conns -> GatewayRows]
            BY DEF Connections
        <3> QED BY <1>1, <2>1, <3>1 DEF Goes
    <2> QED BY <1>1, <2>1, <2>2, <2>3 DEF Ended
<1>6. CASE RequestPause
    <2>1. /\ service = "open" /\ capture.state = "listening" /\ service' = service /\ gap' = gap
          /\ capture' = [capture EXCEPT !.state = "pausing"] /\ gateway' = gateway
        BY <1>6 DEF RequestPause
    <2>2. /\ capture' \in Captures /\ capture'.state = "pausing"
          /\ capture'.generation = capture.generation
        BY <1>1, <2>1
    <2> QED BY <1>1, <2>1, <2>2 DEF Ended
<1>7. CASE RequestResume
    <2>1. /\ service = "open" /\ capture.state = "paused" /\ service' = service /\ gap' = TRUE
          /\ capture' = [state |-> "resuming", generation |-> capture.generation + 1,
                         lease |-> "none"]
        BY <1>7 DEF RequestResume
    <2>2. capture.generation + 1 \in 1 .. MaxConns + 1
        BY <1>1, <2>1, ProviderItemsAssumption DEF Conns
    <2>3. capture' \in Captures /\ capture'.state = "resuming" /\ capture'.lease = "none"
        BY <2>1, <2>2
    <2> QED BY <1>1, <2>1, <2>3 DEF Ended
<1>8. CASE LeaseExpires
    <2>1. /\ capture.lease = "live" /\ service' = service /\ gap' = gap
          /\ capture' = [capture EXCEPT !.lease = "expired"] /\ gateway' = gateway
        BY <1>8 DEF LeaseExpires
    <2>2. /\ capture' \in Captures /\ capture'.state = capture.state
          /\ capture'.generation = capture.generation /\ capture'.generation \in Conns
        BY <1>1, <2>1
    <2> QED BY <1>1, <1>3, <1>4, <2>1, <2>2 DEF Ended
<1>9. CASE RecoverExpiredLease
    <2>1. /\ service = "open" /\ capture.lease = "expired" /\ service' = service /\ gap' = TRUE
          /\ capture' = [state |-> "reconnecting", generation |-> capture.generation + 1,
                         lease |-> "none"]
        BY <1>9 DEF RecoverExpiredLease, Discontinued
    <2>2. capture.generation + 1 \in 1 .. MaxConns + 1
        BY <1>1, <2>1, ProviderItemsAssumption DEF Conns
    <2>3. capture' \in Captures /\ capture'.state = "reconnecting" /\ capture'.lease = "none"
        BY <2>1, <2>2
    <2> QED BY <1>1, <2>1, <2>3 DEF Ended
<1>10. CASE RequestFinalizing
    <2>1. /\ service = "open" /\ capture.state \in {"paused", "reconnecting"}
          /\ service' = service /\ gap' = gap
          /\ capture' = [capture EXCEPT !.state = "finalizing"] /\ gateway' = gateway
        BY <1>10 DEF RequestFinalizing
    <2>2. /\ capture' \in Captures /\ capture'.state = "finalizing"
          /\ capture'.generation = capture.generation /\ capture'.lease = capture.lease
        BY <1>1, <2>1
    <2>3. ~gap => 1 \in Conns /\ WasSettled(1)'
        BY <1>1, <1>4, <2>1
    <2> QED BY <1>1, <2>1, <2>2, <2>3 DEF Ended
<1>11. CASE CompleteDrain
    <2>1. /\ service = "open" /\ capture.state = "finalizing" /\ capture' = capture
          /\ gap' = gap /\ gateway' = gateway
          /\ service' = IF gap \/ PendingItems # {} THEN "ended_incomplete" ELSE "ended"
        BY <1>11 DEF CompleteDrain
    <2> QED BY <1>1, <1>3, <1>4, <2>1 DEF Ended
<1> QED BY <1>5, <1>6, <1>7, <1>8, <1>9, <1>10, <1>11 DEF Session

LEMMA SessionSteps ==
    ASSUME Connections, Spoken, Ended, Session
    PROVE  Connections' /\ Spoken'
<1>1. /\ ledger' = ledger /\ owing' = owing /\ events' = events /\ row' = row
      /\ evidence' = evidence
    BY DEF Session, Connect, RequestPause, RequestResume, LeaseExpires, RecoverExpiredLease,
           RequestFinalizing, CompleteDrain, Meeting, provider, store
<1>2. CASE Connect
    <2>1. capture.generation \in Conns /\ Goes(capture.generation, "loop")
        BY <1>2 DEF Connect
    <2>2. Connections'
        BY <1>1, <2>1, PlaceChanges
    <2> QED BY <1>1, <2>2, SameRows, SpokenStays
<1>3. CASE ~Connect
    <2>1. gateway' = gateway
        BY <1>3 DEF Session, RequestPause, RequestResume, LeaseExpires, RecoverExpiredLease,
                    RequestFinalizing, CompleteDrain
    <2> QED BY <1>1, <2>1, NothingChanges DEF provider, store
<1> QED BY <1>2, <1>3

-----------------------------------------------------------------------------
(* The theorems.                                                           *)

LEMMA ItemsInit == Init => ItemsInd
<1> SUFFICES ASSUME Init PROVE ItemsInd
    OBVIOUS
<1>1. /\ service = "open" /\ gap = FALSE /\ evidence = << >>
      /\ capture = [state |-> "resuming", generation |-> 1, lease |-> "none"]
      /\ ledger = [c \in Conns |-> NewLedger]
      /\ owing = [c \in Conns |-> {}] /\ events = [c \in Conns |-> << >>]
      /\ gateway = [c \in Conns |-> [pc |-> "off", event |-> NoEvent]]
      /\ row = [c \in Conns |-> [k \in Turns |-> NoRow]]
    BY DEF Init
<1>2. PICK g : g = [pc |-> "off", event |-> NoEvent]
    OBVIOUS
<1>3. g \in GatewayRows /\ g.pc = "off"
    <2>1. NoEvent \in EventRows
        BY DEF NoEvent, EventRows
    <2> QED BY <1>2, <2>1 DEF GatewayRows
<1>4. PICK R : R = [k \in Turns |-> NoRow]
    OBVIOUS
<1>5. NoRow \in StoreRows /\ NoRow.status = "none" /\ NoRow.text = "none"
    BY DEF NoRow, StoreRows, Statuses
<1>6. R \in RowsOf /\ \A k \in Turns : R[k] = NoRow
    BY <1>4, <1>5 DEF RowsOf
<1>7. /\ Sane(NewLedger) /\ samples(NewLedger) = 0
      /\ \A k \in Turns : ~NewLedger.items[k].acked /\ ~NewLedger.items[k].delivered
    BY NewIsSane
<1>8. Agree(NewLedger, R)
    <2>1. ASSUME NEW k \in Turns PROVE AgreeItem(NewLedger.items[k], Covered(NewLedger, k), R[k])
        BY <1>5, <1>6, <1>7 DEF AgreeItem
    <2> QED BY <1>6, <2>1 DEF Agree
<1>9. << >> \in Seq(EventRows)
    OBVIOUS
<1>10. Connection(NewLedger, R, << >>, g)
    <2>1. g.pc \notin Handling /\ g.pc \notin Accepting /\ g.pc \notin Settling
        BY <1>3 DEF Handling, Accepting, Settling
    <2> QED BY <1>3, <1>7, <1>8, <1>9, <2>1, NothingIsOwed DEF Connection, Due
<1>11. \A c \in Conns : /\ ledger[c] = NewLedger /\ row[c] = R /\ events[c] = << >>
                        /\ gateway[c] = g
    BY <1>1, <1>2, <1>4
<1>12. Connections
    <2>1. NewLedger \in Ledgers
        BY <1>7 DEF Sane
    <2>2. ledger \in [Conns -> Ledgers] /\ row \in [Conns -> RowsOf]
        BY <1>1, <1>4, <1>6, <2>1
    <2>3. events \in [Conns -> Seq(EventRows)] /\ owing \in [Conns -> SUBSET Turns]
        BY <1>1, <1>9
    <2>4. gateway \in [Conns -> GatewayRows]
        BY <1>1, <1>2, <1>3
    <2> QED BY <1>10, <1>11, <2>2, <2>3, <2>4 DEF Connections
<1>13. \A c \in Conns, k \in Turns : ~IsEvidence(c, k)
    BY <1>5, <1>6, <1>11 DEF IsEvidence
<1>14. Spoken
    BY <1>1, <1>13 DEF Spoken, SpokenOrder
<1>15. Ended
    <2>1. \A c \in Conns : gateway[c].pc = "off"
        BY <1>3, <1>11
    <2>2. 1 \in 1 .. MaxConns + 1
        BY ProviderItemsAssumption
    <2> QED BY <1>1, <2>1, <2>2 DEF Ended
<1> QED BY <1>12, <1>14, <1>15 DEF ItemsInd

LEMMA ItemsStep == ItemsInd /\ [Next]_vars => ItemsInd'
<1> SUFFICES ASSUME ItemsInd, [Next]_vars PROVE ItemsInd'
    OBVIOUS
<1>1. Connections /\ Spoken /\ Ended
    BY DEF ItemsInd
<1>2. CASE Session
    BY <1>1, <1>2, SessionSteps, EndedBySession DEF ItemsInd
<1>3. ASSUME NEW c \in Conns, Provider(c) \/ Gateway(c) PROVE ItemsInd'
    BY <1>1, <1>3, ConnectionSteps, EndedByConnection DEF ItemsInd
<1>4. CASE UNCHANGED vars
    <2>1. Connections' /\ Spoken'
        BY <1>1, <1>4, NothingChanges DEF vars
    <2>2. Ended'
        BY <1>1, <1>4 DEF vars, Ended, WasSettled, PendingItems, provider, store
    <2> QED BY <2>1, <2>2 DEF ItemsInd
<1> QED BY <1>2, <1>3, <1>4 DEF Next

LEMMA ItemsAlways == Spec => []ItemsInd
BY ItemsInit, ItemsStep, PTL DEF Spec

LEMMA OneAtMost ==
    ASSUME Spoken, NEW c \in Conns, NEW k \in Turns
    PROVE  Cardinality({n \in DOMAIN evidence : evidence[n] = <<c, k>>}) =
               IF IsEvidence(c, k) THEN 1 ELSE 0
<1> DEFINE S == {n \in DOMAIN evidence : evidence[n] = <<c, k>>}
<1>1. CASE IsEvidence(c, k)
    <2>1. PICK m \in DOMAIN evidence : evidence[m] = <<c, k>>
        BY <1>1 DEF Spoken
    <2>2. \A n \in DOMAIN evidence : evidence[n] = <<c, k>> => n = m
        BY <2>1 DEF Spoken
    <2>3. S = {m}
        BY <2>1, <2>2
    <2> QED BY <1>1, <2>3, FS_Singleton
<1>2. CASE ~IsEvidence(c, k)
    <2>1. S = {}
        BY <1>2 DEF Spoken
    <2> QED BY <1>2, <2>1, FS_EmptySet
<1> QED BY <1>1, <1>2

LEMMA ItemsSafe == ItemsInd => ItemsInv
<1> SUFFICES ASSUME ItemsInd PROVE ItemsInv
    OBVIOUS
<1>1. Connections /\ Spoken /\ Ended
    BY DEF ItemsInd
<1>2. TypeOK
    <2>1. row \in [Conns -> [Turns -> [status : Statuses, text : {"none", "text", "empty"}]]]
        BY <1>1 DEF Connections, RowsOf, StoreRows
    <2>2. \A n \in DOMAIN evidence : evidence[n] \in Conns \X Turns
        BY <1>1 DEF Spoken
    <2>3. \A c \in Conns : owing[c] \subseteq Turns
        BY <1>1 DEF Connections
    <2> QED BY <1>1, <2>1, <2>2, <2>3 DEF TypeOK, Ended
<1>3. EvidenceMatchesItem
    <2>1. \A c \in Conns, k \in Turns :
              Cardinality({n \in DOMAIN evidence : evidence[n] = <<c, k>>}) =
                  IF row[c][k].status = "evidence_accepted" THEN 1 ELSE 0
        BY <1>1, OneAtMost DEF IsEvidence
    <2>2. ASSUME NEW n \in DOMAIN evidence PROVE row[evidence[n][1]][evidence[n][2]].text = "text"
        <3>1. PICK c \in Conns, k \in Turns : evidence[n] = <<c, k>>
            BY <1>1 DEF Spoken
        <3>2. IsEvidence(c, k)
            BY <1>1, <3>1 DEF Spoken
        <3>3. Agree(ledger[c], row[c])
            BY <1>1, OfConnection
        <3>4. row[c][k].text = "text"
            BY <3>2, <3>3 DEF IsEvidence, Agree, AgreeItem
        <3> QED BY <3>1, <3>4
    <2> QED BY <2>1, <2>2 DEF EvidenceMatchesItem
<1>4. SpokenOrder
    BY <1>1 DEF Spoken
<1>5. DeliveredIsOnRecord
    <2> SUFFICES ASSUME NEW c \in Conns, NEW k \in Turns, ledger[c].items[k].delivered
                 PROVE  row[c][k].status \in {"evidence_accepted", "empty", "coverage_unknown"}
        BY DEF DeliveredIsOnRecord
    <2>1. Agree(ledger[c], row[c])
        BY <1>1, OfConnection
    <2> QED BY <2>1 DEF Agree, AgreeItem
<1> QED BY <1>2, <1>3, <1>4, <1>5 DEF ItemsInv

LEMMA CompleteIsAll == ItemsInd => CompleteEndHeardAll
<1> SUFFICES ASSUME ItemsInd, service = "ended", NEW c \in Conns
             PROVE  /\ \A k \in Turns : ledger[c].items[k].acked =>
                           row[c][k].status = "evidence_accepted"
                    /\ \A f \in 1 .. samples(ledger[c]) : \E k \in Turns :
                          /\ row[c][k].status = "evidence_accepted"
                          /\ ledger[c].items[k].start < f /\ f <= ledger[c].items[k].end
    BY DEF CompleteEndHeardAll
<1> DEFINE L == ledger[c]
<1>1. Connections /\ Ended
    BY DEF ItemsInd
<1>2. Connection(L, row[c], events[c], gateway[c]) /\ Sane(L) /\ Agree(L, row[c])
    BY <1>1, OfConnection
<1>3. /\ PendingItems = {} /\ WasSettled(1)
      /\ \A d \in Conns : d # 1 => gateway[d].pc = "off"
    BY <1>1 DEF Ended
<1>4. CASE c # 1
    <2>1. gateway[c].pc = "off"
        BY <1>3, <1>4
    <2>2. samples(L) = 0 /\ \A k \in Turns : ~L.items[k].acked
        BY <1>2, <2>1 DEF Connection
    <2> QED BY <2>2
<1>5. CASE c = 1
    <2>1. L.intents = << >> /\ Unresolved(L) = {} /\ AllAskedFor(L)
        BY <1>3, <1>5 DEF WasSettled
    <2>2. ASSUME NEW k \in Turns, L.items[k].acked
          PROVE  row[c][k].status = "evidence_accepted" /\ L.items[k].start # Unknown
        <3>1. L.items[k].delivered
            BY <2>1, <2>2 DEF Unresolved
        <3>2. AgreeItem(L.items[k], Covered(L, k), row[c][k])
            BY <1>2 DEF Agree
        <3>3. row[c][k].status \in {"evidence_accepted", "empty", "coverage_unknown"}
            BY <3>1, <3>2 DEF AgreeItem
        <3>4. row[c][k].status \in {"none", "evidence_accepted"}
            <4>1. <<c, k>> \notin PendingItems
                BY <1>3
            <4> QED BY <4>1 DEF PendingItems
        <3>5. Covered(L, k)
            BY <3>2, <3>3, <3>4 DEF AgreeItem
        <3> QED BY <3>3, <3>4, <3>5 DEF Covered, range_known
    <2>3. L.allocated = samples(L)
        BY <2>1, <2>2 DEF AllAskedFor, Lost
    <2>4. ASSUME NEW f \in 1 .. samples(L)
          PROVE  \E k \in Turns : /\ row[c][k].status = "evidence_accepted"
                                  /\ L.items[k].start < f /\ f <= L.items[k].end
        <3>1. PICK k \in Turns : OwnedBy(L.items[k], f)
            BY <1>2, <2>3 DEF Sane
        <3> QED BY <2>2, <3>1 DEF OwnedBy
    <2> QED BY <2>2, <2>4
<1> QED BY <1>4, <1>5

\* Whatever a socket does between two transactions, the rows of the items, the evidence and
\* what the client counts as delivered tell one story: every accepted item is evidence once,
\* in the order in which it was spoken, with none left out (accept_provider_final).
THEOREM ItemsTellOneStory == Spec => []ItemsInv
BY ItemsAlways, ItemsSafe, PTL

\* A meeting that ended as complete has evidence of every item that was committed and of
\* every frame that was taken (settle_pause and complete_drain).
THEOREM CompleteMeansHeard == Spec => []CompleteEndHeardAll
BY ItemsAlways, CompleteIsAll, PTL
=============================================================================
