-------------------------- MODULE LiveQueueProofs --------------------------
(***************************************************************************)
(* The queue of a live meeting and the session that feeds it one utterance *)
(* at a time, for any number of utterances, retries, commands and browsers:*)
(* the worker's events stand right behind the graph they were made from,   *)
(* every step of the queue is one of AnalyzerQueue, and what a session     *)
(* shows as updated has been analysed.                                     *)
(***************************************************************************)
EXTENDS LiveUtterance, SequenceTheorems, TLAPS

Event == [by : 0 .. MaxItems, seen : Nat]

Locals == [pc : {"idle", "claimed", "analyse", "correct", "check", "copy", "reanalyse",
                 "recheck", "append", "applied", "failing", "stopped"},
           n : 0 .. MaxItems, start : Nat, current : Nat, seen : Nat, events : 0 .. 1]

\* The worker has taken an item.
Holds == worker.pc \notin {"idle", "stopped"}

\* Utterances are handed over in the order of their numbers, first with no retry; the item the
\* worker holds is behind no other that was never retried; and a worker stops when closed.
InOrder ==
    /\ \A n \in Items : item[n].state # "none" => \A m \in 1 .. n - 1 : item[m].state # "none"
    /\ \A n \in Items : item[n].state = "none" => item[n].retries = 0
    /\ Holds => \/ item[worker.n].retries > 0
                \/ \A m \in 1 .. worker.n - 1 : item[m].state = "pending" => item[m].retries > 0
    /\ worker.pc = "stopped" => closed

\* What the worker knows of the graph while others write to it.
Reading ==
    /\ worker.pc \in {"analyse", "check"} => worker.seen = worker.start /\ worker.start <= Revision
    /\ worker.pc = "copy" => worker.current <= Revision
    /\ worker.pc \in {"reanalyse", "recheck"} =>
           worker.current <= worker.seen /\ worker.seen <= Revision
    /\ worker.pc = "append" => worker.seen = worker.current /\ worker.current <= Revision

\* The inductive invariant.
QueueInd ==
    /\ TypeOK /\ NothingStranded /\ AppendedToWhatWasSeen
    /\ InOrder /\ Reading

LEMMA Bounds ==
    /\ MaxItems \in Nat /\ MaxRetries \in Nat /\ MaxConns \in Nat /\ 0 \in 0 .. MaxItems
    /\ \A n \in Items : n \in Nat \ {0} /\ n \in 0 .. MaxItems /\ 1 .. n - 1 \subseteq Items
BY LiveQueueAssumption, LiveUtteranceAssumption DEF Items

LEMMA Held ==
    ASSUME TypeOK
    PROVE  /\ Holds => worker.n \in Items /\ item[worker.n].state = "processing"
           /\ \A n \in Items : item[n].state = "processing" => Holds /\ n = worker.n
BY DEF TypeOK, Holds, At

LEMMA OneEvent ==
    ASSUME NEW S, NEW x \in Seq(S), NEW b \in S, NEW e \in 0 .. 1
    PROVE  LET y == x \o [k \in 1 .. e |-> b]
           IN  /\ y \in Seq(S) /\ Len(y) = Len(x) + e
               /\ \A i \in 1 .. Len(x) : y[i] = x[i]
               /\ e = 1 => y[Len(x) + 1] = b
<1> DEFINE z == [k \in 1 .. e |-> b]
<1>1. z \in Seq(S) /\ Len(z) = e
    OBVIOUS
<1>2. e = 1 => z[1] = b
    OBVIOUS
<1> HIDE DEF z
<1>3. /\ x \o z \in Seq(S) /\ Len(x \o z) = Len(x) + Len(z)
      /\ \A i \in 1 .. Len(x) + Len(z) :
             (x \o z)[i] = IF i <= Len(x) THEN x[i] ELSE z[i - Len(x)]
    BY <1>1, ConcatProperties
<1>4. Len(x) \in Nat
    OBVIOUS
<1>5. /\ \A i \in 1 .. Len(x) : (x \o z)[i] = x[i]
      /\ e = 1 => (x \o z)[Len(x) + 1] = b
    BY <1>1, <1>2, <1>3, <1>4
<1> QED BY <1>1, <1>3, <1>5 DEF z

\* Events that name the revision of now stand where they should.
LEMMA Written ==
    ASSUME log \in Seq(Event), AppendedToWhatWasSeen, NEW b \in 0 .. MaxItems, NEW e \in 0 .. 1,
           log' = log \o [k \in 1 .. e |-> [by |-> b, seen |-> Revision]]
    PROVE  /\ log' \in Seq(Event) /\ Revision' = Revision + e /\ AppendedToWhatWasSeen'
           /\ Revision \in Nat
           /\ Authors' = Authors \o [k \in 1 .. e |-> b]
<1> DEFINE r == [by |-> b, seen |-> Revision]
<1>1. Revision \in Nat /\ r \in Event /\ DOMAIN log = 1 .. Revision
    BY DEF Revision, Event
<1>2. /\ log' \in Seq(Event) /\ Len(log') = Len(log) + e
      /\ \A i \in 1 .. Len(log) : log'[i] = log[i]
      /\ e = 1 => log'[Len(log) + 1] = r
    BY <1>1, OneEvent
<1>3. DOMAIN log' = 1 .. Revision + e /\ Revision' = Revision + e
    BY <1>1, <1>2 DEF Revision
<1>4. AppendedToWhatWasSeen'
    BY <1>1, <1>2, <1>3 DEF AppendedToWhatWasSeen, Revision
<1> DEFINE z == Authors \o [k \in 1 .. e |-> b]
<1>5. Authors \in Seq(0 .. MaxItems) /\ Len(Authors) = Revision
    <2>1. Authors = [k \in 1 .. Revision |-> log[k].by]
        BY <1>1 DEF Authors
    <2>2. \A k \in 1 .. Revision : log[k].by \in 0 .. MaxItems
        <3>1. \A k \in 1 .. Revision : log[k] \in Event
            BY <1>1 DEF Revision
        <3> QED BY <3>1 DEF Event
    <2> QED BY <1>1, <2>1, <2>2
<1>6. /\ z \in Seq(0 .. MaxItems) /\ Len(z) = Revision + e
      /\ \A i \in 1 .. Revision : z[i] = Authors[i]
      /\ e = 1 => z[Revision + 1] = b
    BY <1>5, OneEvent
<1> HIDE DEF z
<1>7. Authors' = [k \in 1 .. Revision + e |-> log'[k].by]
    BY <1>3 DEF Authors
<1>8. z = [k \in 1 .. Revision + e |-> z[k]]
    BY <1>1, <1>6
<1>9. \A k \in 1 .. Revision + e : z[k] = log'[k].by
    <2> TAKE k \in 1 .. Revision + e
    <2>1. CASE k \in 1 .. Revision
        <3>1. Authors[k] = log[k].by
            BY <1>1, <2>1 DEF Authors
        <3> QED BY <1>2, <1>6, <2>1, <3>1 DEF Revision
    <2>2. CASE k = Revision + 1 /\ e = 1
        BY <1>2, <1>6, <2>2 DEF Revision
    <2> QED BY <1>1, <2>1, <2>2
<1>10. Authors' = z
    BY <1>7, <1>8, <1>9
<1> QED BY <1>1, <1>2, <1>3, <1>4, <1>10 DEF z

\* A command is one event.
LEMMA OneCommand ==
    ASSUME log \in Seq(Event), ExecuteCommand
    PROVE  log' = log \o [k \in 1 .. 1 |-> [by |-> Human, seen |-> Revision]]
<1>1. Append(log, [by |-> Human, seen |-> Revision]) = log \o << [by |-> Human, seen |-> Revision] >>
    OBVIOUS
<1>2. << [by |-> Human, seen |-> Revision] >> = [k \in 1 .. 1 |-> [by |-> Human, seen |-> Revision]]
    OBVIOUS
<1> QED BY <1>1, <1>2 DEF ExecuteCommand

-----------------------------------------------------------------------------
(* Items.                                                                  *)

\* What a step of the items keeps, with the worker where it is.
ItemsKept == (TypeOK /\ NothingStranded /\ InOrder)'

Same == UNCHANGED <<log, closed, worker>>

LEMMA RegisterItems ==
    ASSUME QueueInd, NEW n \in Items, Register(n)
    PROVE  ItemsKept
<1>1. item' = [item EXCEPT ![n].state = "pending"] /\ item[n].state = "none" /\ ~closed /\ Same
      /\ \A m \in 1 .. n - 1 : item[m].state # "none"
    BY DEF Register, enqueue, Same
<1>2. worker.pc # "stopped"
    BY <1>1 DEF QueueInd, InOrder
<1>3. At({"processing"})' = At({"processing"})
    BY <1>1 DEF At, QueueInd, TypeOK
<1>4. TypeOK'
    BY <1>1, <1>3 DEF QueueInd, TypeOK, States, Same
<1>5. Holds' = Holds
    BY <1>1 DEF Holds, Same
<1>6. InOrder'
    <2>1. \A m \in Items : item[m].state # "none" => \A k \in 1 .. m - 1 : item[k].state # "none"
        BY DEF QueueInd, InOrder
    <2>2. \A m \in Items : item'[m].retries = item[m].retries
                  /\ (m # n => item'[m].state = item[m].state) /\ item'[n].state = "pending"
        BY <1>1 DEF QueueInd, TypeOK
    <2>3. ASSUME Holds, NEW m \in 1 .. worker.n - 1
          PROVE  m # n /\ m \in Items /\ worker.n \in Items
        <3>1. worker.n \in Items /\ item[worker.n].state = "processing"
            BY <2>3, Held DEF QueueInd
        <3> QED BY <1>1, <2>1, <2>3, <3>1, Bounds
    <2>4. \A m \in Items : item'[m].state # "none" => \A k \in 1 .. m - 1 : item'[k].state # "none"
        BY <1>1, <2>1, <2>2, Bounds
    <2>5. Holds' => \/ item'[worker'.n].retries > 0
                    \/ \A m \in 1 .. worker'.n - 1 : item'[m].state = "pending" => item'[m].retries > 0
        <3>1. Holds => worker.n \in Items
            BY Held DEF QueueInd
        <3> QED BY <1>1, <1>5, <2>2, <2>3, <3>1 DEF QueueInd, InOrder, Same
    <2> QED BY <1>1, <1>2, <2>2, <2>4, <2>5 DEF QueueInd, InOrder, Same
<1> QED BY <1>1, <1>2, <1>4, <1>6 DEF ItemsKept, NothingStranded, Same

LEMMA RetryItems ==
    ASSUME QueueInd, NEW n \in Items, Retry(n)
    PROVE  ItemsKept
<1>1. item' = [item EXCEPT ![n] = [state |-> "pending", retries |-> item[n].retries + 1]]
      /\ item[n].state = "failed" /\ ~closed /\ Same /\ item[n].retries < MaxRetries
    BY DEF Retry, Same
<1>2. worker.pc # "stopped"
    BY <1>1 DEF QueueInd, InOrder
<1>3. At({"processing"})' = At({"processing"})
    BY <1>1 DEF At, QueueInd, TypeOK
<1>4. item[n].retries + 1 \in 0 .. MaxRetries
    BY <1>1, Bounds DEF QueueInd, TypeOK
<1>5. TypeOK'
    BY <1>1, <1>3, <1>4 DEF QueueInd, TypeOK, States, Same
<1>6. Holds' = Holds
    BY <1>1 DEF Holds, Same
<1>7. InOrder'
    <2>1. \A m \in Items :
              IF m = n THEN item'[m].state = "pending" /\ item'[m].retries > 0
              ELSE item'[m] = item[m]
        BY <1>1, <1>4 DEF QueueInd, TypeOK
    <2>2. Holds => worker.n \in Items /\ worker.n # n
        BY <1>1, Held DEF QueueInd
    <2>3. \A m \in Items : item'[m].state # "none" => \A k \in 1 .. m - 1 : item'[k].state # "none"
        BY <1>1, <2>1, Bounds DEF QueueInd, InOrder
    <2>4. Holds => \/ item'[worker.n].retries > 0
                   \/ \A m \in 1 .. worker.n - 1 : item'[m].state = "pending" => item'[m].retries > 0
        BY <2>1, <2>2, Bounds DEF QueueInd, InOrder
    <2> QED BY <1>1, <1>2, <1>6, <2>1, <2>3, <2>4 DEF QueueInd, InOrder, Same
<1> QED BY <1>1, <1>2, <1>5, <1>7 DEF ItemsKept, NothingStranded, Same

\* The worker takes the pending item that was spoken first.
LEMMA ClaimItems ==
    ASSUME QueueInd, ClaimNext
    PROVE  ItemsKept
<1>1. worker.pc = "idle" /\ UNCHANGED <<log, closed>> /\ ~Holds
    BY DEF ClaimNext, Holds
<1>2. ASSUME NEW n \in Items, IsNext(n), item' = [item EXCEPT ![n].state = "processing"],
             worker' = [Idle EXCEPT !.pc = "claimed", !.n = n]
      PROVE  ItemsKept
    <2>1. item[n].state = "pending" /\ \A m \in 1 .. n - 1 : item[m].state # "pending"
        BY <1>2, Bounds DEF IsNext, At
    <2>2. worker'.pc = "claimed" /\ worker'.n = n
        BY <1>2 DEF Idle
    <2>3. At({"processing"})' = {n}
        BY <1>1, <1>2, Held DEF At, QueueInd, TypeOK
    <2>4. TypeOK'
        <3>1. worker' \in Locals
            <4>1. Idle \in Locals /\ n \in 0 .. MaxItems
                BY Bounds DEF Idle, Locals
            <4> QED BY <1>2, <4>1 DEF Locals
        <3>2. item' \in [Items -> [state : States, retries : 0 .. MaxRetries]]
            BY <1>2 DEF QueueInd, TypeOK, States
        <3> QED BY <1>1, <2>2, <2>3, <3>1, <3>2 DEF QueueInd, TypeOK, Locals
    <2>5. \A m \in Items : /\ item'[m].retries = item[m].retries
                           /\ m # n => item'[m].state = item[m].state
                           /\ item'[m].state = "none" <=> item[m].state = "none"
        BY <1>2, <2>1 DEF QueueInd, TypeOK
    <2>6. InOrder'
        BY <2>1, <2>2, <2>5, Bounds DEF QueueInd, InOrder
    <2> QED BY <2>2, <2>4, <2>6 DEF ItemsKept, NothingStranded
<1>3. ASSUME Drained, worker' = [Idle EXCEPT !.pc = "stopped"], UNCHANGED item
      PROVE  ItemsKept
    <2>1. worker'.pc = "stopped" /\ worker'.n = 0 /\ ~Holds'
        BY <1>3 DEF Idle, Holds
    <2>2. At({"processing"}) = {} /\ At({"pending"}) = {} /\ closed
        BY <1>1, <1>3 DEF Drained, QueueInd, TypeOK
    <2>3. At({"pending", "processing"})' = {}
        BY <1>3, <2>2 DEF At
    <2>4. TypeOK'
        <3>1. worker' \in Locals
            BY <1>3, Bounds DEF Idle, Locals
        <3>2. item' \in [Items -> [state : States, retries : 0 .. MaxRetries]]
            BY <1>3 DEF QueueInd, TypeOK, States
        <3>3. log' \in Seq([by : 0 .. MaxItems, seen : Nat]) /\ closed' \in BOOLEAN
            BY <1>1 DEF QueueInd, TypeOK
        <3>4. At({"processing"})' = {}
            BY <1>3, <2>2 DEF At
        <3> QED BY <2>1, <3>1, <3>2, <3>3, <3>4 DEF TypeOK, Locals
    <2>5. InOrder'
        BY <1>1, <1>3, <2>1, <2>2 DEF QueueInd, InOrder
    <2> QED BY <2>3, <2>4, <2>5 DEF ItemsKept, NothingStranded
<1> QED BY <1>2, <1>3 DEF ClaimNext

\* The worker lets go of its item.
LEMMA FinishItems ==
    ASSUME QueueInd, Finish
    PROVE  ItemsKept
<1> DEFINE n == worker.n
<1>1. n \in Items /\ item[n].state = "processing" /\ Holds
    BY Held DEF QueueInd, Finish, Holds
<1>2. PICK o \in {"completed", "failed"} : item' = [item EXCEPT ![n].state = o]
    BY DEF Finish, Outcome
<1>3. worker' = Idle /\ UNCHANGED <<log, closed>> /\ worker'.pc = "idle" /\ ~Holds'
    BY DEF Finish, Idle, Holds
<1> HIDE DEF n
<1>4. \A m \in Items : /\ item'[m].retries = item[m].retries
                       /\ IF m = n THEN item'[m].state = o ELSE item'[m].state = item[m].state
    BY <1>2 DEF QueueInd, TypeOK
<1>5. At({"processing"})' = {}
    BY <1>4, Held DEF At, QueueInd, n
<1>6. TypeOK'
    <2>1. worker' \in Locals
        BY <1>3, Bounds DEF Idle, Locals
    <2>2. item' \in [Items -> [state : States, retries : 0 .. MaxRetries]]
        BY <1>2 DEF QueueInd, TypeOK, States
    <2> QED BY <1>3, <1>5, <2>1, <2>2 DEF QueueInd, TypeOK, Locals
<1>7. InOrder'
    BY <1>1, <1>3, <1>4, Bounds DEF QueueInd, InOrder
<1> QED BY <1>3, <1>6, <1>7 DEF ItemsKept, NothingStranded

\* The steps of the worker in between, and what people do, leave the items.
LEMMA OtherItems ==
    ASSUME QueueInd, UNCHANGED item, log' \in Seq(Event), closed' \in BOOLEAN, closed => closed',
           \/ UNCHANGED worker
           \/ /\ Holds /\ Holds' /\ worker'.n = worker.n
              /\ worker' \in Locals
    PROVE  ItemsKept
<1>1. At({"processing"})' = At({"processing"})
      /\ At({"pending", "processing"})' = At({"pending", "processing"})
    BY DEF At
<1>2. Holds' = Holds /\ worker'.n = worker.n /\ (worker'.pc = "stopped" => worker.pc = "stopped")
    BY DEF Holds
<1>3. TypeOK'
    BY <1>1, <1>2 DEF QueueInd, TypeOK, Event, Holds, Locals
<1>4. InOrder'
    BY <1>2 DEF QueueInd, InOrder
<1> QED BY <1>1, <1>2, <1>3, <1>4 DEF ItemsKept, NothingStranded, QueueInd

-----------------------------------------------------------------------------
(* The graph.                                                              *)

\* Whoever writes to the graph, the worker's knowledge of it stays true until the final check.
LEMMA LogGrows ==
    ASSUME QueueInd, NEW b \in 0 .. MaxItems, NEW e \in 0 .. 1,
           log' = log \o [k \in 1 .. e |-> [by |-> b, seen |-> Revision]],
           worker' = worker \/ worker'.pc = "applied"
    PROVE  log' \in Seq(Event) /\ AppendedToWhatWasSeen' /\ Reading'
<1>1. /\ log' \in Seq(Event) /\ Revision' = Revision + e /\ AppendedToWhatWasSeen'
      /\ Revision \in Nat
    BY Written DEF QueueInd, TypeOK, Event
<1>2. worker.start \in Nat /\ worker.current \in Nat /\ worker.seen \in Nat
    BY DEF QueueInd, TypeOK
<1>3. CASE worker' = worker
    <2>1. Revision <= Revision'
        BY <1>1
    <2>2. \A k \in Nat : k <= Revision => k <= Revision'
        BY <1>1
    <2> QED BY <1>1, <1>2, <1>3, <2>2 DEF QueueInd, Reading
<1>4. CASE worker'.pc = "applied"
    BY <1>1, <1>4 DEF Reading
<1> QED BY <1>1, <1>3, <1>4

LEMMA RequestsKeepQueue ==
    ASSUME QueueInd, (\E n \in Items : Register(n) \/ Retry(n)) \/ ExecuteCommand \/ Close
    PROVE  QueueInd'
<1>1. CASE \E n \in Items : Register(n) \/ Retry(n)
    <2>1. ItemsKept
        BY <1>1, RegisterItems, RetryItems
    <2>2. UNCHANGED <<log, worker>>
        BY <1>1 DEF Register, Retry
    <2> QED BY <2>1, <2>2 DEF ItemsKept, QueueInd, Reading, AppendedToWhatWasSeen, Revision
<1>2. CASE ExecuteCommand
    <2>1. log' = log \o [k \in 1 .. 1 |-> [by |-> Human, seen |-> Revision]]
        BY <1>2, OneCommand DEF QueueInd, TypeOK, Event
    <2>2. UNCHANGED <<item, closed, worker>> /\ Human \in 0 .. MaxItems
        BY <1>2, Bounds DEF ExecuteCommand, Human
    <2>3. log' \in Seq(Event) /\ AppendedToWhatWasSeen' /\ Reading'
        BY <2>1, <2>2, LogGrows
    <2>4. ItemsKept
        BY <2>2, <2>3, OtherItems DEF QueueInd, TypeOK
    <2> QED BY <2>3, <2>4 DEF ItemsKept, QueueInd
<1>3. CASE Close
    <2>1. UNCHANGED <<item, log, worker>> /\ closed' = TRUE
        BY <1>3 DEF Close
    <2>2. ItemsKept
        BY <2>1, OtherItems DEF QueueInd, TypeOK, Event
    <2> QED BY <2>1, <2>2 DEF ItemsKept, QueueInd, Reading, AppendedToWhatWasSeen, Revision
<1> QED BY <1>1, <1>2, <1>3

LEMMA WorkerKeepsQueue ==
    ASSUME QueueInd, WorkerStep
    PROVE  QueueInd'
<1>1. worker \in Locals /\ log \in Seq(Event) /\ Revision \in Nat
    BY DEF QueueInd, TypeOK, Locals, Event, Revision
<1>2. ASSUME UNCHANGED <<item, log, closed>>, Holds, Holds', worker'.n = worker.n,
             worker' \in Locals, Reading'
      PROVE  QueueInd'
    <2>1. ItemsKept
        BY <1>1, <1>2, OtherItems DEF QueueInd, TypeOK
    <2> QED BY <1>2, <2>1 DEF ItemsKept, QueueInd, AppendedToWhatWasSeen
<1>3. ASSUME NEW b \in 0 .. MaxItems, NEW e \in 0 .. 1, Holds, worker'.n = worker.n,
             log' = log \o [k \in 1 .. e |-> [by |-> b, seen |-> Revision]],
             worker'.pc = "applied", worker' \in Locals, UNCHANGED <<item, closed>>
      PROVE  QueueInd'
    <2>1. log' \in Seq(Event) /\ AppendedToWhatWasSeen' /\ Reading'
        BY <1>3, LogGrows
    <2>2. Holds'
        BY <1>3 DEF Holds
    <2>3. ItemsKept
        BY <1>3, <2>1, <2>2, OtherItems DEF QueueInd, TypeOK
    <2> QED BY <2>1, <2>3 DEF ItemsKept, QueueInd
<1>4. CASE ClaimNext
    <2>1. ItemsKept /\ UNCHANGED log
        BY <1>4, ClaimItems DEF ClaimNext
    <2>2. worker'.pc \in {"claimed", "stopped"}
        BY <1>4 DEF ClaimNext, Idle
    <2> QED BY <2>1, <2>2 DEF ItemsKept, QueueInd, Reading, AppendedToWhatWasSeen
<1>5. CASE Snapshot
    <2>1. UNCHANGED <<item, log, closed>> /\ Holds
        BY <1>5 DEF Snapshot, Holds
    <2>2. PICK kind \in {"analyse", "correct"} :
              worker' = [worker EXCEPT !.pc = kind, !.start = Revision, !.seen = Revision]
        BY <1>5 DEF Snapshot
    <2>3. worker' \in Locals /\ worker'.n = worker.n /\ Holds'
        BY <1>1, <2>1, <2>2 DEF Locals, Holds
    <2>4. worker'.pc = kind /\ worker'.seen = Revision /\ worker'.start = Revision
        BY <1>1, <2>2 DEF Locals
    <2>5. Revision' = Revision
        BY <2>1 DEF Revision
    <2>6. Reading'
        BY <1>1, <2>4, <2>5 DEF Reading
    <2> QED BY <1>2, <2>1, <2>3, <2>6
<1>6. CASE Correct
    <2>1. PICK e \in 0 .. 1 :
              /\ log' = log \o [k \in 1 .. e |-> [by |-> worker.n, seen |-> Revision]]
              /\ worker' = [worker EXCEPT !.pc = "applied", !.events = e]
        BY <1>6 DEF Correct
    <2>2. Holds /\ UNCHANGED <<item, closed>>
        BY <1>6 DEF Correct, Holds
    <2>3. worker' \in Locals /\ worker'.n = worker.n /\ worker'.pc = "applied"
              /\ worker.n \in 0 .. MaxItems
        BY <1>1, <2>1 DEF Locals
    <2> QED BY <1>3, <2>1, <2>2, <2>3
<1>7. CASE Analyse
    <2>1. UNCHANGED <<item, log, closed>> /\ Holds
        BY <1>7 DEF Analyse, Holds
    <2>2. worker' \in Locals /\ worker'.n = worker.n /\ Holds'
        BY <1>1, <1>7 DEF Analyse, Locals, Holds
    <2>3. Reading'
        BY <1>1, <1>7 DEF Analyse, Locals, QueueInd, Reading, Revision
    <2> QED BY <1>2, <2>1, <2>2, <2>3
<1>8. CASE CheckRevision
    <2>1. UNCHANGED <<item, log, closed>> /\ Holds
        BY <1>8 DEF CheckRevision, Holds
    <2>2. worker' \in Locals /\ worker'.n = worker.n /\ Holds'
        BY <1>1, <1>8 DEF CheckRevision, Locals, Holds
    <2>3. Reading'
        BY <1>1, <1>8 DEF CheckRevision, Locals, QueueInd, Reading, Revision
    <2> QED BY <1>2, <2>1, <2>2, <2>3
<1>9. CASE CopyAgain
    <2>1. UNCHANGED <<item, log, closed>> /\ Holds
        BY <1>9 DEF CopyAgain, Holds
    <2>2. worker' \in Locals /\ worker'.n = worker.n /\ Holds'
        BY <1>1, <1>9 DEF CopyAgain, Locals, Holds
    <2>3. Reading'
        BY <1>1, <1>9 DEF CopyAgain, Locals, QueueInd, Reading, Revision
    <2> QED BY <1>2, <2>1, <2>2, <2>3
<1>10. CASE Recheck
    <2>1. UNCHANGED <<item, log, closed>> /\ Holds
        BY <1>10 DEF Recheck, Holds
    <2>2. worker' \in Locals /\ worker'.n = worker.n /\ Holds'
        BY <1>1, <1>10 DEF Recheck, Locals, Holds
    <2>3. Reading'
        BY <1>1, <1>10 DEF Recheck, Locals, QueueInd, Reading, Revision
    <2> QED BY <1>2, <2>1, <2>2, <2>3
<1>11. CASE AppendBatch
    <2>1. Holds /\ UNCHANGED <<item, closed>> /\ worker.n \in 0 .. MaxItems
              /\ worker.events \in 0 .. 1
        BY <1>1, <1>11 DEF AppendBatch, Holds, Locals
    <2>2. CASE /\ Fresh
               /\ log' = log \o [k \in 1 .. worker.events |-> [by |-> worker.n, seen |-> worker.seen]]
               /\ worker' = [worker EXCEPT !.pc = "applied"]
        <3>1. worker.seen = Revision
            BY <1>11, <2>2 DEF Fresh, QueueInd, Reading, AppendBatch
        <3>2. worker' \in Locals /\ worker'.n = worker.n /\ worker'.pc = "applied"
            BY <1>1, <2>2 DEF Locals
        <3>3. log' = log \o [k \in 1 .. worker.events |-> [by |-> worker.n, seen |-> Revision]]
            BY <2>2, <3>1
        <3> QED BY <1>3, <2>1, <3>2, <3>3
    <2>3. CASE worker' = [worker EXCEPT !.pc = "failing"] /\ UNCHANGED log
        <3>1. worker' \in Locals /\ worker'.n = worker.n /\ Holds' /\ Reading'
            BY <1>1, <2>3 DEF Locals, Holds, Reading
        <3> QED BY <1>2, <2>1, <2>3, <3>1
    <2> QED BY <1>11, <2>2, <2>3 DEF AppendBatch
<1>12. CASE Finish
    <2>1. ItemsKept /\ UNCHANGED log
        BY <1>12, FinishItems DEF Finish
    <2>2. worker'.pc = "idle"
        BY <1>12 DEF Finish, Idle
    <2> QED BY <2>1, <2>2 DEF ItemsKept, QueueInd, Reading, AppendedToWhatWasSeen
<1> QED BY <1>4, <1>5, <1>6, <1>7, <1>8, <1>9, <1>10, <1>11, <1>12 DEF WorkerStep

LEMMA QueueStep == QueueInd /\ [Next]_vars => QueueInd'
<1>1. ASSUME QueueInd, Next PROVE QueueInd'
    BY <1>1, RequestsKeepQueue, WorkerKeepsQueue DEF Next
<1>2. ASSUME QueueInd, UNCHANGED vars PROVE QueueInd'
    BY <1>2 DEF vars, QueueInd, TypeOK, NothingStranded, AppendedToWhatWasSeen, InOrder, Reading,
                At, Holds, Revision
<1> QED BY <1>1, <1>2

LEMMA QueueFirst == Init => QueueInd
<1> SUFFICES ASSUME Init PROVE QueueInd
    OBVIOUS
<1>1. worker.pc = "idle" /\ worker \in Locals /\ log = << >> /\ closed = FALSE
    BY Bounds DEF Init, Idle, Locals
<1>2. item \in [Items -> [state : States, retries : 0 .. MaxRetries]]
      /\ \A n \in Items : item[n].state = "none" /\ item[n].retries = 0
    BY Bounds DEF Init, States
<1>3. TypeOK
    <2>1. At({"processing"}) = {}
        BY <1>2 DEF At
    <2>2. log \in Seq([by : 0 .. MaxItems, seen : Nat])
        BY <1>1
    <2> QED BY <1>1, <1>2, <2>1, <2>2 DEF TypeOK, Locals
<1> QED BY <1>1, <1>2, <1>3
        DEF QueueInd, NothingStranded, AppendedToWhatWasSeen, InOrder, Reading, Holds

-----------------------------------------------------------------------------
(* What the meeting sees of the queue.                                     *)

MeetingStep == [Meeting!QueueNext]_(Meeting!queue)
Seen == <<Status, Attempts, Authors>>

LEMMA Unseen == ASSUME UNCHANGED Seen PROVE MeetingStep
BY DEF MeetingStep, Seen, Meeting!queue

\* The status of an utterance, by where its item is.
StatusIs ==
    \A n \in Items :
        /\ Attempts[n] = IF item[n].state = "none" THEN 0 ELSE item[n].retries + 1
        /\ item[n].state \in {"none", "completed", "failed"} => Status[n] = item[n].state
        /\ item[n].state = "pending" => Status[n] = "open"
        /\ item[n].state = "processing" =>
               Status[n] = IF worker.pc = "applied" THEN "completed" ELSE "open"

LEMMA StatusCases == QueueInd => StatusIs
<1> SUFFICES ASSUME QueueInd, NEW n \in Items
             PROVE  /\ Attempts[n] = IF item[n].state = "none" THEN 0 ELSE item[n].retries + 1
                    /\ item[n].state \in {"none", "completed", "failed"} => Status[n] = item[n].state
                    /\ item[n].state = "pending" => Status[n] = "open"
                    /\ item[n].state = "processing" =>
                           Status[n] = IF worker.pc = "applied" THEN "completed" ELSE "open"
    BY DEF StatusIs
<1>1. Status[n] = StatusOf(n)
    BY DEF Status
<1>2. item[n].state = "processing" => worker.n = n
    BY Held DEF QueueInd
<1>3. item[n].state # "processing" => ~(worker.n = n /\ worker.pc = "applied")
    BY Held DEF QueueInd, Holds
<1>4. item[n].state \in {"none", "completed", "failed"} => StatusOf(n) = item[n].state
    BY <1>3 DEF StatusOf
<1>5. item[n].state = "pending" => StatusOf(n) = "open"
    BY <1>3 DEF StatusOf
<1>6. item[n].state = "processing" => StatusOf(n) = IF worker.pc = "applied" THEN "completed" ELSE "open"
    BY <1>2 DEF StatusOf
<1>7. Attempts[n] = IF item[n].state = "none" THEN 0 ELSE item[n].retries + 1
    BY DEF Attempts
<1> QED BY <1>1, <1>4, <1>5, <1>6, <1>7

LEMMA StatusCasesNext == QueueInd' => StatusIs'
BY StatusCases, PTL

\* One utterance changes its status, or its attempts.
LEMMA OneStatus ==
    ASSUME NEW n \in Items, NEW st,
           \A m \in Items : Status'[m] = IF m = n THEN st ELSE Status[m]
    PROVE  Status' = [Status EXCEPT ![n] = st]
<1>1. Status = [m \in Items |-> Status[m]] /\ Status' = [m \in Items |-> Status'[m]]
    BY DEF Status
<1>2. [Status EXCEPT ![n] = st] = [m \in Items |-> IF m = n THEN st ELSE Status[m]]
    BY <1>1
<1> QED BY <1>1, <1>2

LEMMA OneAttempt ==
    ASSUME NEW n \in Items, NEW a,
           \A m \in Items : Attempts'[m] = IF m = n THEN a ELSE Attempts[m]
    PROVE  Attempts' = [Attempts EXCEPT ![n] = a]
<1>1. Attempts = [m \in Items |-> Attempts[m]] /\ Attempts' = [m \in Items |-> Attempts'[m]]
    BY DEF Attempts
<1>2. [Attempts EXCEPT ![n] = a] = [m \in Items |-> IF m = n THEN a ELSE Attempts[m]]
    BY <1>1
<1> QED BY <1>1, <1>2

LEMMA SameStatus ==
    ASSUME \A m \in Items : Status'[m] = Status[m]
    PROVE  Status' = Status
BY DEF Status

\* The item the worker holds is not behind one that was never retried.
LEMMA InTurnWhenHeld ==
    ASSUME QueueInd, Holds
    PROVE  worker.n \in Items /\ Meeting!InTurn(worker.n)
<1> DEFINE n == worker.n
<1>1. n \in Items /\ item[n].state = "processing"
    BY Held DEF QueueInd
<1>2. ASSUME NEW m \in 1 .. n - 1, Status[m] = "open", ~(item[n].retries > 0)
      PROVE  Attempts[m] > 1
    <2>1. m \in Items /\ m # n
        BY <1>1, Bounds
    <2>2. item[m].state = "pending"
        BY <1>2, <2>1, StatusCases, Held DEF StatusIs, QueueInd, TypeOK, States
    <2>3. item[m].retries > 0 /\ item[m].retries \in Nat
        BY <1>2, <2>1, <2>2 DEF QueueInd, InOrder, TypeOK
    <2> QED BY <2>1, <2>2, <2>3, StatusCases DEF StatusIs
<1>3. item[n].retries > 0 => Attempts[n] > 1
    BY <1>1, StatusCases DEF StatusIs, QueueInd, TypeOK
<1> QED BY <1>1, <1>2, <1>3 DEF Meeting!InTurn

LEMMA RegisterSeen ==
    ASSUME QueueInd, QueueInd', NEW n \in Items, Register(n)
    PROVE  Meeting!HandOver(n)
<1>1. item' = [item EXCEPT ![n].state = "pending"] /\ item[n].state = "none"
      /\ UNCHANGED <<log, closed, worker>> /\ \A m \in 1 .. n - 1 : item[m].state # "none"
    BY DEF Register, enqueue
<1>2. item'[n].state = "pending" /\ item'[n].retries = 0 /\ \A m \in Items : m # n => item'[m] = item[m]
    BY <1>1 DEF QueueInd, TypeOK, InOrder
<1>3. \A m \in Items : Status'[m] = IF m = n THEN "open" ELSE Status[m]
    BY <1>1, <1>2, StatusCases, StatusCasesNext DEF StatusIs, QueueInd, TypeOK, States
<1>4. Status' = [Status EXCEPT ![n] = "open"]
    BY <1>3, OneStatus
<1>5. Attempts' = [Attempts EXCEPT ![n] = 1]
    <2>1. \A m \in Items : Attempts'[m] = IF m = n THEN 1 ELSE Attempts[m]
        BY <1>2 DEF Attempts
    <2> QED BY <2>1, OneAttempt
<1>6. Authors' = Authors
    BY <1>1 DEF Authors
<1>7. Status[n] = "none" /\ \A m \in 1 .. n - 1 : Status[m] # "none"
    BY <1>1, StatusCases, Bounds DEF StatusIs, QueueInd, TypeOK, States
<1> QED BY <1>4, <1>5, <1>6, <1>7 DEF Meeting!HandOver

LEMMA RetrySeen ==
    ASSUME QueueInd, QueueInd', NEW n \in Items, Retry(n)
    PROVE  Meeting!Again(n)
<1>1. item' = [item EXCEPT ![n] = [state |-> "pending", retries |-> item[n].retries + 1]]
      /\ item[n].state = "failed" /\ UNCHANGED <<log, closed, worker>>
      /\ item[n].retries < MaxRetries /\ item[n].retries \in Nat
    BY DEF Retry, QueueInd, TypeOK
<1>2. item'[n].state = "pending" /\ item'[n].retries = item[n].retries + 1
      /\ \A m \in Items : m # n => item'[m] = item[m]
    BY <1>1 DEF QueueInd, TypeOK
<1>3. \A m \in Items : Status'[m] = IF m = n THEN "open" ELSE Status[m]
    BY <1>1, <1>2, StatusCases, StatusCasesNext DEF StatusIs, QueueInd, TypeOK, States
<1>4. Status' = [Status EXCEPT ![n] = "open"]
    BY <1>3, OneStatus
<1>5. Attempts[n] = item[n].retries + 1 /\ Status[n] = "failed"
    BY <1>1, StatusCases DEF StatusIs
<1>6. Attempts' = [Attempts EXCEPT ![n] = Attempts[n] + 1]
    <2>1. \A m \in Items : Attempts'[m] = IF m = n THEN Attempts[n] + 1 ELSE Attempts[m]
        BY <1>2, <1>5 DEF Attempts
    <2> QED BY <2>1, OneAttempt
<1>7. Authors' = Authors
    BY <1>1 DEF Authors
<1>8. Attempts[n] <= MaxRetries
    BY <1>1, <1>5, Bounds
<1> QED BY <1>4, <1>5, <1>6, <1>7, <1>8 DEF Meeting!Again

LEMMA CommandSeen ==
    ASSUME QueueInd, ExecuteCommand
    PROVE  Meeting!Command
<1>1. Human \in 0 .. MaxItems /\ UNCHANGED <<item, closed, worker>>
    BY Bounds DEF Human, ExecuteCommand
<1>2. Authors' = Authors \o [k \in 1 .. 1 |-> Human] /\ Authors \in Seq(0 .. MaxItems)
    <2>1. log \in Seq(Event)
        BY DEF QueueInd, TypeOK, Event
    <2>2. \A k \in 1 .. Len(log) : log[k].by \in 0 .. MaxItems
        <3>1. \A k \in 1 .. Len(log) : log[k] \in Event
            BY <2>1
        <3> QED BY <3>1 DEF Event
    <2>3. Authors = [k \in 1 .. Len(log) |-> log[k].by] /\ Len(log) \in Nat
        BY <2>1 DEF Authors
    <2> QED BY <1>1, <2>1, <2>2, <2>3, OneCommand, Written DEF QueueInd
<1>3. [k \in 1 .. 1 |-> Human] = << Human >>
    OBVIOUS
<1>4. Authors' = Append(Authors, Human)
    BY <1>1, <1>2, <1>3
<1>5. Status' = Status /\ Attempts' = Attempts
    BY <1>1 DEF Status, StatusOf, Attempts
<1> QED BY <1>4, <1>5 DEF Meeting!Command, Meeting!Human, Human

\* An utterance is settled as completed in the step that puts its events into the graph.
LEMMA AppliedSeen ==
    ASSUME QueueInd, QueueInd', NEW e \in 0 .. 1, Holds, worker.pc # "applied",
           worker'.pc = "applied", worker'.n = worker.n, UNCHANGED item,
           log' = log \o [k \in 1 .. e |-> [by |-> worker.n, seen |-> Revision]]
    PROVE  Meeting!Complete(worker.n, e)
<1> DEFINE n == worker.n
<1>1. n \in Items /\ n \in 0 .. MaxItems /\ item[n].state = "processing" /\ Meeting!InTurn(n)
    BY Held, InTurnWhenHeld, Bounds DEF QueueInd
<1>2. \A m \in Items : item[m].state = "processing" => m = n
    BY Held DEF QueueInd
<1>3. \A m \in Items : Status'[m] = IF m = n THEN "completed" ELSE Status[m]
    <2>1. \A m \in Items : item[m].state \in States /\ item' = item
        BY DEF QueueInd, TypeOK
    <2>2. ASSUME NEW m \in Items, m # n PROVE Status'[m] = Status[m]
        BY <1>2, <2>1, <2>2, StatusCases, StatusCasesNext DEF StatusIs, States
    <2>3. Status'[n] = "completed"
        BY <1>1, <2>1, StatusCasesNext DEF StatusIs
    <2> QED BY <2>2, <2>3
<1>4. Status' = [Status EXCEPT ![n] = "completed"]
    BY <1>1, <1>3, OneStatus
<1>5. Authors' = Authors \o [k \in 1 .. e |-> n]
    BY <1>1, Written DEF QueueInd, TypeOK, Event
<1>6. Attempts' = Attempts /\ Status[n] = "open"
    BY <1>1, StatusCases DEF StatusIs, Attempts
<1> QED BY <1>1, <1>4, <1>5, <1>6 DEF Meeting!Complete

\* What the worker does in between is not seen.
LEMMA BetweenSeen ==
    ASSUME UNCHANGED <<item, log>>, worker'.n = worker.n,
           worker'.pc = "applied" <=> worker.pc = "applied"
    PROVE  MeetingStep
<1>1. Status' = Status
    BY DEF Status, StatusOf
<1> QED BY <1>1, Unseen DEF Seen, Attempts, Authors

LEMMA ClaimSeen ==
    ASSUME QueueInd, QueueInd', ClaimNext
    PROVE  MeetingStep
<1>1. worker.pc = "idle" /\ UNCHANGED log /\ worker'.pc # "applied"
    BY DEF ClaimNext, Idle
<1>2. \A m \in Items : item'[m].retries = item[m].retries
          /\ (item'[m].state = item[m].state
              \/ (item[m].state = "pending" /\ item'[m].state = "processing"))
    <2>1. CASE UNCHANGED item
        BY <2>1
    <2>2. CASE \E n \in Items : IsNext(n) /\ item' = [item EXCEPT ![n].state = "processing"]
        BY <2>2 DEF IsNext, At, QueueInd, TypeOK
    <2> QED BY <2>1, <2>2 DEF ClaimNext
<1>3. \A m \in Items : Status'[m] = Status[m]
    <2>1. \A m \in Items : item[m].state \in States
        BY DEF QueueInd, TypeOK
    <2> QED BY <1>1, <1>2, <2>1, StatusCases, StatusCasesNext DEF StatusIs, States
<1>4. Status' = Status /\ Attempts' = Attempts /\ Authors' = Authors
    BY <1>1, <1>2, <1>3, SameStatus DEF Attempts, Authors
<1> QED BY <1>4, Unseen DEF Seen

LEMMA FinishSeen ==
    ASSUME QueueInd, QueueInd', Finish
    PROVE  MeetingStep
<1> DEFINE n == worker.n
<1>1. n \in Items /\ item[n].state = "processing" /\ Meeting!InTurn(n)
    BY Held, InTurnWhenHeld DEF QueueInd, Finish, Holds
<1>2. /\ \A m \in Items : m # n => item'[m] = item[m]
      /\ item'[n].state = Outcome /\ item'[n].retries = item[n].retries
    BY <1>1 DEF Finish, QueueInd, TypeOK
<1>3. \A m \in Items : item[m].state = "processing" => m = n
    BY Held DEF QueueInd
<1>4. Attempts' = Attempts /\ Authors' = Authors
    BY <1>1, <1>2 DEF Attempts, Authors, Finish, Outcome
<1>5. \A m \in Items : Status'[m] = IF m = n THEN Outcome ELSE Status[m]
    BY <1>2, <1>3, StatusCases, StatusCasesNext DEF StatusIs, QueueInd, TypeOK, States, Outcome
<1>6. CASE worker.pc = "applied"
    <2>1. \A m \in Items : Status'[m] = Status[m]
        BY <1>1, <1>5, <1>6, StatusCases DEF StatusIs, Outcome
    <2> QED BY <1>4, <2>1, SameStatus, Unseen DEF Seen
<1>7. CASE worker.pc # "applied"
    <2>1. Status' = [Status EXCEPT ![n] = "failed"] /\ Status[n] = "open"
        BY <1>1, <1>5, <1>7, OneStatus, StatusCases DEF StatusIs, Outcome
    <2>2. Meeting!Fail(n)
        BY <1>1, <1>4, <2>1 DEF Meeting!Fail
    <2> QED BY <1>1, <2>2 DEF MeetingStep, Meeting!QueueNext, Meeting!Settle, Meeting!Items, Items
<1> QED BY <1>6, <1>7

\* Every step of queue, worker and people is one of the meeting's queue, or not seen by it.
LEMMA StepSeen == QueueInd /\ QueueInd' /\ [Next]_vars => MeetingStep
<1> SUFFICES ASSUME QueueInd, QueueInd', [Next]_vars PROVE MeetingStep
    OBVIOUS
<1> USE DEF Meeting!Items, Items
<1>1. CASE \E n \in Items : Register(n) \/ Retry(n)
    <2>1. PICK n \in Items : Register(n) \/ Retry(n)
        BY <1>1
    <2>2. Meeting!HandOver(n) \/ Meeting!Again(n)
        BY <2>1, RegisterSeen, RetrySeen
    <2> QED BY <2>2 DEF MeetingStep, Meeting!QueueNext
<1>2. CASE ExecuteCommand
    BY <1>2, CommandSeen DEF MeetingStep, Meeting!QueueNext
<1>3. CASE Close \/ UNCHANGED vars
    BY <1>3, BetweenSeen DEF Close, vars
<1>4. CASE ClaimNext
    BY <1>4, ClaimSeen
<1>5. CASE Snapshot \/ Analyse \/ CheckRevision \/ CopyAgain \/ Recheck
    <2>1. worker \in Locals
        BY DEF QueueInd, TypeOK, Locals
    <2>2. UNCHANGED <<item, log>>
        BY <1>5 DEF Snapshot, Analyse, CheckRevision, CopyAgain, Recheck
    <2>3. worker'.n = worker.n /\ worker'.pc # "applied" /\ worker.pc # "applied"
        BY <1>5, <2>1 DEF Snapshot, Analyse, CheckRevision, CopyAgain, Recheck, Locals
    <2> QED BY <2>2, <2>3, BetweenSeen
<1>6. ASSUME NEW e \in 0 .. 1, Holds, worker.pc # "applied", worker'.pc = "applied",
             worker'.n = worker.n, UNCHANGED item,
             log' = log \o [k \in 1 .. e |-> [by |-> worker.n, seen |-> Revision]]
      PROVE  MeetingStep
    <2>1. Meeting!Complete(worker.n, e) /\ worker.n \in Items
        BY <1>6, AppliedSeen, InTurnWhenHeld
    <2> QED BY <2>1 DEF MeetingStep, Meeting!QueueNext, Meeting!Settle
<1>7. CASE Correct
    <2>1. PICK e \in 0 .. 1 :
              /\ log' = log \o [k \in 1 .. e |-> [by |-> worker.n, seen |-> Revision]]
              /\ worker' = [worker EXCEPT !.pc = "applied", !.events = e]
        BY <1>7 DEF Correct
    <2>2. Holds /\ worker.pc # "applied" /\ UNCHANGED item
        BY <1>7 DEF Correct, Holds
    <2>3. worker'.pc = "applied" /\ worker'.n = worker.n
        BY <2>1 DEF QueueInd, TypeOK
    <2> QED BY <1>6, <2>1, <2>2, <2>3
<1>8. CASE AppendBatch
    <2>1. Holds /\ UNCHANGED item /\ worker.pc = "append" /\ worker.events \in 0 .. 1
        BY <1>8 DEF AppendBatch, Holds, QueueInd, TypeOK
    <2>2. CASE /\ Fresh
               /\ log' = log \o [k \in 1 .. worker.events |-> [by |-> worker.n, seen |-> worker.seen]]
               /\ worker' = [worker EXCEPT !.pc = "applied"]
        <3>1. worker.seen = Revision
            BY <2>1, <2>2 DEF Fresh, QueueInd, Reading
        <3>2. worker'.n = worker.n /\ worker'.pc = "applied"
            BY <2>2 DEF QueueInd, TypeOK
        <3> QED BY <1>6, <2>1, <2>2, <3>1, <3>2
    <2>3. CASE worker' = [worker EXCEPT !.pc = "failing"] /\ UNCHANGED log
        <3>1. worker'.n = worker.n /\ worker'.pc = "failing"
            BY <2>3 DEF QueueInd, TypeOK
        <3> QED BY <2>1, <2>3, <3>1, BetweenSeen
    <2> QED BY <1>8, <2>2, <2>3 DEF AppendBatch
<1>9. CASE Finish
    BY <1>9, FinishSeen
<1> QED BY <1>1, <1>2, <1>3, <1>4, <1>5, <1>7, <1>8, <1>9 DEF Next, WorkerStep

LEMMA FirstSeen == Init => Meeting!QueueInit
<1> SUFFICES ASSUME Init PROVE Meeting!QueueInit
    OBVIOUS
<1>1. \A n \in Items : item[n].state = "none"
    BY DEF Init
<1>4. \A n \in Items : StatusOf(n) = "none"
    BY <1>1 DEF StatusOf, Init, Idle
<1>2. Status = [n \in Items |-> "none"] /\ Attempts = [n \in Items |-> 0]
    BY <1>1, <1>4 DEF Status, Attempts
<1>3. Authors = << >>
    BY DEF Init, Authors
<1> QED BY <1>2, <1>3 DEF Meeting!QueueInit, Meeting!Items, Items

-----------------------------------------------------------------------------
(* The session of one utterance.                                           *)

Sessions == [runtime : {"connecting", "connected", "capturing", "stopping", "disconnected"},
             analyzer : {"idle", "analyzing", "updated", "failed"}, last : 0 .. MaxItems]
Managers == [stop : BOOLEAN, current : 0 .. MaxConns, gone : BOOLEAN, shutting : BOOLEAN,
             waiter : 0 .. MaxConns + 1]
Places == {"none", "linking", "capture", "committing", "waiting", "closing", "done"}

Typed ==
    /\ mode \in {"one_utterance", "runtime"}
    /\ session \in Sessions /\ manager \in Managers /\ conn \in [Conns -> Places]

USE DEF Last

\* What is shown as analysed, or waits to be, is an utterance.
ShowsAnUtterance == session.analyzer \in {"analyzing", "updated"} => Last # 0

\* The inductive invariant.
UtteranceInd ==
    /\ QueueInd /\ Typed
    /\ ShownIsSettled /\ OneWaits /\ ShowsAnUtterance

LEMMA UtteranceIndIsInv == UtteranceInd => UtteranceInv
BY DEF UtteranceInd, Typed, UtteranceInv, UTypeOK, QueueInd, QueueInv, Sessions, Managers, Places

\* Every step of the session is one of its queue, or leaves the queue alone.
LEMMA UtteranceRefines == Typed /\ UNext => Next \/ UNCHANGED vars
<1> SUFFICES ASSUME Typed, UNext PROVE Next \/ UNCHANGED vars
    OBVIOUS
<1>1. CASE \E c \in Conns : MarkConnected(c) \/ TurnedAway(c) \/ AcceptChunk(c) \/ BrowserGone(c)
                             \/ Handler(c)
    <2>1. PICK c \in Conns : MarkConnected(c) \/ TurnedAway(c) \/ AcceptChunk(c)
                             \/ BrowserGone(c) \/ Handler(c)
        BY <1>1
    <2>2. CASE ProcessFinal(c)
        BY <2>2 DEF ProcessFinal, Next
    <2>3. CASE ~ProcessFinal(c)
        BY <2>1, <2>3 DEF MarkConnected, TurnedAway, AcceptChunk, BrowserGone, Handler, ProviderUp,
                          Broken, TakeStop, NoFinal, StrayFinal, Answered, WaitedTooLong, Finally
    <2> QED BY <2>2, <2>3
<1>2. CASE RequestStop \/ Shutdown \/ RetryRefused \/ RetryEnds
    BY <1>2 DEF RequestStop, Shutdown, RetryRefused, RetryEnds
<1>3. CASE PersonCommands \/ StartNext \/ Command \/ CloseRuntime \/ Work
    BY <1>3 DEF PersonCommands, StartNext, Command, CloseRuntime, Work, Next
<1>4. CASE \E n \in Items : HandOver(n) \/ HandOverAgain(n)
    BY <1>4 DEF HandOver, HandOverAgain, Next
<1>5. CASE RetryAnalyzer
    <2>1. Last \in Items
        BY <1>5, Bounds DEF RetryAnalyzer, Typed, Sessions, Items
    <2> QED BY <1>5, <2>1 DEF RetryAnalyzer, Next
<1> QED BY <1>1, <1>2, <1>3, <1>4, <1>5 DEF UNext

\* What is completed stays so.
LEMMA CompletedStays ==
    ASSUME QueueInd, Next, NEW n \in Items, item[n].state = "completed"
    PROVE  item'[n].state = "completed"
<1>1. ASSUME NEW m \in Items, Register(m) \/ Retry(m) PROVE item'[n].state = "completed"
    BY <1>1 DEF Register, enqueue, Retry, QueueInd, TypeOK
<1>2. CASE ClaimNext
    BY <1>2 DEF ClaimNext, IsNext, At, QueueInd, TypeOK
<1>3. CASE Finish
    <2>1. worker.n # n /\ worker.n \in Items
        BY <1>3, Held DEF Finish, Holds, QueueInd
    <2> QED BY <1>3, <2>1 DEF Finish, QueueInd, TypeOK
<1>4. CASE ExecuteCommand \/ Close \/ Snapshot \/ Correct \/ Analyse \/ CheckRevision \/ CopyAgain
           \/ Recheck \/ AppendBatch
    BY <1>4 DEF ExecuteCommand, Close, Snapshot, Correct, Analyse, CheckRevision, CopyAgain,
                Recheck, AppendBatch
<1> QED BY <1>1, <1>2, <1>3, <1>4 DEF Next, WorkerStep

\* The session's own part of the invariant.
SessionKept == (Typed /\ ShownIsSettled /\ OneWaits /\ ShowsAnUtterance)'

\* The queue moves, and the session does not.
LEMMA QueueMoves ==
    ASSUME UtteranceInd, [Next]_vars, UNCHANGED uvars
    PROVE  SessionKept
<1>1. UNCHANGED <<mode, session, manager, conn>>
    BY DEF uvars
<1>2. session.analyzer = "updated" => item'[Last].state = "completed"
    <2>1. session.analyzer = "updated" => Last \in Items /\ item[Last].state = "completed"
        BY Bounds DEF UtteranceInd, ShowsAnUtterance, ShownIsSettled, Typed, Sessions, Items
    <2>2. CASE UNCHANGED vars
        BY <2>1, <2>2 DEF vars
    <2>3. CASE Next
        BY <2>1, <2>3, CompletedStays DEF UtteranceInd
    <2> QED BY <2>2, <2>3
<1> QED BY <1>1, <1>2
        DEF SessionKept, UtteranceInd, Typed, ShownIsSettled, OneWaits, ShowsAnUtterance, Waiting

\* A handler moves on while nobody waits, and does not begin to.
LEMMA HandlerMoves ==
    ASSUME UtteranceInd, NEW c \in Conns, NEW p \in Places \ {"waiting"}, UNCHANGED <<item, mode>>,
           conn[c] # "waiting", conn' = [conn EXCEPT ![c] = p],
           manager' \in Managers, manager'.waiter = manager.waiter,
           session' \in Sessions, Last' = Last,
           \/ session'.analyzer = session.analyzer
           \/ session'.analyzer \in {"idle", "failed"} /\ ~Waiting
    PROVE  SessionKept
<1>1. conn' \in [Conns -> Places] /\ \A d \in Conns : conn'[d] = "waiting" <=> conn[d] = "waiting"
    BY DEF UtteranceInd, Typed
<1>2. Typed' /\ OneWaits'
    BY <1>1 DEF UtteranceInd, Typed, OneWaits
<1>3. \/ session'.analyzer = session.analyzer
      \/ session'.analyzer \in {"idle", "failed"} /\ ~Waiting
    OBVIOUS
<1>4. ShownIsSettled' /\ ShowsAnUtterance'
    BY <1>3 DEF UtteranceInd, ShownIsSettled, ShowsAnUtterance, Waiting
<1> QED BY <1>2, <1>4 DEF SessionKept

\* As when no handler moves.
LEMMA NoHandlerMoves ==
    ASSUME UtteranceInd, UNCHANGED <<item, mode, conn>>,
           manager' \in Managers, manager'.waiter = manager.waiter,
           session' \in Sessions, Last' = Last,
           \/ session'.analyzer = session.analyzer
           \/ session'.analyzer \in {"idle", "failed"} /\ ~Waiting
    PROVE  SessionKept
<1>1. Typed' /\ OneWaits'
    BY DEF UtteranceInd, Typed, OneWaits
<1>2. ShownIsSettled' /\ ShowsAnUtterance'
    BY DEF UtteranceInd, ShownIsSettled, ShowsAnUtterance, Waiting
<1> QED BY <1>1, <1>2 DEF SessionKept

LEMMA ConnectionsKeep ==
    ASSUME UtteranceInd, NEW c \in Conns,
           \/ MarkConnected(c) \/ TurnedAway(c) \/ AcceptChunk(c) \/ BrowserGone(c)
           \/ ProviderUp(c) \/ Broken(c) \/ TakeStop(c) \/ NoFinal(c) \/ StrayFinal(c) \/ Finally(c)
    PROVE  SessionKept
<1>1. session \in Sessions /\ manager \in Managers /\ c \in 0 .. MaxConns
    BY LiveUtteranceAssumption DEF UtteranceInd, Typed, Conns
<1>2. ASSUME NEW state \in {"connecting", "connected", "capturing", "stopping", "disconnected"}
      PROVE  /\ [session EXCEPT !.runtime = state] \in Sessions
             /\ [session EXCEPT !.runtime = state].analyzer = session.analyzer
             /\ [session EXCEPT !.runtime = state].last = session.last
             /\ Dropped(state) \in Sessions /\ Dropped(state).analyzer = "idle"
             /\ Dropped(state).last = session.last
    BY <1>1 DEF Sessions, Dropped
<1> USE DEF Places
<1>3. CASE MarkConnected(c)
    <2>1. manager' \in Managers /\ manager'.waiter = manager.waiter
        BY <1>1, <1>3 DEF MarkConnected, Managers
    <2>2. UNCHANGED <<item, mode>> /\ conn[c] # "waiting" /\ conn' = [conn EXCEPT ![c] = "linking"]
        BY <1>3 DEF MarkConnected, Newest, vars
    <2>3. session' \in Sessions /\ Last' = Last /\ session'.analyzer = session.analyzer
        BY <1>2, <1>3 DEF MarkConnected
    <2> QED BY <2>1, <2>2, <2>3, HandlerMoves
<1>4. CASE TurnedAway(c) \/ ProviderUp(c) \/ BrowserGone(c) \/ StrayFinal(c)
    <2>1. /\ UNCHANGED <<item, mode, session, manager>> /\ conn[c] # "waiting"
          /\ \E p \in {"closing", "capture"} : conn' = [conn EXCEPT ![c] = p]
        BY <1>4 DEF TurnedAway, ProviderUp, BrowserGone, StrayFinal, Newest, vars
    <2> QED BY <1>1, <2>1, HandlerMoves
<1>5. CASE AcceptChunk(c)
    <2>1. UNCHANGED <<item, mode, manager, conn>>
        BY <1>5 DEF AcceptChunk, vars
    <2>2. session' \in Sessions /\ Last' = Last /\ session'.analyzer = session.analyzer
        BY <1>2, <1>5 DEF AcceptChunk
    <2> QED BY <1>1, <2>1, <2>2, NoHandlerMoves
<1>6. CASE Broken(c) \/ NoFinal(c)
    <2>1. /\ UNCHANGED <<item, mode, manager>> /\ conn[c] # "waiting"
          /\ conn' = [conn EXCEPT ![c] = "closing"] /\ ~Waiting
        BY <1>6 DEF Broken, NoFinal, vars, Free, Waiting
    <2>2. session' = session \/ session' = Dropped("disconnected")
        BY <1>6 DEF Broken, NoFinal
    <2>3. session' \in Sessions /\ Last' = Last
              /\ (session'.analyzer = session.analyzer \/ session'.analyzer = "idle")
        BY <1>1, <1>2, <2>2
    <2> QED BY <1>1, <2>1, <2>3, HandlerMoves
<1>7. CASE TakeStop(c)
    <2>1. UNCHANGED <<item, mode, session>> /\ conn[c] # "waiting"
              /\ conn' = [conn EXCEPT ![c] = "committing"]
        BY <1>7 DEF TakeStop, vars
    <2>2. manager' \in Managers /\ manager'.waiter = manager.waiter
        BY <1>1, <1>7 DEF TakeStop, Managers
    <2> QED BY <1>1, <2>1, <2>2, HandlerMoves
<1>8. CASE Finally(c)
    <2>1. UNCHANGED <<item, mode, manager>> /\ conn[c] # "waiting"
              /\ conn' = [conn EXCEPT ![c] = "done"]
        BY <1>8 DEF Finally, vars
    <2>2. session' \in Sessions /\ Last' = Last /\ session'.analyzer = session.analyzer
        BY <1>1, <1>2, <1>8 DEF Finally
    <2> QED BY <1>1, <2>1, <2>2, HandlerMoves
<1> QED BY <1>3, <1>4, <1>5, <1>6, <1>7, <1>8

\* A handler, or a person, begins to wait for an item and holds the manager's lock.
LEMMA WaitBegins ==
    ASSUME UtteranceInd,
           (\E c \in Conns : ProcessFinal(c)) \/ RetryAnalyzer
    PROVE  SessionKept
<1>1. session \in Sessions /\ manager \in Managers /\ conn \in [Conns -> Places] /\ ~Waiting
    BY DEF UtteranceInd, Typed, ProcessFinal, RetryAnalyzer, Ours, Free, Waiting
<1>2. \A d \in Conns : conn[d] # "waiting" /\ d # Nobody /\ d # Person /\ d \in 0 .. MaxConns + 1
    BY <1>1, LiveUtteranceAssumption DEF UtteranceInd, OneWaits, Waiting, Conns, Nobody, Person
<1>3. Person # Nobody /\ Person \in 0 .. MaxConns + 1
    BY LiveUtteranceAssumption DEF Nobody, Person
<1>4. ASSUME NEW c \in Conns, ProcessFinal(c)
      PROVE  SessionKept
    <2>1. PICK n \in Items : session' = [session EXCEPT !.analyzer = "analyzing", !.last = n]
        BY <1>4 DEF ProcessFinal
    <2>2. session' \in Sessions /\ session'.last # 0 /\ session'.analyzer = "analyzing"
        BY <1>1, <2>1, Bounds DEF Sessions
    <2>3. manager' \in Managers /\ manager'.waiter = c
        BY <1>1, <1>2, <1>4 DEF ProcessFinal, Managers
    <2>4. conn' = [conn EXCEPT ![c] = "waiting"] /\ mode' = mode
        BY <1>4 DEF ProcessFinal
    <2>5. Typed'
        BY <1>1, <2>2, <2>3, <2>4 DEF UtteranceInd, Typed, Places
    <2>6. OneWaits'
        BY <1>1, <1>2, <2>3, <2>4 DEF OneWaits
    <2> QED BY <1>2, <2>2, <2>3, <2>5, <2>6
            DEF SessionKept, ShownIsSettled, ShowsAnUtterance, Waiting
<1>5. CASE RetryAnalyzer
    <2>1. session' \in Sessions /\ session'.last # 0 /\ session'.analyzer = "analyzing"
        BY <1>1, <1>5 DEF RetryAnalyzer, Sessions
    <2>2. manager' \in Managers /\ manager'.waiter = Person
        BY <1>1, <1>3, <1>5 DEF RetryAnalyzer, Managers
    <2>3. UNCHANGED <<mode, conn>>
        BY <1>5 DEF RetryAnalyzer
    <2>4. Typed' /\ OneWaits'
        BY <1>1, <1>2, <2>1, <2>2, <2>3 DEF UtteranceInd, Typed, OneWaits
    <2> QED BY <1>3, <2>1, <2>2, <2>4
            DEF SessionKept, ShownIsSettled, ShowsAnUtterance, Waiting
<1> QED BY <1>4, <1>5

\* The wait ends, with the item settled or after its time.
LEMMA WaitEnds ==
    ASSUME UtteranceInd,
           (\E c \in Conns : Answered(c) \/ WaitedTooLong(c)) \/ RetryEnds
    PROVE  SessionKept
<1>1. session \in Sessions /\ manager \in Managers /\ conn \in [Conns -> Places] /\ UNCHANGED <<item, mode>>
    BY DEF UtteranceInd, Typed, Answered, WaitedTooLong, RetryEnds, vars
<1>2. \A d \in Conns : d # Nobody /\ d # Person
    BY LiveUtteranceAssumption DEF Conns, Nobody, Person
<1>3. Waiting
    BY <1>2, LiveUtteranceAssumption
       DEF Answered, WaitedTooLong, RetryEnds, Waiting, Nobody, Person
<1>4. Last # 0
    BY <1>3 DEF UtteranceInd, ShownIsSettled, ShowsAnUtterance
<1>5. /\ session' \in Sessions /\ Last' = Last
      /\ \/ session'.analyzer = "failed"
         \/ session'.analyzer = "updated" /\ item[Last].state = "completed"
    BY <1>1 DEF Answered, WaitedTooLong, RetryEnds, Settled, Shown, Sessions
<1>6. manager' \in Managers /\ manager'.waiter = Nobody
    <2>1. manager' = [manager EXCEPT !.waiter = Nobody] /\ Nobody \in 0 .. MaxConns + 1
        BY LiveUtteranceAssumption DEF Answered, WaitedTooLong, RetryEnds, Nobody
    <2> QED BY <1>1, <2>1 DEF Managers
<1>7. conn' \in [Conns -> Places] /\ \A d \in Conns : conn'[d] # "waiting"
    <2>1. CASE RetryEnds
        BY <1>1, <1>2, <2>1 DEF RetryEnds, UtteranceInd, OneWaits
    <2>2. ASSUME NEW c \in Conns, Answered(c) \/ WaitedTooLong(c)
          PROVE  conn' \in [Conns -> Places] /\ \A d \in Conns : conn'[d] # "waiting"
        <3>1. manager.waiter = c /\ conn' = [conn EXCEPT ![c] = "closing"]
            BY <2>2 DEF Answered, WaitedTooLong
        <3> QED BY <1>1, <3>1 DEF UtteranceInd, OneWaits, Places
    <2> QED BY <2>1, <2>2
<1>8. Typed' /\ OneWaits'
    BY <1>1, <1>2, <1>5, <1>6, <1>7 DEF UtteranceInd, Typed, OneWaits
<1>9. ShownIsSettled' /\ ShowsAnUtterance'
    BY <1>1, <1>4, <1>5, <1>6 DEF ShownIsSettled, ShowsAnUtterance, Waiting
<1> QED BY <1>8, <1>9 DEF SessionKept

LEMMA PeopleKeep ==
    ASSUME UtteranceInd, RequestStop \/ Shutdown \/ RetryRefused \/ StartNext
    PROVE  SessionKept
<1>1. session \in Sessions /\ manager \in Managers
    BY DEF UtteranceInd, Typed
<1>2. UNCHANGED <<item, mode, conn>>
    BY DEF RequestStop, Shutdown, RetryRefused, StartNext, Close, vars
<1>3. manager' \in Managers /\ manager'.waiter = manager.waiter
    BY <1>1 DEF RequestStop, Shutdown, RetryRefused, StartNext, Managers
<1>4. /\ session' \in Sessions /\ Last' = Last
      /\ \/ session'.analyzer = session.analyzer
         \/ session'.analyzer = "failed" /\ ~Waiting
    BY <1>1 DEF RequestStop, Shutdown, RetryRefused, StartNext, Stopped, Sessions, Ours, Free, Waiting
<1> QED BY <1>2, <1>3, <1>4, NoHandlerMoves

LEMMA UtteranceStep == UtteranceInd /\ [UNext]_allvars => UtteranceInd'
<1> SUFFICES ASSUME UtteranceInd, [UNext]_allvars PROVE UtteranceInd'
    OBVIOUS
<1>1. [Next]_vars
    BY UtteranceRefines DEF UtteranceInd, allvars
<1>2. QueueInd'
    BY <1>1, QueueStep DEF UtteranceInd
<1>3. SessionKept
    <2>1. ASSUME UNCHANGED uvars PROVE SessionKept
        BY <1>1, <2>1, QueueMoves
    <2>2. CASE PersonCommands \/ Command \/ CloseRuntime \/ Work
               \/ \E n \in Items : HandOver(n) \/ HandOverAgain(n)
        BY <2>1, <2>2 DEF PersonCommands, Command, CloseRuntime, Work, HandOver, HandOverAgain
    <2>3. CASE UNCHANGED allvars
        BY <2>1, <2>3 DEF allvars
    <2>4. ASSUME NEW c \in Conns, MarkConnected(c) \/ TurnedAway(c) \/ AcceptChunk(c)
                 \/ BrowserGone(c) \/ Handler(c)
          PROVE  SessionKept
        BY <2>4, ConnectionsKeep, WaitBegins, WaitEnds DEF Handler
    <2>5. CASE RequestStop \/ Shutdown \/ RetryAnalyzer \/ RetryRefused \/ RetryEnds \/ StartNext
        BY <2>5, PeopleKeep, WaitBegins, WaitEnds
    <2> QED BY <2>2, <2>3, <2>4, <2>5 DEF UNext
<1> QED BY <1>2, <1>3 DEF SessionKept, UtteranceInd

LEMMA UtteranceFirst == UInit => UtteranceInd
<1> SUFFICES ASSUME UInit PROVE UtteranceInd
    OBVIOUS
<1>1. QueueInd
    BY QueueFirst DEF UInit
<1>2. Typed
    BY Bounds DEF UInit, Typed, Sessions, Managers, Places, Nobody
<1>3. \A c \in Conns : c # Nobody
    BY DEF Conns, Nobody
<1>4. ShownIsSettled /\ OneWaits /\ ShowsAnUtterance
    BY <1>3 DEF UInit, ShownIsSettled, OneWaits, ShowsAnUtterance, Waiting
<1> QED BY <1>1, <1>2, <1>4 DEF UtteranceInd

LEMMA AlwaysUtterance == USpec => []UtteranceInd
BY UtteranceFirst, UtteranceStep, PTL DEF USpec

-----------------------------------------------------------------------------
\* The events of an utterance stand right behind the graph that its analyzer, or its spoken
\* correction, was shown, whoever wrote to the graph while it was analysed.
THEOREM BatchesFollowWhatTheySaw == USpec => []AppendedToWhatWasSeen
<1>1. UtteranceInd => AppendedToWhatWasSeen
    BY DEF UtteranceInd, QueueInd
<1> QED BY <1>1, AlwaysUtterance, PTL

\* What a session shows as updated has its last utterance completed, it shows "analyzing" exactly
\* while somebody waits, and at most one waits; and the queue strands nothing.
THEOREM ShownUtterancesAreSettled == USpec => []UtteranceInv
BY AlwaysUtterance, UtteranceIndIsInv, PTL

\* What the queue's specification promises about safety: its first state, and each of its steps.
QueueSafety == Meeting!QueueInit /\ [][Meeting!QueueNext]_(Meeting!queue)

\* LiveAnalyzerRuntime implements AnalyzerQueue step by step, alone and under a session; that each
\* utterance settles in the end is left to TLC.
THEOREM QueueKeepsPromise == USpec => QueueSafety
<1>1. UInit => Meeting!QueueInit
    BY FirstSeen DEF UInit
<1>2. UtteranceInd /\ UtteranceInd' /\ [UNext]_allvars => [Meeting!QueueNext]_(Meeting!queue)
    <2> SUFFICES ASSUME UtteranceInd, UtteranceInd', [UNext]_allvars
                 PROVE  MeetingStep
        BY DEF MeetingStep
    <2>1. [Next]_vars
        BY UtteranceRefines DEF UtteranceInd, allvars
    <2> QED BY <2>1, StepSeen DEF UtteranceInd
<1> QED BY <1>1, <1>2, AlwaysUtterance, PTL DEF USpec, QueueSafety
=============================================================================
