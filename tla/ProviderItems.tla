--------------------------- MODULE ProviderItems ---------------------------
(***************************************************************************)
(* From an item of the transcription provider to evidence of a meeting:    *)
(* the rows of service_provider_item and what writes them                  *)
(* (prototype/postgres_service_store.py), the bridge that takes the        *)
(* provider's events there (prototype/service_realtime_items.py,           *)
(* prototype/service_final_ingest.py), and the handler of the audio socket *)
(* that feeds it and settles a pause (prototype/service_audio_transport.py)*)
(* with the TurnLedger of its provider client.                             *)
(*                                                                         *)
(* A connection is the socket of one generation, which has at most one     *)
(* (ServiceCapture).  Of the capture only the state, the generation, the   *)
(* lease and whether a gap is on record are kept.  All audio is meaningful *)
(* sound.  A store method is one transaction; the renewal of the lease,    *)
(* the record of a completion and the evidence are three.                  *)
(***************************************************************************)
EXTENDS TurnLedger, FiniteSets

CONSTANTS
    MaxConns,       \* bound: connections of a meeting
    MaxFrames       \* bound: frames of a connection

ASSUME ProviderItemsAssumption == MaxConns \in Nat /\ MaxFrames \in Nat

Conns == 1 .. MaxConns

VARIABLES
    service,    \* service_state
    capture,    \* capture_state, generation, and the lease of the generation's connection
    gap,        \* some capture_unavailable interval exists
    ledger,     \* the client's turns, of each connection
    owing,      \* items the provider has not transcribed yet
    events,     \* provider_events of each connection
    gateway,    \* where the handler of each connection is, with which event
    row,        \* service_provider_item
    evidence    \* service_evidence in utterance order

provider == <<ledger, owing, events>>
store == <<row, evidence>>
vars == <<service, capture, gap, provider, gateway, store>>

NoEvent == [type |-> "none", item |-> 0, covered |-> FALSE]
NoRow == [status |-> "none", text |-> "none"]

Statuses == {"none", "committed", "transcribed", "evidence_accepted", "empty",
             "coverage_unknown", "unmatched_completion"}

Init ==
    /\ service = "open" /\ gap = FALSE /\ evidence = << >>
    /\ capture = [state |-> "resuming", generation |-> 1, lease |-> "none"]
    /\ ledger = [c \in Conns |-> NewLedger]
    /\ owing = [c \in Conns |-> {}] /\ events = [c \in Conns |-> << >>]
    /\ gateway = [c \in Conns |-> [pc |-> "off", event |-> NoEvent]]
    /\ row = [c \in Conns |-> [k \in Turns |-> NoRow]]

Goes(c, pc) == gateway' = [gateway EXCEPT ![c] = [pc |-> pc, event |-> NoEvent]]

\* The provider's socket is closed, and what it still had to say is gone.
Closes(c, pc) ==
    /\ Goes(c, pc)
    /\ owing' = [owing EXCEPT ![c] = {}] /\ events' = [events EXCEPT ![c] = << >>]

\* renew_capture_lease and what asks for the lease in other methods.
Leased(c) == /\ service = "open" /\ capture.generation = c /\ capture.lease = "live"
             /\ capture.state \in {"listening", "pausing"}

Discontinued == [state |-> "reconnecting", generation |-> capture.generation + 1, lease |-> "none"]

-----------------------------------------------------------------------------
(* The meeting around the items.                                           *)

Meeting == UNCHANGED <<provider, store>>

Connect ==
    /\ service = "open" /\ capture.state \in {"resuming", "reconnecting"} /\ capture.lease = "none"
    /\ capture.generation \in Conns
    /\ capture' = [capture EXCEPT !.state = "listening", !.lease = "live"]
    /\ Goes(capture.generation, "loop")
    /\ UNCHANGED <<service, gap>> /\ Meeting

RequestPause ==
    /\ service = "open" /\ capture.state = "listening"
    /\ capture' = [capture EXCEPT !.state = "pausing"]
    /\ UNCHANGED <<service, gap, gateway>> /\ Meeting

\* A resume records an interval until the first frame.
RequestResume ==
    /\ service = "open" /\ capture.state = "paused"
    /\ capture' = [state |-> "resuming", generation |-> capture.generation + 1, lease |-> "none"]
    /\ gap' = TRUE
    /\ UNCHANGED <<service, gateway>> /\ Meeting

\* No step of the gateway for longer than the lease lasts, and the next socket finds out.
LeaseExpires ==
    /\ capture.lease = "live"
    /\ capture' = [capture EXCEPT !.lease = "expired"]
    /\ UNCHANGED <<service, gap, gateway>> /\ Meeting

RecoverExpiredLease ==
    /\ service = "open" /\ capture.lease = "expired"
    /\ capture' = Discontinued /\ gap' = TRUE
    /\ UNCHANGED <<service, gateway>> /\ Meeting

RequestFinalizing ==
    /\ service = "open" /\ capture.state \in {"paused", "reconnecting"}
    /\ capture' = [capture EXCEPT !.state = "finalizing"]
    /\ UNCHANGED <<service, gap, gateway>> /\ Meeting

PendingItems == {ck \in Conns \X Turns : row[ck[1]][ck[2]].status
                        \notin {"none", "evidence_accepted"}}

\* At once when nothing is unresolved, else at the deadline; the jobs are in ServiceJobs.
CompleteDrain ==
    /\ service = "open" /\ capture.state = "finalizing"
    /\ service' = IF gap \/ PendingItems # {} THEN "ended_incomplete" ELSE "ended"
    /\ UNCHANGED <<capture, gap, gateway>> /\ Meeting

-----------------------------------------------------------------------------
(* The provider (external) and the client that reads it.                   *)

Live(c) == gateway[c].pc \notin {"off", "closing", "gone"}
ProviderOnly == UNCHANGED <<service, capture, gap, gateway, store>>
Emit(c, new) == events' = [events EXCEPT ![c] = @ \o new]

Hear(c) ==
    /\ gateway[c].pc = "loop" /\ Leased(c) /\ samples(ledger[c]) < MaxFrames
    /\ ledger' = [ledger EXCEPT ![c] = AppendFrame(@, TRUE)]
    /\ UNCHANGED <<owing, events>> /\ ProviderOnly

Unseen(c) == {k \in Turns : ~ledger[c].items[k].acked}

\* What the client knows of a committed item: its frames, when the range is not empty.
Covered(L, k) == range_known(L, k) /\ L.items[k].start < L.items[k].end

\* Of speech that stopped, for a commit that was asked for, or for neither.
Committed(c) ==
    /\ Live(c) /\ Unseen(c) # {}
    /\ LET k == Min(Unseen(c))
       IN  /\ \E end \in {Unknown} \cup ledger[c].allocated .. samples(ledger[c]) :
                 ledger' = [ledger EXCEPT ![c] =
                     ObserveCommitted(IF end = Unknown THEN ledger[c]
                                      ELSE ObserveStopped(ledger[c], k, end), k)]
           /\ Emit(c, <<[type |-> "committed", item |-> k, covered |-> Covered(ledger'[c], k)]>>)
           /\ owing' = IF ledger[c].items[k].completion = "none"
                       THEN [owing EXCEPT ![c] = @ \cup {k}] ELSE owing
    /\ ProviderOnly

\* A text whose audio is not known is an error; the ledger holds it until its turn.
Transcribed(c) ==
    /\ Live(c)
    /\ \E k \in owing[c] \cup (IF Unseen(c) = {} THEN {} ELSE {Min(Unseen(c))}),
          text \in {"text", "empty"} :
         /\ ledger[c].items[k].completion = "none"
         /\ LET said == IF text = "text" /\ ~range_known(ledger[c], k) THEN "error" ELSE text
                complete == Completed(ledger[c], k, said)
            IN  /\ ledger' = [ledger EXCEPT ![c] = Emitted(complete)]
                /\ Emit(c, [n \in DOMAIN ready(complete) |->
                              [type |-> complete.items[ready(complete)[n]].completion,
                               item |-> ready(complete)[n], covered |-> FALSE]])
         /\ owing' = [owing EXCEPT ![c] = @ \ {k}]
    /\ ProviderOnly

\* The provider's own commit came before one it was asked for, which it rejects: the pause no
\* longer waits for that.  A rejection of any other commit is an error (GivesUp).
CommitEmpty(c) ==
    /\ Live(c) /\ ledger[c].intents # << >>
    /\ \E id \in {Unknown, ledger[c].intents[1].id} : Superseded(ledger[c], id)
    /\ ledger' = [ledger EXCEPT ![c] = reconcile_empty_commit(@)]
    /\ UNCHANGED <<owing, events>> /\ ProviderOnly

-----------------------------------------------------------------------------
(* The gateway: handle_provider, step by step.                             *)

GatewayOnly == UNCHANGED <<service, capture, gap>>
Item(c) == gateway[c].event.item

\* The main loop and the loop of settle_pause go on where they were.
Back(c) == Goes(c, IF gateway[c].pc \in {"settling", "s-handling", "s-accepting"}
                   THEN "settling" ELSE "loop")
InPause(pc) == IF pc = "handling" THEN "s-handling" ELSE "s-accepting"
Stage(c, pc) ==
    gateway' = [gateway EXCEPT ![c].pc = IF @ = "handling" THEN pc ELSE InPause(pc)]
In(c, pc) == gateway[c].pc \in {pc, InPause(pc)}

TakeEvent(c) ==
    /\ gateway[c].pc \in {"loop", "settling"} /\ events[c] # << >>
    /\ Leased(c)
    /\ events' = [events EXCEPT ![c] = Tail(@)]
    /\ gateway' = [gateway EXCEPT ![c] =
            [pc |-> IF gateway[c].pc = "loop" THEN "handling" ELSE "s-handling",
             event |-> Head(events[c])]]
    /\ UNCHANGED <<ledger, owing>> /\ GatewayOnly /\ UNCHANGED store

Handles(c, type) == In(c, "handling") /\ gateway[c].event.type = type

Refused(c) ==
    /\ In(c, "handling") /\ (gateway[c].event.type = "error" \/ service # "open")
    /\ Closes(c, "closing")
    /\ GatewayOnly /\ UNCHANGED <<ledger, store>>

CommitStatus(c, k) ==
    IF ~gateway[c].event.covered THEN "coverage_unknown"
    ELSE CASE row[c][k].text = "none" -> "committed"
           [] row[c][k].text = "empty" -> "empty"
           [] OTHER -> "transcribed"

RecordCommit(c) ==
    /\ Handles(c, "committed") /\ service = "open"
    /\ row' = [row EXCEPT ![c][Item(c)].status = CommitStatus(c, Item(c))]
    /\ Back(c)
    /\ GatewayOnly /\ UNCHANGED <<provider, evidence>>

CompletionStatus(c, k, text) ==
    CASE row[c][k].status = "none" -> "unmatched_completion"
      [] row[c][k].status = "coverage_unknown" -> "coverage_unknown"
      [] OTHER -> IF text = "empty" THEN "empty" ELSE "transcribed"

\* What makes the gateway acknowledge a turn that has no text.
Settles(status) == status \in {"empty", "coverage_unknown"}

\* An empty completion ends here; a text goes on to its evidence.
RecordCompletion(c) ==
    /\ \E text \in {"text", "empty"} :
         /\ Handles(c, text) /\ service = "open"
         /\ LET status == CompletionStatus(c, Item(c), text)
            IN  /\ row' = [row EXCEPT ![c][Item(c)] = [status |-> status, text |-> text]]
                /\ IF text = "text"
                   THEN Stage(c, "accepting") /\ UNCHANGED ledger
                   ELSE /\ ledger' = IF Settles(status)
                                     THEN [ledger EXCEPT ![c] = acknowledge(@, Item(c))]
                                     ELSE ledger
                        /\ Back(c)
    /\ GatewayOnly /\ UNCHANGED <<owing, events, evidence>>

PredecessorAccepted(c, k) == k > 1 => row[c][k - 1].status = "evidence_accepted"

\* Mutated: the item is left to a transaction of its own.
WithItemBug(c, k) == row

WithItem(c, k) == [row EXCEPT ![c][k].status = "evidence_accepted"]

\* accept_provider_final: evidence, its job and the item in one transaction.
Accepts(c, k) ==
    /\ service = "open" /\ row[c][k].status = "transcribed" /\ PredecessorAccepted(c, k)
    /\ evidence' = Append(evidence, <<c, k>>)
    /\ row' = WithItem(c, k)

AcceptFinal(c) ==
    /\ In(c, "accepting") /\ Accepts(c, Item(c))
    /\ ledger' = [ledger EXCEPT ![c] = acknowledge(@, Item(c))]
    /\ Back(c)
    /\ GatewayOnly /\ UNCHANGED <<owing, events>>

\* It raises, or its outcome is uncertain: the socket goes, with or without the evidence.
FailFinal(c) ==
    /\ In(c, "accepting")
    /\ UNCHANGED store \/ Accepts(c, Item(c))
    /\ Closes(c, "closing")
    /\ GatewayOnly /\ UNCHANGED ledger

\* A commit of the gateway's own: the bounded fallback.
BoundedFallback(c) ==
    /\ gateway[c].pc = "loop" /\ Leased(c)
    /\ ledger[c].intents = << >> /\ samples(ledger[c]) > cursor(ledger[c])
    /\ ledger' = [ledger EXCEPT ![c] = request(@)]
    /\ GatewayOnly /\ UNCHANGED <<owing, events, gateway, store>>

\* The browser's stop, with the tail of its frames: sound that no item owns is committed.
\* Where the configuration forbids that the gateway gives up.
Stop(c) ==
    /\ gateway[c].pc = "loop" /\ Leased(c) /\ capture.state = "pausing"
    /\ \/ samples(ledger[c]) = cursor(ledger[c]) /\ UNCHANGED ledger
       \/ /\ samples(ledger[c]) > cursor(ledger[c]) /\ ledger[c].intents = << >>
          /\ ledger' = [ledger EXCEPT ![c] = request(@)]
    /\ Goes(c, "settling")
    /\ GatewayOnly /\ UNCHANGED <<owing, events, store>>

Settled(c) == ~pending(ledger[c])

\* The acknowledgement of the pause, after which the socket is closed.
Paused(c) ==
    /\ gateway[c].pc = "settling" /\ Settled(c) /\ Leased(c) /\ capture.state = "pausing"
    /\ capture' = [capture EXCEPT !.state = "paused", !.lease = "none"]
    /\ Closes(c, "gone")
    /\ UNCHANGED <<service, gap, ledger, store>>

\* An error of the browser or the provider, a lost lease, another generation, a pause that
\* is not settled in time.
GivesUp(c) ==
    /\ gateway[c].pc \in {"loop", "settling"} /\ Closes(c, "closing")
    /\ GatewayOnly /\ UNCHANGED <<ledger, store>>

Disconnect(c) ==
    /\ gateway[c].pc = "closing" /\ Goes(c, "gone")
    /\ IF Leased(c) THEN capture' = Discontinued /\ gap' = TRUE ELSE UNCHANGED <<capture, gap>>
    /\ UNCHANGED <<service, provider, store>>

Crash(c) ==
    /\ Live(c) /\ Closes(c, "gone")
    /\ GatewayOnly /\ UNCHANGED <<ledger, store>>

-----------------------------------------------------------------------------
Session == \/ Connect \/ RequestPause \/ RequestResume \/ LeaseExpires \/ RecoverExpiredLease
           \/ RequestFinalizing \/ CompleteDrain

Provider(c) == Hear(c) \/ Committed(c) \/ Transcribed(c) \/ CommitEmpty(c)

Gateway(c) ==
    \/ TakeEvent(c) \/ Refused(c) \/ RecordCommit(c) \/ RecordCompletion(c)
    \/ AcceptFinal(c) \/ FailFinal(c) \/ BoundedFallback(c) \/ Stop(c) \/ Paused(c)
    \/ GivesUp(c) \/ Disconnect(c) \/ Crash(c)

Next == Session \/ \E c \in Conns : Provider(c) \/ Gateway(c)

Spec == Init /\ [][Next]_vars

-----------------------------------------------------------------------------
\* The rows, queues and handlers keep their types.
TypeOK ==
    /\ service \in {"open", "ended", "ended_incomplete"} /\ gap \in BOOLEAN
    /\ capture \in [state : {"resuming", "listening", "pausing", "paused", "reconnecting",
                             "finalizing"},
                    generation : 1 .. MaxConns + 1, lease : {"none", "live", "expired"}]
    /\ row \in [Conns -> [Turns -> [status : Statuses, text : {"none", "text", "empty"}]]]
    /\ \A c \in Conns : owing[c] \subseteq Turns
    /\ \A n \in DOMAIN evidence : evidence[n] \in Conns \X Turns

\* Evidence and item agree, whatever the socket did between the two transactions.
EvidenceMatchesItem ==
    /\ \A c \in Conns, k \in Turns :
          Cardinality({n \in DOMAIN evidence : evidence[n] = <<c, k>>}) =
              IF row[c][k].status = "evidence_accepted" THEN 1 ELSE 0
    /\ \A n \in DOMAIN evidence : row[evidence[n][1]][evidence[n][2]].text = "text"

\* The evidence of a connection is in the order in which it was spoken, without an item
\* left out.
SpokenOrder ==
    \A n \in DOMAIN evidence : \A k \in 1 .. evidence[n][2] - 1 :
        \E m \in 1 .. n - 1 : evidence[m] = <<evidence[n][1], k>>

\* A turn that the client counts as delivered has its outcome on record.
DeliveredIsOnRecord ==
    \A c \in Conns, k \in Turns : ledger[c].items[k].delivered =>
        row[c][k].status \in {"evidence_accepted", "empty", "coverage_unknown"}

\* The rows of the items and the evidence tell the same story.
ItemsInv ==
    /\ TypeOK
    /\ EvidenceMatchesItem
    /\ SpokenOrder
    /\ DeliveredIsOnRecord

\* A meeting that ended as complete has evidence of every frame it took and of every
\* item its provider committed, also when the commit of the pause was rejected because the
\* provider's own had taken its sound.
CompleteEndHeardAll ==
    service = "ended" =>
        \A c \in Conns :
            /\ \A k \in Turns : ledger[c].items[k].acked => row[c][k].status = "evidence_accepted"
            /\ \A f \in 1 .. samples(ledger[c]) : \E k \in Turns :
                  /\ row[c][k].status = "evidence_accepted"
                  /\ ledger[c].items[k].start < f /\ f <= ledger[c].items[k].end
=============================================================================
