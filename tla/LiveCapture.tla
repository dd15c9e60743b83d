---------------------------- MODULE LiveCapture ----------------------------
(***************************************************************************)
(* One capture of the live meeting, from the browser's frames to finished  *)
(* transcripts: the loop _capture_continuous and the reader task next to   *)
(* it (prototype/live_transport.py), the client of the realtime            *)
(* transcription provider with its TurnLedger (prototype/live_stt.py,      *)
(* prototype/live_turns.py), and the provider at the other end of the      *)
(* socket.                                                                 *)
(*                                                                         *)
(* Loop and reader are tasks of one event loop; they give way to each      *)
(* other where they await.  Messages to and from the provider keep their   *)
(* order.  The provider is external: it commits on its own when it hears   *)
(* speech stop, commits what it is told to, and transcribes its items in   *)
(* any order.  The meeting around the capture is in LiveSession.           *)
(***************************************************************************)
EXTENDS TurnLedger

CONSTANTS
    Modes,          \* values of OPENAI_REALTIME_FINALIZATION_MODE that are looked at
    MaxFrames       \* bound: frames of the capture

ASSUME LiveCaptureAssumption ==
    /\ Modes \subseteq {"none", "bounded", "server_vad", "semantic_vad", "server_vad_bounded"}
    /\ MaxFrames \in Nat

VARIABLES
    mode,       \* finalization_mode of the configuration
    turns,      \* the ledger of the connection
    client,     \* its _vad_speech_active, _vad_boundary_seen, _pending_vad_completions
    up,         \* messages on their way to the provider
    provider,   \* what the provider has heard, committed and transcribed
    down,       \* messages on their way from the provider
    events,     \* provider_events, from the reader to the loop
    loop,       \* where the loop is, and stop_seen
    meeting     \* what the meeting has of this capture

vars == <<mode, turns, client, up, provider, down, events, loop, meeting>>

vad_enabled == mode \in {"server_vad", "semantic_vad", "server_vad_bounded"}

\* build_turn_detection, which the session update tells the provider.
turn_detection ==
    CASE mode \in {"server_vad", "server_vad_bounded"} -> "server_vad"
      [] mode = "semantic_vad" -> "semantic_vad"
      [] OTHER -> "none"

bounded == mode \in {"bounded", "server_vad_bounded"}

Init ==
    /\ mode \in Modes
    /\ turns = NewLedger
    /\ client = [speaking |-> FALSE, boundary |-> FALSE, owed |-> 0]
    /\ up = << >> /\ down = << >> /\ events = << >>
    /\ provider = [heard |-> 0, from |-> 0, speaking |-> FALSE, stopped |-> 0, ranges |-> << >>,
                   owing |-> {}]
    /\ loop = [at |-> "top", sound |-> FALSE, stopping |-> FALSE]
    /\ meeting = [stop |-> FALSE, done |-> FALSE, finalized |-> FALSE, gap |-> FALSE,
                  failed |-> FALSE, finals |-> << >>]

Capturing == loop.at # "over"

-----------------------------------------------------------------------------
(* The provider (external).                                                *)

Say(messages) == down' = down \o messages

\* A commit of what it has in its buffer, up to end.
Commits(end) ==
    [provider EXCEPT !.ranges = Append(@, [start |-> provider.from, end |-> end]),
                     !.from = end,
                     !.owing = @ \cup {Len(provider.ranges) + 1}]

HearFrame ==
    /\ up # << >> /\ Head(up).type = "append"
    /\ up' = Tail(up)
    /\ provider' = [provider EXCEPT !.heard = @ + 1]
    /\ UNCHANGED <<mode, turns, client, down, events, loop, meeting>>

HearCommit ==
    /\ up # << >> /\ Head(up).type = "commit" /\ provider.stopped = 0
    /\ up' = Tail(up)
    /\ IF provider.heard = provider.from
       THEN /\ \E id \in {Head(up).id, Unknown} : Say(<<[type |-> "commit empty", id |-> id]>>)
            /\ UNCHANGED provider
       ELSE /\ Len(provider.ranges) < MaxTurns
            /\ Say(<<[type |-> "committed", item |-> Len(provider.ranges) + 1]>>)
            /\ provider' = Commits(provider.heard)
    /\ UNCHANGED <<mode, turns, client, events, loop, meeting>>

SpeechStarts ==
    /\ turn_detection # "none" /\ ~provider.speaking /\ provider.stopped = 0
    /\ provider.from < provider.heard /\ Len(provider.ranges) < MaxTurns
    /\ provider' = [provider EXCEPT !.speaking = TRUE]
    /\ Say(<<[type |-> "started"]>>)
    /\ UNCHANGED <<mode, turns, client, up, events, loop, meeting>>

\* It says that speech stopped, and of which item that is the end.
SpeechStops ==
    /\ provider.speaking /\ Len(provider.ranges) < MaxTurns
    /\ \E end \in provider.from + 1 .. provider.heard :
          /\ provider' = [provider EXCEPT !.speaking = FALSE, !.stopped = end]
          /\ Say(<<[type |-> "stopped", item |-> Len(provider.ranges) + 1, end |-> end]>>)
    /\ UNCHANGED <<mode, turns, client, up, events, loop, meeting>>

\* The commit it announced so: a message of its own, that may be long in coming or never come.
VadCommits ==
    /\ provider.stopped # 0
    /\ provider' = [Commits(provider.stopped) EXCEPT !.stopped = 0]
    /\ Say(<<[type |-> "committed", item |-> Len(provider.ranges) + 1]>>)
    /\ UNCHANGED <<mode, turns, client, up, events, loop, meeting>>

Transcribes ==
    /\ \E k \in provider.owing, text \in BOOLEAN :
          /\ provider' = [provider EXCEPT !.owing = @ \ {k}]
          /\ Say(<<[type |-> "completed", item |-> k, text |-> text]>>)
    /\ UNCHANGED <<mode, turns, client, up, events, loop, meeting>>

\* The bound on faults: they come when nothing else is on its way.
Fault(message) ==
    /\ down = << >> /\ events = << >> /\ Say(<<message>>)
    /\ UNCHANGED <<mode, turns, client, up, provider, events, loop, meeting>>

\* Of an item it has transcribed, once more.
Repeats ==
    \E k \in DOMAIN provider.ranges :
        k \notin provider.owing /\ Fault([type |-> "completed", item |-> k, text |-> TRUE])

Breaks == Fault([type |-> "error"])

-----------------------------------------------------------------------------
(* The client: receive_event, one message at a time, in the reader task.   *)

Reads(messages) == events' = events \o messages
Read(type) == down # << >> /\ Head(down).type = type /\ loop.at # "over" /\ down' = Tail(down)
ReaderOnly == UNCHANGED <<mode, up, provider, loop, meeting>>

ReadStarted ==
    /\ Read("started")
    /\ client' = [client EXCEPT !.speaking = TRUE]
    /\ ReaderOnly /\ UNCHANGED <<turns, events>>

ReadStopped ==
    /\ Read("stopped")
    /\ turns' = ObserveStopped(turns, Head(down).item, Head(down).end)
    /\ client' = [client EXCEPT !.speaking = FALSE, !.boundary = TRUE, !.owed = @ + 1]
    /\ ReaderOnly /\ UNCHANGED events

ReadCommitted ==
    /\ Read("committed")
    /\ turns' = ObserveCommitted(turns, Head(down).item)
    /\ ReaderOnly /\ UNCHANGED <<client, events>>

\* adapt_realtime_event: one completion of an item counts, and one without text is an error.
Adapted(k, text) ==
    IF turns.items[k].completion # "none" THEN "duplicate_final"
    ELSE IF text THEN "final_transcript" ELSE "empty_final_transcript"

\* _benign_empty: silence that the provider committed itself.
Benign(k) ==
    /\ turns.items[k].reason = "vad" /\ range_known(turns, k)
    /\ ~meaningful(turns, turns.items[k].start, turns.items[k].end)

\* Whether the turn was short, and heard without a delta, is left open.
recoverable_short_vad_empty(k) ==
    /\ turns.items[k].reason = "vad" /\ turn_detection = "server_vad"
    /\ range_known(turns, k)

\* What a completion comes to: a final transcript, silence, a short turn without text that
\* counts as a possible gap, or an error.
Verdicts(k, text) ==
    IF Adapted(k, text) = "final_transcript"
    THEN {IF range_known(turns, k) THEN "final" ELSE "error"}
    ELSE IF Benign(k) THEN {"silence"}
    ELSE {"error"} \cup (IF recoverable_short_vad_empty(k) THEN {"gap"} ELSE {})

\* A completion counts against the turns that stopped, whatever item it is of.
OwedLess == [client EXCEPT !.owed = IF @ > 0 THEN @ - 1 ELSE 0]

ReadCompleted ==
    /\ Read("completed")
    /\ client' = OwedLess
    /\ LET k == Head(down).item
       IN  IF Adapted(k, Head(down).text) = "duplicate_final"
           THEN UNCHANGED <<turns, events>>
           ELSE \E verdict \in Verdicts(k, Head(down).text) :
                   LET complete == Completed(turns, k, verdict)
                   IN  /\ turns' = Emitted(complete)
                       /\ Reads([n \in DOMAIN ready(complete) |->
                                    [type |-> complete.items[ready(complete)[n]].completion,
                                     item |-> ready(complete)[n]]])
    /\ ReaderOnly

ReadCommitEmpty ==
    /\ Read("commit empty")
    /\ IF Superseded(turns, Head(down).id)
       THEN turns' = reconcile_empty_commit(turns) /\ UNCHANGED events
       ELSE Reads(<<[type |-> "error", item |-> 0]>>) /\ UNCHANGED turns
    /\ ReaderOnly /\ UNCHANGED client

ReadError ==
    /\ Read("error")
    /\ Reads(<<[type |-> "error", item |-> 0]>>)
    /\ ReaderOnly /\ UNCHANGED <<turns, client>>

has_pending_vad_completion ==
    \/ pending(turns) \/ client.owed > 0
    \/ client.speaking /\ meaningful_pending(turns)

should_commit_bounded_fallback ==
    /\ vad_enabled => client.speaking
    /\ turns.intents = << >> /\ meaningful_pending(turns)

should_commit_at_session_end ==
    /\ ~(vad_enabled /\ client.boundary /\ ~client.speaking)
    /\ turns.intents = << >> /\ samples(turns) > cursor(turns)
    /\ vad_enabled => meaningful_pending(turns)

-----------------------------------------------------------------------------
(* The loop.  Its top: what is due before the next message is waited for.  *)

Top == loop.at = "top"
Commit ==
    /\ turns' = request(turns)
    /\ up' = Append(up, [type |-> "commit", id |-> turns.requests + 1])
LoopOnly == UNCHANGED <<mode, client, provider, down, events>>

\* mark_stt_finalization_complete, when nothing is due from the provider.
Marked(m, due) ==
    IF due THEN m ELSE [m EXCEPT !.done = TRUE, !.finalized = meeting.stop]

\* The socket goes, and what was on its way over it.
Closes == loop' = [loop EXCEPT !.at = "over"] /\ up' = << >> /\ down' = << >> /\ events' = << >>

\* The capture is interrupted, or, when the meeting was stopping, failed.
Interrupted ==
    /\ Closes
    /\ meeting' = IF meeting.stop THEN [meeting EXCEPT !.failed = TRUE, !.done = TRUE]
                  ELSE [meeting EXCEPT !.gap = TRUE]

\* Mutated: only commits that were not answered have a deadline.
ExpiresBug ==
    /\ Top /\ turns.intents # << >>
    /\ Interrupted
    /\ UNCHANGED <<mode, client, provider, turns>>

\* A commit that was not answered, or an item that was not transcribed, is past its deadline.
Expires ==
    /\ Top /\ pending(turns)
    /\ Interrupted
    /\ UNCHANGED <<mode, client, provider, turns>>

\* The commit at the end of the session, asked for in every round of the loop; nothing due
\* any more, and the meeting can be drained.
TopStops ==
    /\ Top /\ meeting.stop
    /\ IF should_commit_at_session_end
       THEN Commit /\ UNCHANGED meeting
       ELSE meeting' = Marked(meeting, has_pending_vad_completion) /\ UNCHANGED <<turns, up>>
    /\ ~(meeting'.finalized /\ turns'.intents = << >>)
    /\ loop' = [loop EXCEPT !.stopping = TRUE, !.at = "wait"]
    /\ LoopOnly

TopEnds ==
    /\ Top /\ meeting.stop /\ ~should_commit_at_session_end
    /\ meeting' = Marked(meeting, has_pending_vad_completion)
    /\ meeting'.finalized /\ turns.intents = << >>
    /\ Closes
    /\ UNCHANGED <<mode, client, provider, turns>>

TopWaits ==
    /\ Top /\ ~meeting.stop
    /\ loop' = [loop EXCEPT !.at = "wait"]
    /\ LoopOnly /\ UNCHANGED <<turns, up, meeting>>

\* A turn that the provider still hears is old enough to be committed.
TopBounds ==
    /\ Top /\ ~meeting.stop /\ bounded /\ should_commit_bounded_fallback
    /\ Commit
    /\ loop' = [loop EXCEPT !.at = "wait"]
    /\ LoopOnly /\ UNCHANGED meeting

-----------------------------------------------------------------------------
(* The loop, woken by the browser, the provider or its timer.              *)

Wakes(at) == loop' = [loop EXCEPT !.at = at]

Idle ==
    /\ loop.at \in {"wait", "events"} /\ Wakes("top")
    /\ LoopOnly /\ UNCHANGED <<turns, up, meeting>>

\* A frame is sent, and entered into the ledger when the send returns.
Frame ==
    /\ loop.at = "wait" /\ ~loop.stopping /\ samples(turns) < MaxFrames
    /\ up' = Append(up, [type |-> "append"])
    /\ \E sound \in BOOLEAN : loop' = [loop EXCEPT !.at = "sending", !.sound = sound]
    /\ LoopOnly /\ UNCHANGED <<turns, meeting>>

FrameSent ==
    /\ loop.at = "sending"
    /\ turns' = AppendFrame(turns, loop.sound)
    /\ loop' = [loop EXCEPT !.at = "events", !.sound = FALSE]
    /\ LoopOnly /\ UNCHANGED <<up, meeting>>

\* The browser asks for a commit of its own.
ExplicitCommit ==
    /\ loop.at = "wait" /\ ~loop.stopping /\ turns.intents = << >>
    /\ samples(turns) > cursor(turns) /\ turns.requests < MaxTurns
    /\ Commit /\ Wakes("events")
    /\ LoopOnly /\ UNCHANGED meeting

\* The stop comes over HTTP; one that comes over the socket takes the same way.
Stop ==
    /\ Capturing /\ ~meeting.stop
    /\ meeting' = [meeting EXCEPT !.stop = TRUE]
    /\ UNCHANGED <<mode, turns, client, up, provider, down, events, loop>>

Event(type) ==
    /\ loop.at \in {"wait", "events"} /\ events # << >> /\ Head(events).type = type
    /\ events' = Tail(events)
    /\ UNCHANGED <<mode, client, up, provider, down>>

\* process_final, then acknowledge.
Final ==
    /\ Event("final")
    /\ turns' = acknowledge(turns, Head(events).item)
    /\ meeting' = Marked([meeting EXCEPT !.finals = Append(@, Head(events).item),
                                        !.finalized = FALSE],
                         ~loop.stopping \/ has_pending_vad_completion')
    /\ Wakes("top")

\* Silence completes the transcription whether or not the meeting is stopping.
Silence ==
    /\ Event("silence")
    /\ turns' = acknowledge(turns, Head(events).item)
    /\ meeting' = Marked(meeting, has_pending_vad_completion')
    /\ Wakes("top")

PossibleGap ==
    /\ Event("gap")
    /\ turns' = acknowledge(turns, Head(events).item)
    /\ meeting' = Marked([meeting EXCEPT !.gap = TRUE],
                         ~loop.stopping \/ has_pending_vad_completion')
    /\ Wakes("top")

Unsafe ==
    /\ loop.at \in {"wait", "events"} /\ events # << >> /\ Head(events).type = "error"
    /\ Interrupted
    /\ UNCHANGED <<mode, client, provider, turns>>

\* The browser's socket is lost: mark_controller_disconnected.
BrowserGone ==
    /\ loop.at = "wait"
    /\ Closes
    /\ meeting' = IF ~meeting.stop THEN [meeting EXCEPT !.gap = TRUE]
                  ELSE IF meeting.done THEN meeting
                  ELSE [meeting EXCEPT !.gap = TRUE, !.failed = TRUE, !.done = TRUE]
    /\ UNCHANGED <<mode, client, provider, turns>>

-----------------------------------------------------------------------------
Reader == ReadStarted \/ ReadStopped \/ ReadCommitted \/ ReadCompleted \/ ReadCommitEmpty \/ ReadError

Loop ==
    \/ Expires \/ TopStops \/ TopEnds \/ TopWaits \/ TopBounds
    \/ Idle \/ FrameSent \/ Final \/ Silence \/ PossibleGap \/ Unsafe

\* The socket is closed when the loop is over.
Provider ==
    /\ Capturing
    /\ \/ HearFrame \/ HearCommit \/ SpeechStarts \/ SpeechStops \/ VadCommits
       \/ Transcribes \/ Repeats \/ Breaks

Next == Reader \/ Loop \/ Provider \/ Frame \/ ExplicitCommit \/ Stop \/ BrowserGone

Spec == Init /\ [][Next]_vars

\* The tasks run on; what the provider said is taken up, and a turn that stays unresolved
\* gets too old.  Nothing is asked of the provider or of the browser.
Fairness ==
    /\ WF_vars(Reader) /\ WF_vars(Loop)
    /\ SF_vars(Final \/ Silence \/ PossibleGap \/ Unsafe) /\ SF_vars(Expires)

FairSpec == Spec /\ Fairness

-----------------------------------------------------------------------------
TypeOK ==
    /\ mode \in Modes
    /\ client \in [speaking : BOOLEAN, boundary : BOOLEAN, owed : 0 .. MaxTurns]
    /\ loop \in [at : {"top", "wait", "events", "sending", "over"}, sound : BOOLEAN,
                 stopping : BOOLEAN]
    /\ provider.heard <= samples(turns) + 1 /\ provider.from <= provider.heard
    /\ turns.allocated <= MaxFrames

\* No stretch of audio is given to two items.
OwnedOnce ==
    \A j, k \in Turns :
        j # k /\ turns.items[j].start # Unknown /\ turns.items[k].start # Unknown =>
            \A f \in 1 .. MaxFrames :
                ~ (/\ turns.items[j].start < f /\ f <= turns.items[j].end
                   /\ turns.items[k].start < f /\ f <= turns.items[k].end)

\* What the meeting takes as the range of an item is the audio that the provider committed.
RangeIsTrue ==
    \A k \in Turns : turns.items[k].delivered =>
        /\ turns.items[k].start = provider.ranges[k].start
        /\ turns.items[k].end = provider.ranges[k].end

\* Client, ledger and provider agree on which audio is whose.
TurnsInv ==
    /\ TypeOK
    /\ OwnedOnce
    /\ RangeIsTrue

\* Transcripts reach the meeting in the order they were spoken, each once, and none is
\* passed over.
FinalsInOrder ==
    \A n \in DOMAIN meeting.finals :
        /\ \A m \in 1 .. n - 1 : meeting.finals[m] < meeting.finals[n]
        /\ \A k \in 1 .. meeting.finals[n] : turns.items[k].delivered

\* A capture that ends without failure or gap has given the meeting every turn that the
\* provider had acknowledged.
CleanEndHeardAll ==
    loop.at = "over" /\ ~meeting.gap /\ ~meeting.failed => ~pending(turns)

\* A capture that was told to stop comes to its end, whatever else the provider does or
\* leaves out, unless it never makes a commit that it announced when speech stopped: for
\* that one the host counts a completion and has no deadline.
StopEnds == (meeting.stop ~> loop.at = "over") \/ <>[](provider.stopped # 0)

=============================================================================
