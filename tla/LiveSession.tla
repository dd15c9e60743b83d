---------------------------- MODULE LiveSession ----------------------------
(***************************************************************************)
(* The live meeting of the developer and pilot server: LiveSessionManager  *)
(* (prototype/live_session.py), LiveContinuousSession with its drain       *)
(* (prototype/live_continuous.py), the render coalescer, and the handler   *)
(* that serves each browser connection (prototype/live_transport.py).      *)
(*                                                                         *)
(* HTTP requests, the event loop with its connections, drains in threads,  *)
(* the analyzer's worker and the signal handler run side by side; an       *)
(* action is one stretch under the manager's or the session's lock.  The   *)
(* queue is AnalyzerQueue.  What a connection's provider still owes is     *)
(* left open: at any moment it may owe something, or nothing any more;     *)
(* LiveCapture has the turns behind it.  One controller: requests with     *)
(* another controller_id are refused and change nothing.  A person's        *)
(* commands are in LiveQueue: they need an active meeting and change none  *)
(* of what is here.                                                        *)
(***************************************************************************)
EXTENDS AnalyzerQueue

CONSTANTS
    MaxConns,       \* bound: browser connections, numbered as they are accepted
    MaxSessions,    \* bound: meetings started in the life of the process
    MaxFrames       \* bound: audio frames of a meeting

ASSUME LiveSessionAssumption ==
    MaxConns \in Nat /\ MaxSessions \in Nat /\ MaxFrames \in Nat

Conns == 1 .. MaxConns
Nobody == 0             \* no capture is current

VARIABLES
    home,       \* number of the meeting the manager holds, 0 before the first
    meeting,    \* the session object of that meeting
    manager,    \* _active_connection_id, _stop_requested, _shutting_down, and whether its
                \* lock is held through a drain
    conn,       \* where each connection's handler is
    drain       \* who is in or before drain(): a connection, an HTTP request, the signal
                \* handler; "over" when it has nothing to drain any more

vars == <<queue, home, meeting, manager, conn, drain>>

Http == -1              \* an HTTP request and the signal handler, as callers of drain()
Signal == -2
Drainers == Conns \cup {Http, Signal}
Over == {"ended", "incomplete"}
Open == {"starting", "active", "finalizing"}

\* stt "idle" stands for idle and connecting, "live" for everything nobody tells apart:
\* connected, streaming, partial, final, committing, ended.  done is
\* stt_finalization_complete, forced _forced_incomplete, gap a counted evidence gap,
\* shown that the map was drawn from the last revision of the graph.
NewMeeting == [state |-> "starting", stt |-> "idle", linked |-> FALSE, done |-> FALSE,
               forced |-> FALSE, gap |-> FALSE, frames |-> 0, shown |-> TRUE]
\* mine: the meeting the handler read when it was called is the manager's.
NewConn == [pc |-> "new", mine |-> FALSE, stopping |-> FALSE]

Init ==
    /\ QueueInit
    /\ home = 0 /\ meeting = [NewMeeting EXCEPT !.state = "ended"]
    /\ manager = [active |-> Nobody, stop |-> FALSE, shutting |-> FALSE, held |-> FALSE]
    /\ conn = [c \in Conns |-> NewConn]
    /\ drain = [d \in Drainers |-> "no"]

-----------------------------------------------------------------------------
(* Methods of the session.                                                 *)

\* mark_connected and activate, for whatever connection is current.
Connected(m) == [m EXCEPT !.stt = "idle", !.linked = TRUE]

Activated(m) ==
    [m EXCEPT !.state = IF @ = "starting" THEN "active" ELSE @, !.linked = TRUE, !.stt = "live"]

Stopped(m) ==
    IF m.state \in {"starting", "active"}
    THEN [m EXCEPT !.state = "finalizing", !.stt = "live"] ELSE m

Finalized(m) ==
    [m EXCEPT !.done = TRUE, !.stt = IF m.state = "finalizing" THEN "finalized" ELSE @]

\* mark_finalization_transport_lost
Lost(m) ==
    IF m.state # "finalizing" \/ m.done THEN m
    ELSE [m EXCEPT !.gap = TRUE, !.forced = TRUE, !.linked = FALSE, !.done = TRUE,
                   !.stt = "finalized"]

\* mark_provider_failure, in whatever state the session is.
Failed(m) ==
    [m EXCEPT !.state = "finalizing", !.stt = "error", !.linked = FALSE, !.done = TRUE,
              !.forced = TRUE]

\* record_capture_interruption
Interrupted(m) ==
    IF m.state \notin {"starting", "active"} THEN m
    ELSE [m EXCEPT !.gap = @ \/ m.state = "active", !.linked = FALSE, !.stt = "disconnected"]

\* mark_transport_disconnected
Unlinked(m) ==
    [m EXCEPT !.linked = FALSE,
              !.stt = IF m.state \in {"starting", "active"} THEN "disconnected" ELSE @]

\* mark_dirty of the coalescer: the map waits to be drawn when the graph has moved.
Dirty(m, moved) == [m EXCEPT !.shown = @ /\ ~moved]

\* _render_now_locked
Rendered(m) == [m EXCEPT !.shown = TRUE]

Free == ~manager.held
QueueStays == UNCHANGED queue

-----------------------------------------------------------------------------
(* Requests.                                                               *)

\* start_mode("continuous"): a meeting that is still open is returned as it is.
Start ==
    /\ Free /\ ~manager.shutting /\ meeting.state \in Over /\ home < MaxSessions
    /\ home' = home + 1 /\ meeting' = NewMeeting
    /\ manager' = [manager EXCEPT !.active = Nobody, !.stop = FALSE]
    /\ status' = [n \in Items |-> "none"] /\ attempts' = [n \in Items |-> 0] /\ authors' = << >>
    /\ conn' = [c \in Conns |-> [conn[c] EXCEPT !.mine = FALSE]]
    /\ drain' = [d \in Drainers |-> CASE drain[d] = "waiting" -> "over"
                                     [] drain[d] = "lost" -> "astray"
                                     [] OTHER -> drain[d]]

\* request_stop: with no transport left it ends the meeting itself, outside the lock.
RequestStop ==
    /\ Free /\ home > 0 /\ drain[Http] = "no"
    /\ meeting' = Stopped(meeting)
    /\ manager' = [manager EXCEPT !.stop = meeting.linked]
    /\ drain' = [drain EXCEPT ![Http] = IF meeting.linked THEN "no" ELSE "lost"]
    /\ QueueStays /\ UNCHANGED <<home, conn>>

\* Lost or complete, by whether it ever heard anything.
WithoutTransport(m) == IF m.frames > 0 THEN Lost(m) ELSE Finalized(m)

\* The drain that follows is of whatever meeting the manager holds by then.
StopWithoutTransport ==
    /\ Free /\ drain[Http] \in {"lost", "astray"}
    /\ meeting' = IF drain[Http] = "lost" THEN WithoutTransport(Stopped(meeting)) ELSE Stopped(meeting)
    /\ drain' = [drain EXCEPT ![Http] = IF meeting.state \in Over THEN "no" ELSE "waiting"]
    /\ QueueStays /\ UNCHANGED <<home, manager, conn>>

\* The worker settles an item; _on_item_settled marks the map dirty.
Worker ==
    /\ \E n \in Items : Fail(n) \/ Complete(n, 1)
    /\ meeting' = Dirty(meeting, authors' # authors)
    /\ UNCHANGED <<home, manager, conn, drain>>

-----------------------------------------------------------------------------
(* The drain, in whatever thread it runs: it looks at the session until    *)
(* the transcription and the queue are done, or its time is up.            *)

\* Mutated: once the transcription is final the queue is not looked at.
SettledBug == meeting.done \/ QueueIdle

Settled == QueueIdle

Returns(d) ==
    /\ drain' = [drain EXCEPT ![d] = "no"]
    /\ conn' = IF d \notin Conns THEN conn
               ELSE IF conn[d].pc = "halting" THEN [conn EXCEPT ![d].pc = "capturing"]
               ELSE [conn EXCEPT ![d].pc = IF @ = "draining" THEN "leaving" ELSE "gone"]
    /\ manager' = IF d = Signal THEN [manager EXCEPT !.held = FALSE] ELSE manager

\* Only the drains at the end of a capture loop insist on the transcription.
WithoutStt(d) == d \in Conns => conn[d].pc # "draining"

\* Mutated: the result of a drain that was forced to give up is not kept.
DrainDoneBug(d) ==
    /\ drain[d] = "waiting" /\ (meeting.done \/ WithoutStt(d)) /\ Settled
    /\ meeting' = [Rendered(meeting) EXCEPT !.state = "ended", !.stt = "live"]
    /\ Returns(d)
    /\ QueueStays /\ UNCHANGED home

DrainDone(d) ==
    /\ drain[d] = "waiting" /\ (meeting.done \/ WithoutStt(d)) /\ Settled
    /\ meeting' = [Rendered(meeting) EXCEPT
           !.state = IF meeting.forced THEN "incomplete" ELSE "ended", !.stt = "live"]
    /\ Returns(d)
    /\ QueueStays /\ UNCHANGED home

\* Mutated: the deadline counts only while the transcription is outstanding.
DrainTimeoutBug(d) ==
    /\ drain[d] = "waiting" /\ ~meeting.done
    /\ meeting' = [Rendered(meeting) EXCEPT !.state = "incomplete", !.done = TRUE]
    /\ Returns(d)
    /\ QueueStays /\ UNCHANGED home

DrainTimeout(d) ==
    /\ drain[d] = "waiting"
    /\ meeting' = [Rendered(meeting) EXCEPT !.state = "incomplete", !.done = TRUE]
    /\ Returns(d)
    /\ QueueStays /\ UNCHANGED home

\* The session had ended before the drain began, or ended and was replaced under it.
DrainForgotten(d) ==
    /\ drain[d] = "over"
    /\ Returns(d)
    /\ QueueStays /\ UNCHANGED <<home, meeting>>

-----------------------------------------------------------------------------
(* shutdown_for_termination: without a transport it drains while it holds  *)
(* the lock, else it waits for the capture to end and then drains itself.  *)

Terminate ==
    /\ Free /\ ~manager.shutting
    /\ LET open == home > 0 /\ meeting.state \in Open
           alone == open /\ meeting.state = "starting" /\ meeting.stt = "idle"
       IN  /\ meeting' = IF alone THEN Finalized(Stopped(meeting))
                         ELSE IF open THEN Stopped(meeting) ELSE meeting
           /\ manager' = [manager EXCEPT !.shutting = TRUE, !.stop = @ \/ open, !.held = alone]
           /\ drain' = [drain EXCEPT ![Signal] =
                            IF alone THEN "waiting" ELSE IF open THEN "watching" ELSE "no"]
    /\ QueueStays /\ UNCHANGED <<home, conn>>

TerminateLate ==
    /\ drain[Signal] = "watching"
    /\ drain' = [drain EXCEPT ![Signal] = IF meeting.state \in Over THEN "no" ELSE "waiting"]
    /\ meeting' = Stopped(meeting)
    /\ QueueStays /\ UNCHANGED <<home, manager, conn>>

-----------------------------------------------------------------------------
(* The gateway's call for one connection.  A drain that it runs inline     *)
(* ("blocking", "halting") stops the event loop and every connection; an   *)
(* exception handler does not give way to other connections, only to       *)
(* threads.                                                                *)

LoopRuns == Free /\ \A c \in Conns : conn[c].pc \notin {"blocking", "halting"}
Runs(c) ==
    LoopRuns /\ \A k \in Conns : conn[k].pc \in {"failing", "giving up", "interrupting"} => k = c
Goes(c, pc) == conn' = [conn EXCEPT ![c] = [NewConn EXCEPT !.pc = pc]]
Current(c) == manager.active = c

Connect(c) ==
    /\ Runs(c) /\ conn[c].pc = "new" /\ home > 0
    /\ \A k \in Conns : k < c => conn[k].pc # "new"
    /\ IF meeting.state \in Open
       THEN /\ meeting' = Connected(meeting)
            /\ manager' = [manager EXCEPT !.active = c]
            /\ conn' = [conn EXCEPT ![c].pc = "connecting", ![c].mine = TRUE]
       ELSE Goes(c, "gone") /\ UNCHANGED <<meeting, manager>>
    /\ QueueStays /\ UNCHANGED <<home, drain>>

\* provider.connect returned: activate, whoever is current by now, then the capture loop,
\* which a superseded connection leaves before it reads anything.
ProviderUp(c) ==
    /\ Runs(c) /\ conn[c].pc = "connecting"
    /\ meeting' = IF meeting.state \in Open THEN Activated(meeting) ELSE meeting
    /\ IF meeting.state \in Open /\ Current(c) THEN conn' = [conn EXCEPT ![c].pc = "capturing"]
       ELSE Goes(c, "leaving")
    /\ QueueStays /\ UNCHANGED <<home, manager, drain>>

\* The exception handlers of __call__: first the session they read when they were called ...
Fault(c) ==
    /\ Runs(c) /\ conn[c].pc \in {"connecting", "capturing"}
    /\ Goes(c, IF ~Current(c) THEN "leaving"
               ELSE IF conn[c].mine /\ meeting.state = "finalizing" THEN "failing"
               ELSE "interrupting")
    /\ QueueStays /\ UNCHANGED <<home, meeting, manager, drain>>

\* ... then fail(), whatever an HTTP request or a drain did in between ...
Fail_(c) ==
    /\ Runs(c) /\ conn[c].pc \in {"failing", "giving up"}
    /\ meeting' = Failed(meeting)
    /\ IF conn[c].pc = "failing" THEN Goes(c, "failed") /\ UNCHANGED drain
       ELSE Goes(c, "draining") /\ drain' = [drain EXCEPT ![c] = "waiting"]
    /\ QueueStays /\ UNCHANGED <<home, manager>>

\* ... or record_capture_interruption().
Interrupt_(c) ==
    /\ Runs(c) /\ conn[c].pc = "interrupting"
    /\ meeting' = IF Current(c) THEN Interrupted(meeting) ELSE meeting
    /\ Goes(c, "leaving")
    /\ QueueStays /\ UNCHANGED <<home, manager, drain>>

\* The browser's side of the connection is closed or lost.
BrowserGone(c) ==
    /\ Runs(c) /\ conn[c].pc \in {"connecting", "capturing"}
    /\ Goes(c, "leaving")
    /\ QueueStays /\ UNCHANGED <<home, meeting, manager, drain>>

\* The finally clause: a failed finalization is drained in a thread; else
\* mark_controller_disconnected, for the current capture only, with an inline drain when
\* the meeting was finalizing.
Leave(c) ==
    /\ Runs(c) /\ conn[c].pc \in {"leaving", "failed"}
    /\ IF ~Current(c) \/ meeting.state \in Over
       THEN Goes(c, "gone") /\ UNCHANGED <<meeting, manager, drain>>
       ELSE IF conn[c].pc = "failed"
       THEN /\ Goes(c, "ending") /\ drain' = [drain EXCEPT ![c] = "waiting"]
            /\ meeting' = Stopped(meeting)
            /\ UNCHANGED manager
       ELSE /\ manager' = [manager EXCEPT !.active = Nobody]
            /\ meeting' = IF meeting.state = "finalizing" THEN Unlinked(Lost(meeting))
                          ELSE IF meeting.state = "active" /\ meeting.stt # "disconnected"
                               THEN Unlinked(Interrupted(meeting))
                          ELSE Unlinked(meeting)
            /\ IF meeting.state = "finalizing"
               THEN Goes(c, "blocking") /\ drain' = [drain EXCEPT ![c] = "waiting"]
               ELSE Goes(c, "gone") /\ UNCHANGED drain
    /\ QueueStays /\ UNCHANGED home

-----------------------------------------------------------------------------
(* The capture loop.                                                       *)

\* drain() stops an open session first and returns at once from one that has ended.
GoesDraining(c) ==
    /\ IF meeting.state \in Over THEN Goes(c, "leaving") /\ UNCHANGED drain
       ELSE Goes(c, "draining") /\ drain' = [drain EXCEPT ![c] = "waiting"]
    /\ meeting' = Stopped(meeting)

Capturing(c) == Runs(c) /\ conn[c].pc = "capturing"

\* The top of the loop: another connection is current, or the session was interrupted
\* or failed under it.
Retire(c) ==
    /\ Capturing(c)
    /\ \/ /\ ~Current(c) \/ meeting.stt = "disconnected"
          /\ Goes(c, "leaving") /\ UNCHANGED <<meeting, drain>>
       \/ /\ Current(c) /\ meeting.stt = "error"
          /\ GoesDraining(c)
    /\ QueueStays /\ UNCHANGED <<home, manager>>

\* Once the connection knows of the stop: the session-end commit is sent, and if nothing
\* is owed the transcription is final.
Stopping(m) == meeting' \in {m, Finalized(m)}

TakeStop(c) ==
    /\ Capturing(c) /\ Current(c) /\ manager.stop
    /\ meeting.stt \notin {"error", "disconnected"}
    /\ manager' = [manager EXCEPT !.stop = FALSE]
    /\ conn' = [conn EXCEPT ![c].stopping = TRUE]
    /\ IF conn[c].stopping THEN UNCHANGED meeting ELSE Stopping(meeting)
    /\ QueueStays /\ UNCHANGED <<home, drain>>

\* The browser's stop message: request_stop in the event loop, which without a transport
\* drains there and then.
BrowserStop(c) ==
    /\ Capturing(c) /\ ~conn[c].stopping
    /\ manager' = [manager EXCEPT !.stop = meeting.linked]
    /\ IF meeting.linked
       THEN /\ Stopping(Stopped(meeting))
            /\ conn' = [conn EXCEPT ![c].stopping = TRUE]
            /\ UNCHANGED drain
       ELSE /\ meeting' = WithoutTransport(Stopped(meeting))
            /\ conn' = [conn EXCEPT ![c].stopping = TRUE,
                                    ![c].pc = IF meeting.state \in Over THEN @ ELSE "halting"]
            /\ drain' = [drain EXCEPT ![c] = IF meeting.state \in Over THEN "no" ELSE "waiting"]
    /\ QueueStays /\ UNCHANGED home

\* The commit could not be sent.
CommitFails(c) ==
    /\ Capturing(c) /\ Current(c)
    /\ meeting' = IF meeting.state = "active" THEN Interrupted(meeting) ELSE Failed(meeting)
    /\ QueueStays /\ UNCHANGED <<home, manager, conn, drain>>

\* Nothing is owed any more, and the drain.
Progress(c) ==
    /\ Capturing(c) /\ Current(c) /\ conn[c].stopping
    /\ meeting.stt \notin {"error", "disconnected"}
    /\ meeting' = Finalized(meeting) /\ meeting' # meeting
    /\ QueueStays /\ UNCHANGED <<home, manager, conn, drain>>

FinishStop(c) ==
    /\ Capturing(c) /\ Current(c) /\ conn[c].stopping /\ meeting.stt = "finalized"
    /\ GoesDraining(c)
    /\ QueueStays /\ UNCHANGED <<home, manager>>

\* accept_chunk for the next frame, in whatever session is current by then.
Frame(c) ==
    /\ Capturing(c) /\ ~conn[c].stopping /\ meeting.state = "active" /\ meeting.frames < MaxFrames
    /\ meeting' = [meeting EXCEPT !.frames = @ + 1, !.stt = "live"]
    /\ QueueStays /\ UNCHANGED <<home, manager, conn, drain>>

\* process_final hands the utterance over, or normalization leaves nothing of it; then
\* more may be owed, or nothing when the meeting is stopping.
Final(c) ==
    /\ Capturing(c) /\ meeting.state \in {"active", "finalizing"}
    /\ \E m \in {[meeting EXCEPT !.stt = "live"], Failed(meeting)} :
          /\ IF m.stt = "live" THEN \E n \in Items : HandOver(n) ELSE QueueStays
          /\ IF conn[c].stopping THEN Stopping(m) ELSE meeting' = m
    /\ UNCHANGED <<home, manager, conn, drain>>

\* An empty completion: of a silent turn, which completes the transcription whether or
\* not the meeting is stopping, or of a short one that counts as a gap.
EmptyFinal(c) ==
    /\ Capturing(c)
    /\ \/ Stopping(meeting)
       \/ /\ meeting.frames > 0
          /\ LET m == [meeting EXCEPT !.gap = TRUE]
             IN  IF conn[c].stopping THEN Stopping(m) ELSE meeting' = m
    /\ QueueStays /\ UNCHANGED <<home, manager, conn, drain>>

\* poll_render of a capture loop, when a coalesced render is due.
PollRender(c) ==
    /\ Capturing(c)
    /\ ~meeting.shown
    /\ meeting' = Rendered(meeting)
    /\ QueueStays /\ UNCHANGED <<home, manager, conn, drain>>

\* _interrupt_capture: a provider error, a turn past its deadline, capture_failure.
InterruptCapture(c) ==
    /\ Capturing(c)
    /\ IF Current(c) /\ meeting.state = "finalizing"
       THEN Goes(c, "giving up") /\ UNCHANGED meeting
       ELSE /\ meeting' = IF Current(c) THEN Interrupted(meeting) ELSE meeting
            /\ Goes(c, "leaving")
    /\ QueueStays /\ UNCHANGED <<home, manager, drain>>

-----------------------------------------------------------------------------
\* What the server does of itself, and what browsers, people and the provider do.
Handler(c) ==
    \/ Fail_(c) \/ Interrupt_(c) \/ Leave(c)
    \/ Retire(c) \/ TakeStop(c) \/ FinishStop(c)

Draining(d) == DrainDone(d) \/ DrainTimeout(d) \/ DrainForgotten(d)

Next ==
    \/ Start \/ RequestStop \/ StopWithoutTransport
    \/ Worker \/ Terminate \/ TerminateLate
    \/ \E d \in Drainers : Draining(d)
    \/ \E c \in Conns :
          \/ Handler(c)
          \/ Progress(c) \/ Connect(c) \/ ProviderUp(c) \/ Fault(c) \/ BrowserGone(c)
          \/ BrowserStop(c) \/ CommitFails(c) \/ Frame(c) \/ Final(c) \/ EmptyFinal(c)
          \/ InterruptCapture(c) \/ PollRender(c)

Spec == Init /\ [][Next]_vars

\* Threads of the server are scheduled, a drain and the signal handler have a deadline, and
\* so have a call of provider.connect and a turn that the provider owes: the capture loop of
\* the current connection ends up with nothing owed or gives up.  Nothing is assumed of
\* browsers, people or the analyzer.
Deadline(c) ==
    \/ conn[c].pc = "connecting" /\ (ProviderUp(c) \/ Fault(c))
    \/ Progress(c) \/ InterruptCapture(c)

FairSpec ==
    /\ Spec
    /\ \A c \in Conns : WF_vars(Handler(c)) /\ WF_vars(Deadline(c))
    /\ \A d \in Drainers : WF_vars(Draining(d))
    /\ WF_vars(StopWithoutTransport) /\ WF_vars(TerminateLate)

-----------------------------------------------------------------------------
(* What a live meeting promises.                                           *)

\* Every variable keeps its type, and a handler is inside drain() exactly when its pc
\* says so.
TypeOK ==
    /\ home \in 0 .. MaxSessions
    /\ meeting \in [state : Open \cup Over,
                    stt : {"idle", "live", "disconnected", "finalized", "error"},
                    linked : BOOLEAN, done : BOOLEAN, forced : BOOLEAN, gap : BOOLEAN,
                    frames : 0 .. MaxFrames, shown : BOOLEAN]
    /\ manager \in [active : Conns \cup {Nobody}, stop : BOOLEAN, shutting : BOOLEAN,
                    held : BOOLEAN]
    /\ conn \in [Conns -> [pc : {"new", "connecting", "capturing", "failing", "failed",
                                 "interrupting", "giving up", "draining", "halting",
                                 "blocking", "ending", "leaving", "gone"},
                           mine : BOOLEAN, stopping : BOOLEAN]]
    /\ drain \in [Drainers -> {"no", "lost", "astray", "watching", "waiting", "over"}]
    /\ \A c \in Conns : drain[c] # "no" <=> conn[c].pc \in {"draining", "halting",
                                                          "blocking", "ending"}

\* A meeting that reports a clean end has nothing in its queue and shows the last
\* revision of its graph, and goes on doing so (live-audio-prototype-plan.md:849).
EndedMapIsFinal ==
    meeting.state = "ended" => QueueIdle /\ meeting.shown

\* Drains belong to handlers, and a clean end is final.
SessionInv ==
    /\ TypeOK
    /\ EndedMapIsFinal

\* An active meeting never loses its transport or its current capture without a possible
\* gap on record: the interruption is counted before the capture is given up, on every path.
LossIsOnRecord ==
    /\ home' = home /\ meeting.state = "active" /\ meeting'.state = "active"
    /\ \/ meeting.linked /\ ~meeting'.linked
       \/ manager.active # Nobody /\ manager'.active = Nobody
    => meeting'.gap

\* A failed finalization is not forgotten by a drain that comes later: no clean end.
FailureIsNotForgotten ==
    home' = home /\ meeting.forced => meeting'.state # "ended"

\* No step of a meeting passes over a loss or a failure.
LossesStay == [][LossIsOnRecord /\ FailureIsNotForgotten]_vars

\* SIGTERM does not leave a meeting open: while the handler waits or drains, the meeting
\* ends, whatever browser, provider and analyzer do and whoever holds the lock.
TerminationEnds == drain[Signal] # "no" ~> meeting.state \in Over

\* The event loop is never blocked for good by a drain that runs in it.
LoopComesBack == ~LoopRuns ~> LoopRuns

\* A meeting that is finalizing does not stay so.
StopIsNotStuck == meeting.state = "finalizing" ~> meeting.state # "finalizing"
=============================================================================
