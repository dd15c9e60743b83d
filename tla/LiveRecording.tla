--------------------------- MODULE LiveRecording ---------------------------
(***************************************************************************)
(* The private recording of a pilot meeting: PilotAudioRecorder            *)
(* (prototype/pilot_audio.py), what LiveSessionManager does with the       *)
(* recorder it holds (prototype/live_session.py), and the server that      *)
(* flushes it when the process ends (prototype/server.py).  Recording is   *)
(* switched on, and everybody has consented; without that a meeting does   *)
(* not start.  The state written to metadata.json and the purge of old     *)
(* recordings are left out.                                                *)
(*                                                                         *)
(* Every step is one of LiveSession with what it does to the recorder, or  *)
(* one of the manager's own.  manager.drain() takes the lock twice: the    *)
(* session is drained in between, and the second stretch seals whatever    *)
(* recorder the manager holds by then.  Disk faults may hit any write.     *)
(***************************************************************************)
EXTENDS LiveSession

VARIABLES
    pilot,      \* whether the manager holds a recorder, and of the one it holds the frames and
                \* after how many of them a gap was marked last
    sealing     \* who has drained a session and not yet sealed the recording: in a thread, or
                \* inline in the event loop

rvars == <<vars, pilot, sealing>>

Unmarked == -1
NewRecording == [held |-> TRUE, frames |-> 0, mark |-> Unmarked]

RecordingInit ==
    /\ Init
    /\ pilot = [NewRecording EXCEPT !.held = FALSE]
    /\ sealing = [d \in Drainers |-> "no"]

-----------------------------------------------------------------------------
(* The recorder.                                                           *)

\* _close_pilot_recording_locked: the recorder is let go of even when its last flush or its
\* metadata fail.
Closed(p) == [NewRecording EXCEPT !.held = FALSE]

\* Mutated: an interruption is only noted for a recording that has audio.
NotedBug(p) ==
    IF p.held /\ p.frames > 0 THEN [p EXCEPT !.mark = p.frames] ELSE p

\* note_interruption
Noted(p) == IF p.held THEN [p EXCEPT !.mark = p.frames] ELSE p

\* append: only the next frame fits; anything else, or a full disk, ends the recording.
Appended(p, sequence) ==
    {Closed(p)} \cup
    IF p.held /\ p.frames = sequence THEN {[p EXCEPT !.frames = @ + 1]} ELSE {}

\* Every snapshot the manager gives out seals the recording of a meeting that is over.
Decorated(p, m) == IF m.state \in Over THEN Closed(p) ELSE p

Shows(p) == pilot' = Decorated(p, meeting')

-----------------------------------------------------------------------------
(* Requests and threads.                                                   *)

RecordedStart ==
    /\ Start
    /\ pilot' = NewRecording
    /\ UNCHANGED sealing

\* The recording cannot be opened: no meeting, and the one before is closed.
StartRefused ==
    /\ Free /\ ~manager.shutting /\ meeting.state \in Over
    /\ pilot.held /\ pilot' = Closed(pilot)
    /\ UNCHANGED <<vars, sealing>>

\* /api/live, which every page asks for all the time.
Poll ==
    /\ Free /\ pilot.held /\ meeting.state \in Over
    /\ pilot' = Closed(pilot)
    /\ UNCHANGED <<vars, sealing>>

Stop ==
    /\ sealing[Http] = "no"
    /\ \/ RequestStop /\ UNCHANGED sealing
             /\ IF meeting.linked THEN Shows(pilot) ELSE UNCHANGED pilot
       \/ StopWithoutTransport /\ UNCHANGED pilot
             /\ sealing' = IF meeting.state \in Over
                           THEN [sealing EXCEPT ![Http] = "thread"] ELSE sealing

Unrecorded == (Worker \/ Terminate \/ TerminateLate) /\ UNCHANGED <<pilot, sealing>>

\* LiveContinuousSession.drain returns.  With the lock held it was called without the
\* manager's drain around it, and nothing is sealed.
DrainReturns(d) ==
    /\ Draining(d)
    /\ sealing' = IF d = Signal /\ manager.held THEN sealing
                  ELSE IF d \in Conns /\ conn[d].pc \in {"blocking", "halting"}
                  THEN [sealing EXCEPT ![d] = "inline"]
                  ELSE [sealing EXCEPT ![d] = "thread"]
    /\ UNCHANGED pilot

\* The second stretch of manager.drain.
Seal(d) ==
    /\ Free /\ sealing[d] # "no"
    /\ pilot' = Closed(pilot)
    /\ sealing' = [sealing EXCEPT ![d] = "no"]
    /\ UNCHANGED vars

\* Mutated: the process ends without LiveSessionManager.close.
ExitBug == FALSE /\ UNCHANGED rvars

\* The signal handler has returned; main() closes the manager before the process ends.
Exit ==
    /\ Free /\ manager.shutting /\ drain[Signal] = "no" /\ sealing[Signal] = "no"
    /\ pilot.held
    /\ pilot' = Closed(pilot)
    /\ UNCHANGED <<vars, sealing>>

-----------------------------------------------------------------------------
(* The handler of a connection, which waits for the drain it called.       *)

Moves(c) ==
    /\ sealing[c] = "no"
    /\ \A k \in Conns : sealing[k] # "inline"

RecordedFrame(c) ==
    /\ Moves(c) /\ Frame(c)
    /\ pilot' \in Appended(pilot, meeting.frames)
    /\ UNCHANGED sealing

\* record_capture_interruption, from wherever it is called.
Interruption(c) ==
    /\ Moves(c)
    /\ \/ Interrupt_(c) /\ Current(c)
       \/ InterruptCapture(c) /\ Current(c) /\ meeting.state # "finalizing"
       \/ CommitFails(c) /\ meeting.state = "active"
       \/ Leave(c) /\ Current(c) /\ conn[c].pc = "leaving"
             /\ meeting.state = "active" /\ meeting.stt # "disconnected"
    /\ Shows(Noted(pilot))
    /\ UNCHANGED sealing

\* A drain of a meeting that is over returns at once.
EndsCapture(c) ==
    /\ Moves(c)
    /\ \/ FinishStop(c)
       \/ Retire(c)
       \/ BrowserStop(c) /\ ~meeting.linked
    /\ sealing' = IF meeting.state \in Over /\ Current(c) /\ meeting.stt # "disconnected"
                  THEN [sealing EXCEPT ![c] = "thread"] ELSE sealing
    /\ UNCHANGED pilot

\* The other calls of the manager, and what calls none of its methods.
Serves(c) ==
    /\ Moves(c)
    /\ \/ /\ \/ Connect(c) \/ ProviderUp(c) \/ Fail_(c) \/ TakeStop(c) \/ Progress(c)
             \/ Final(c) \/ EmptyFinal(c) \/ PollRender(c)
             \/ BrowserStop(c) /\ meeting.linked
             \/ CommitFails(c) /\ meeting.state # "active"
             \/ Leave(c) /\ Current(c)
                  /\ ~(conn[c].pc = "leaving" /\ meeting.state = "active" /\ meeting.stt # "disconnected")
          /\ Shows(pilot)
       \/ /\ \/ Fault(c) \/ BrowserGone(c)
             \/ Interrupt_(c) /\ ~Current(c)
             \/ InterruptCapture(c) /\ (~Current(c) \/ meeting.state = "finalizing")
             \/ Leave(c) /\ ~Current(c)
          /\ UNCHANGED pilot
    /\ UNCHANGED sealing

RecordingNext ==
    \/ RecordedStart \/ StartRefused \/ Poll \/ Stop \/ Unrecorded \/ Exit
    \/ \E d \in Drainers : DrainReturns(d) \/ Seal(d)
    \/ \E c \in Conns : RecordedFrame(c) \/ Interruption(c) \/ EndsCapture(c) \/ Serves(c)

RecordingSpec == RecordingInit /\ [][RecordingNext]_rvars

\* As in LiveSession; the main thread and a caller of drain() get on too.
HandlerMoves(c) ==
    Handler(c) /\ (Interruption(c) \/ EndsCapture(c) \/ Serves(c))

DeadlineMoves(c) ==
    Deadline(c) /\ (Interruption(c) \/ Serves(c))

FairRecording ==
    /\ RecordingSpec
    /\ \A c \in Conns : WF_rvars(HandlerMoves(c)) /\ WF_rvars(DeadlineMoves(c))
    /\ \A d \in Drainers : WF_rvars(DrainReturns(d)) /\ WF_rvars(Seal(d))
    /\ WF_rvars(StopWithoutTransport /\ Stop) /\ WF_rvars(TerminateLate /\ Unrecorded)
    /\ WF_rvars(Exit)

-----------------------------------------------------------------------------
(* What the recording of a meeting promises.                               *)

\* Every variable keeps its type.
RecordingTypeOK ==
    /\ TypeOK
    /\ pilot \in [held : BOOLEAN, frames : 0 .. MaxFrames, mark : Unmarked .. MaxFrames]
    /\ sealing \in [Drainers -> {"no", "thread", "inline"}]

\* While the manager holds a recorder, the recording has every frame that the meeting has
\* accepted.
RecordsTheMeeting ==
    pilot.held => pilot.frames = meeting.frames

\* A meeting that waits for its browser to come back has the gap marked in its recording,
\* at the frame after which it was lost.
GapIsMarked ==
    pilot.held /\ meeting.state = "active" /\ meeting.stt = "disconnected"
        => pilot.mark = meeting.frames

RecordingInv ==
    /\ RecordingTypeOK
    /\ RecordsTheMeeting
    /\ GapIsMarked

\* While the process is told to end, the meeting ends and its recording is closed, whatever
\* browser, provider and analyzer do and whoever holds the lock.
TerminationSeals ==
    /\ TerminationEnds
    /\ manager.shutting ~> ~pilot.held
=============================================================================
