------------------------- MODULE LiveSessionProofs -------------------------
(***************************************************************************)
(* The safety properties of live meetings and of their recordings, for any *)
(* number of browser connections, meetings, frames and utterances: their   *)
(* inductive invariants and the steps that preserve them.                  *)
(***************************************************************************)
EXTENDS LiveRecording, TLAPS

Meetings == [state : Open \cup Over,
             stt : {"idle", "live", "disconnected", "finalized", "error"},
             linked : BOOLEAN, done : BOOLEAN, forced : BOOLEAN, gap : BOOLEAN,
             frames : 0 .. MaxFrames, shown : BOOLEAN]
Managers == [active : Conns \cup {Nobody}, stop : BOOLEAN, shutting : BOOLEAN, held : BOOLEAN]
Pcs == {"new", "connecting", "capturing", "failing", "failed", "interrupting", "giving up",
        "draining", "halting", "blocking", "ending", "leaving", "gone"}
Handlers == [pc : Pcs, mine : BOOLEAN, stopping : BOOLEAN]
Waits == {"no", "lost", "astray", "watching", "waiting", "over"}
Inside == {"draining", "halting", "blocking", "ending"}

\* A meeting that was given up never counts as a clean end, one that waits for its browser
\* has its gap on record, and one that ended shows its last map.
Sound(m) ==
    /\ m \in Meetings
    /\ m.forced => m.state # "ended"
    /\ m.state = "active" /\ m.stt = "disconnected" => m.gap
    /\ m.state = "ended" => m.shown

\* What a method of the session may do of a meeting: it ends none, it forgets neither a
\* failure nor what it counted, and it loses no transport of an active one unrecorded.
Careful(m, n) ==
    /\ Sound(n)
    /\ n.state = "ended" => m.state = "ended"
    /\ m.forced => n.forced
    /\ m.state = "active" /\ n.state = "active" /\ m.linked /\ ~n.linked => n.gap

LEMMA Numbers ==
    /\ Conns \subseteq Nat \ {0} /\ Http \notin Conns /\ Signal \notin Conns /\ Nobody \notin Conns
    /\ Http # Signal /\ Http \in Drainers /\ Signal \in Drainers /\ Conns \subseteq Drainers
    /\ MaxFrames \in Nat /\ MaxSessions \in Nat
BY LiveSessionAssumption DEF Conns, Http, Signal, Nobody, Drainers

LEMMA FinalCalls ==
    ASSUME NEW m, Sound(m)
    PROVE  /\ Careful(m, Finalized(m)) /\ Finalized(m).state = m.state
           /\ Careful(m, Lost(m)) /\ Lost(m).state = m.state
<1>1. Careful(m, Finalized(m)) /\ Finalized(m).state = m.state
    BY DEF Finalized, Careful, Sound, Meetings, Open, Over
<1>2. CASE m.state # "finalizing"
    BY <1>1, <1>2 DEF Lost, Careful, Sound, Meetings
<1>3. CASE m.state = "finalizing"
    BY <1>1, <1>3 DEF Lost, Careful, Sound, Meetings, Open, Over
<1> QED BY <1>2, <1>3

LEMMA Methods ==
    ASSUME NEW m, Sound(m)
    PROVE  /\ Careful(m, m) /\ Careful(m, Connected(m)) /\ Careful(m, Activated(m))
           /\ Careful(m, Stopped(m)) /\ Careful(m, Finalized(m)) /\ Careful(m, Failed(m))
           /\ Careful(m, Interrupted(m)) /\ Careful(m, Rendered(m))
           /\ Careful(m, Finalized(Stopped(m))) /\ Careful(m, WithoutTransport(Stopped(m)))
<1>1. Careful(m, m) /\ Careful(m, Connected(m)) /\ Careful(m, Rendered(m))
    BY DEF Connected, Rendered, Careful, Sound, Meetings, Open, Over
<1>2. Careful(m, Activated(m))
    BY DEF Activated, Careful, Sound, Meetings, Open, Over
<1>3. Careful(m, Stopped(m)) /\ Stopped(m).state # "active"
    BY DEF Stopped, Careful, Sound, Meetings, Open, Over
<1>4. Careful(m, Failed(m))
    BY DEF Failed, Careful, Sound, Meetings, Open, Over
<1>5. Careful(m, Interrupted(m))
    <2>1. CASE m.state \notin {"starting", "active"}
        BY <1>1, <2>1 DEF Interrupted
    <2>2. CASE m.state \in {"starting", "active"}
        <3>1. PICK b \in BOOLEAN : b = (m.gap \/ m.state = "active")
            OBVIOUS
        <3>2. Interrupted(m) = [m EXCEPT !.gap = b, !.linked = FALSE, !.stt = "disconnected"]
            BY <2>2, <3>1 DEF Interrupted, Sound, Meetings
        <3>3. Interrupted(m) \in Meetings
            BY <3>2 DEF Sound, Meetings
        <3>4. /\ Interrupted(m).state = m.state /\ Interrupted(m).gap = b
              /\ Interrupted(m).forced = m.forced /\ Interrupted(m).shown = m.shown
            BY <3>2 DEF Sound, Meetings
        <3> QED BY <2>2, <3>1, <3>3, <3>4 DEF Careful, Sound
    <2> QED BY <2>1, <2>2
<1>6. ASSUME NEW n, Careful(Stopped(m), n), n.state = Stopped(m).state PROVE Careful(m, n)
    BY <1>3, <1>6 DEF Careful
<1>7. Sound(Stopped(m))
    BY <1>3 DEF Careful
<1>8. Careful(m, Finalized(Stopped(m))) /\ Careful(m, Lost(Stopped(m)))
    BY <1>6, <1>7, FinalCalls
<1> QED BY <1>1, <1>2, <1>3, <1>4, <1>5, <1>8, FinalCalls DEF WithoutTransport

\* What the current capture's handler does at its end.
LEMMA Leaving ==
    ASSUME NEW m, Sound(m)
    PROVE  /\ m.state = "finalizing" => Careful(m, Unlinked(Lost(m)))
           /\ m.state = "active" /\ m.stt # "disconnected" => Careful(m, Unlinked(Interrupted(m)))
           /\ m.state # "finalizing" /\ ~(m.state = "active" /\ m.stt # "disconnected") =>
                  Careful(m, Unlinked(m))
<1>1. ASSUME NEW n, Sound(n), n.state = "active" => n.gap
      PROVE  Careful(n, Unlinked(n))
    <2>1. PICK d : d = IF n.state \in {"starting", "active"} THEN "disconnected" ELSE n.stt
        OBVIOUS
    <2>2. Unlinked(n) = [n EXCEPT !.linked = FALSE, !.stt = d]
        BY <1>1, <2>1 DEF Unlinked, Sound, Meetings
    <2>3. Unlinked(n) \in Meetings
        BY <1>1, <2>1, <2>2 DEF Sound, Meetings
    <2>4. /\ Unlinked(n).state = n.state /\ Unlinked(n).gap = n.gap
          /\ Unlinked(n).forced = n.forced /\ Unlinked(n).shown = n.shown
        BY <1>1, <2>2 DEF Sound, Meetings
    <2> QED BY <1>1, <2>3, <2>4 DEF Careful, Sound
<1>2. CASE m.state = "finalizing"
    <2>1. Sound(Lost(m)) /\ Lost(m).state = "finalizing" /\ Careful(m, Lost(m))
        BY <1>2, FinalCalls DEF Careful
    <2>2. Careful(Lost(m), Unlinked(Lost(m)))
        BY <1>1, <2>1
    <2> QED BY <1>2, <2>1, <2>2 DEF Careful
<1>3. CASE m.state = "active" /\ m.stt # "disconnected"
    <2>1. Sound(Interrupted(m)) /\ Careful(m, Interrupted(m))
        BY Methods DEF Careful
    <2>2. Interrupted(m).state = "active" /\ Interrupted(m).gap
        BY <1>3 DEF Interrupted, Sound, Meetings
    <2>3. Careful(Interrupted(m), Unlinked(Interrupted(m)))
        BY <1>1, <2>1, <2>2
    <2>4. Unlinked(Interrupted(m)).gap
        BY <2>2 DEF Unlinked
    <2> QED BY <1>3, <2>1, <2>2, <2>3, <2>4 DEF Careful
<1>4. CASE m.state # "finalizing" /\ ~(m.state = "active" /\ m.stt # "disconnected")
    BY <1>1, <1>4 DEF Sound
<1> QED BY <1>2, <1>3, <1>4

-----------------------------------------------------------------------------
(* Handlers and drains.                                                    *)

Handled ==
    /\ home \in 0 .. MaxSessions
    /\ manager \in Managers
    /\ conn \in [Conns -> Handlers]
    /\ drain \in [Drainers -> Waits]
    /\ \A c \in Conns : drain[c] # "no" <=> conn[c].pc \in Inside

\* One handler moves, and is inside drain() afterwards exactly when its drain says so.
HandlerMoved(c, h, w) ==
    /\ conn' = [conn EXCEPT ![c] = h]
    /\ drain' = [drain EXCEPT ![c] = w]
    /\ h \in Handlers /\ w \in Waits
    /\ w # "no" <=> h.pc \in Inside

LEMMA OneHandler ==
    ASSUME Handled, NEW c \in Conns, NEW h, NEW w, HandlerMoved(c, h, w),
           home' \in 0 .. MaxSessions, manager' \in Managers
    PROVE  Handled'
<1>1. c \in Drainers
    BY Numbers
<1> QED BY <1>1 DEF Handled, HandlerMoved

\* One caller that is no handler begins, changes or ends its drain.
LEMMA OneCaller ==
    ASSUME Handled, NEW d \in {Http, Signal}, NEW w \in Waits,
           drain' = [drain EXCEPT ![d] = w], UNCHANGED <<home, conn>>, manager' \in Managers
    PROVE  Handled'
<1>1. d \in Drainers /\ d \notin Conns
    BY Numbers
<1> QED BY <1>1 DEF Handled

LEMMA Going ==
    ASSUME Handled, NEW c \in Conns, NEW pc \in Pcs, Goes(c, pc), UNCHANGED drain,
           conn[c].pc \notin Inside, pc \notin Inside
    PROVE  HandlerMoved(c, [NewConn EXCEPT !.pc = pc], "no")
<1>1. drain[c] = "no" /\ drain = [drain EXCEPT ![c] = "no"]
    BY DEF Handled
<1> QED BY <1>1 DEF Goes, HandlerMoved, Handlers, NewConn, Waits

LEMMA GoingIn ==
    ASSUME Handled, NEW c \in Conns, NEW pc \in Inside, Goes(c, pc),
           drain' = [drain EXCEPT ![c] = "waiting"]
    PROVE  HandlerMoved(c, [NewConn EXCEPT !.pc = pc], "waiting")
BY DEF Goes, HandlerMoved, Handlers, NewConn, Waits, Inside, Pcs

LEMMA NoneMoves ==
    ASSUME Handled, UNCHANGED <<home, conn, drain>>, manager' \in Managers
    PROVE  Handled'
BY DEF Handled

LEMMA StartHandled ==
    ASSUME Handled, Start
    PROVE  Handled'
<1> USE Numbers
<1>1. home' \in 0 .. MaxSessions
    BY DEF Handled, Start
<1>4. manager' \in Managers
    BY DEF Handled, Start, Managers
<1>2. conn' \in [Conns -> Handlers] /\ \A c \in Conns : conn'[c].pc = conn[c].pc
    BY DEF Handled, Start, Handlers
<1>3. drain' \in [Drainers -> Waits] /\ \A d \in Drainers : drain'[d] = "no" <=> drain[d] = "no"
    BY DEF Handled, Start, Waits
<1> QED BY <1>1, <1>2, <1>3, <1>4 DEF Handled

LEMMA ReturnsHandled ==
    ASSUME Handled, NEW d \in Drainers, drain[d] \in {"waiting", "over"}, Returns(d), UNCHANGED home
    PROVE  Handled'
<1>1. manager' \in Managers
    BY DEF Handled, Returns, Managers
<1>2. CASE d \notin Conns
    BY <1>1, <1>2 DEF Handled, Returns, Waits
<1>3. CASE d \in Conns
    <2>1. conn[d].pc \in Inside /\ conn[d] \in Handlers
        BY <1>3 DEF Handled
    <2>2. PICK pc \in {"capturing", "leaving", "gone"} : conn' = [conn EXCEPT ![d].pc = pc]
        BY <1>3, <2>1 DEF Returns, Handled
    <2>3. HandlerMoved(d, [conn[d] EXCEPT !.pc = pc], "no")
        BY <2>1, <2>2 DEF HandlerMoved, Returns, Handlers, Waits, Pcs, Inside
    <2> QED BY <1>1, <1>3, <2>3, OneHandler DEF Handled
<1> QED BY <1>2, <1>3

\* A handler's step that neither enters nor leaves drain().
LEMMA Staying ==
    ASSUME Handled, NEW c \in Conns, NEW h \in Handlers, conn' = [conn EXCEPT ![c] = h],
           UNCHANGED <<home, drain>>, manager' \in Managers,
           conn[c].pc \notin Inside, h.pc \notin Inside
    PROVE  Handled'
<1>1. drain[c] = "no" /\ drain = [drain EXCEPT ![c] = "no"]
    BY DEF Handled
<1>2. HandlerMoved(c, h, "no")
    BY <1>1 DEF HandlerMoved, Waits
<1> QED BY <1>2, OneHandler DEF Handled

LEMMA DrainingHandled ==
    ASSUME Handled, NEW c \in Conns, conn[c].pc = "capturing", GoesDraining(c),
           UNCHANGED <<home, manager>>
    PROVE  Handled'
<1>1. conn[c].pc \notin Inside
    BY DEF Inside
<1>2. CASE meeting.state \in Over
    <2>1. Goes(c, "leaving") /\ UNCHANGED drain
        BY <1>2 DEF GoesDraining
    <2>2. HandlerMoved(c, [NewConn EXCEPT !.pc = "leaving"], "no")
        BY <1>1, <2>1, Going DEF Pcs, Inside
    <2> QED BY <2>2, OneHandler DEF Handled
<1>3. CASE meeting.state \notin Over
    <2>1. Goes(c, "draining") /\ drain' = [drain EXCEPT ![c] = "waiting"]
        BY <1>3 DEF GoesDraining
    <2>2. HandlerMoved(c, [NewConn EXCEPT !.pc = "draining"], "waiting")
        BY <2>1, GoingIn DEF Inside
    <2> QED BY <2>2, OneHandler DEF Handled
<1> QED BY <1>2, <1>3

\* The requests, the signal handler and the analyzer's worker.
LEMMA CallersHandled ==
    ASSUME Handled, RequestStop \/ StopWithoutTransport \/ Worker \/ Terminate \/ TerminateLate,
           meeting \in Meetings
    PROVE  Handled'
<1> USE DEF Waits
<1>1. CASE RequestStop
    BY <1>1, OneCaller DEF RequestStop, Handled, Managers, Meetings
<1>2. CASE StopWithoutTransport
    BY <1>2, OneCaller DEF StopWithoutTransport, Handled
<1>3. CASE Worker
    BY <1>3, NoneMoves DEF Worker, Handled
<1>4. CASE Terminate
    <2> DEFINE open == home > 0 /\ meeting.state \in Open
               alone == open /\ meeting.state = "starting" /\ meeting.stt = "idle"
    <2>1. drain' = [drain EXCEPT ![Signal] =
                        IF alone THEN "waiting" ELSE IF open THEN "watching" ELSE "no"]
        BY <1>4 DEF Terminate
    <2>2. manager' \in Managers
        BY <1>4 DEF Terminate, Handled, Managers
    <2>3. UNCHANGED <<home, conn>>
        BY <1>4 DEF Terminate
    <2> QED BY <2>1, <2>2, <2>3, OneCaller
<1>5. CASE TerminateLate
    BY <1>5, OneCaller DEF TerminateLate, Handled
<1> QED BY <1>1, <1>2, <1>3, <1>4, <1>5

\* The handler outside its capture loop.
LEMMA ServingHandled ==
    ASSUME Handled, NEW c \in Conns,
           Connect(c) \/ ProviderUp(c) \/ Fault(c) \/ Fail_(c) \/ Interrupt_(c) \/ BrowserGone(c)
    PROVE  Handled'
<1>1. manager \in Managers /\ home \in 0 .. MaxSessions /\ conn[c] \in Handlers
    BY DEF Handled
<1>2. ASSUME NEW pc \in Pcs, pc \notin Inside, conn[c].pc \notin Inside, Goes(c, pc),
             UNCHANGED <<home, drain>>, manager' \in Managers
      PROVE  Handled'
    BY <1>1, <1>2, Going, OneHandler
<1>3. ASSUME NEW pc \in Inside, Goes(c, pc), drain' = [drain EXCEPT ![c] = "waiting"],
             UNCHANGED <<home, manager>>
      PROVE  Handled'
    BY <1>1, <1>3, GoingIn, OneHandler
<1> USE DEF Pcs, Inside
<1>4. CASE Connect(c)
    <2>1. conn[c].pc \notin Inside /\ UNCHANGED <<home, drain>>
        BY <1>4 DEF Connect
    <2>2. CASE meeting.state \in Open
        <3>1. manager' \in Managers
            BY <1>1, <1>4, <2>2 DEF Connect, Managers
        <3>2. conn' = [conn EXCEPT ![c] = [conn[c] EXCEPT !.pc = "connecting", !.mine = TRUE]]
            BY <1>4, <2>2 DEF Connect
        <3>3. [conn[c] EXCEPT !.pc = "connecting", !.mine = TRUE] \in Handlers
            BY <1>1 DEF Handlers
        <3> QED BY <1>1, <2>1, <3>1, <3>2, <3>3, Staying DEF Handlers
    <2>3. CASE meeting.state \notin Open
        BY <1>1, <1>2, <1>4, <2>1, <2>3 DEF Connect
    <2> QED BY <2>2, <2>3
<1>5. CASE ProviderUp(c)
    <2>1. conn[c].pc \notin Inside /\ UNCHANGED <<home, manager, drain>>
        BY <1>5 DEF ProviderUp
    <2>2. CASE meeting.state \in Open /\ Current(c)
        <3>1. conn' = [conn EXCEPT ![c] = [conn[c] EXCEPT !.pc = "capturing"]]
            BY <1>5, <2>2 DEF ProviderUp
        <3> QED BY <1>1, <2>1, <3>1, Staying DEF Handlers
    <2>3. CASE ~(meeting.state \in Open /\ Current(c))
        BY <1>1, <1>2, <1>5, <2>1, <2>3 DEF ProviderUp
    <2> QED BY <2>2, <2>3
<1>6. CASE Fault(c)
    BY <1>1, <1>2, <1>6 DEF Fault
<1>7. CASE Fail_(c)
    BY <1>1, <1>2, <1>3, <1>7 DEF Fail_
<1>8. CASE Interrupt_(c)
    BY <1>1, <1>2, <1>8 DEF Interrupt_
<1>9. CASE BrowserGone(c)
    BY <1>1, <1>2, <1>9 DEF BrowserGone
<1> QED BY <1>4, <1>5, <1>6, <1>7, <1>8, <1>9

LEMMA LeaveHandled ==
    ASSUME Handled, NEW c \in Conns, Leave(c)
    PROVE  Handled'
<1> USE DEF Pcs, Inside
<1>1. manager' \in Managers /\ home' \in 0 .. MaxSessions /\ conn[c].pc \notin Inside
    BY Numbers DEF Handled, Leave, Managers
<1>2. \/ Goes(c, "gone") /\ UNCHANGED drain
      \/ \E pc \in Inside : Goes(c, pc) /\ drain' = [drain EXCEPT ![c] = "waiting"]
    BY DEF Leave
<1>3. CASE Goes(c, "gone") /\ UNCHANGED drain
    BY <1>1, <1>3, Going, OneHandler
<1>4. ASSUME NEW pc \in Inside, Goes(c, pc), drain' = [drain EXCEPT ![c] = "waiting"]
      PROVE  Handled'
    BY <1>1, <1>4, GoingIn, OneHandler
<1> QED BY <1>2, <1>3, <1>4

\* The capture loop.
LEMMA CapturingHandled ==
    ASSUME Handled, NEW c \in Conns, meeting \in Meetings,
           \/ Retire(c) \/ TakeStop(c) \/ BrowserStop(c) \/ CommitFails(c) \/ Progress(c)
           \/ FinishStop(c) \/ Frame(c) \/ Final(c) \/ EmptyFinal(c) \/ PollRender(c)
           \/ InterruptCapture(c)
    PROVE  Handled'
<1> USE DEF Pcs, Inside
<1>1. manager \in Managers /\ home \in 0 .. MaxSessions /\ conn[c] \in Handlers
    BY DEF Handled
<1>2. conn[c].pc = "capturing"
    BY DEF Retire, TakeStop, BrowserStop, CommitFails, Progress, FinishStop, Frame, Final,
           EmptyFinal, PollRender, InterruptCapture, Capturing
<1>3. ASSUME NEW pc \in Pcs, pc \notin Inside, Goes(c, pc), UNCHANGED <<home, drain, manager>>
      PROVE  Handled'
    BY <1>1, <1>2, <1>3, Going, OneHandler
<1>4. CASE Retire(c)
    BY <1>2, <1>3, <1>4, DrainingHandled DEF Retire
<1>5. CASE FinishStop(c)
    BY <1>2, <1>5, DrainingHandled DEF FinishStop
<1>6. CASE InterruptCapture(c)
    BY <1>3, <1>6 DEF InterruptCapture
<1>7. CASE CommitFails(c) \/ Progress(c) \/ Frame(c) \/ Final(c) \/ EmptyFinal(c) \/ PollRender(c)
    BY <1>1, <1>7, NoneMoves
       DEF CommitFails, Progress, Frame, Final, EmptyFinal, PollRender
<1> DEFINE stops == [conn[c] EXCEPT !.stopping = TRUE]
           halts == [conn[c] EXCEPT !.stopping = TRUE, !.pc = "halting"]
<1>8. stops \in Handlers /\ halts \in Handlers /\ stops.pc = "capturing" /\ halts.pc = "halting"
    BY <1>1, <1>2 DEF Handlers
<1>9. CASE TakeStop(c)
    <2>1. manager' \in Managers /\ UNCHANGED <<home, drain>>
        BY <1>1, <1>9 DEF TakeStop, Managers
    <2>2. conn' = [conn EXCEPT ![c] = stops]
        BY <1>9 DEF TakeStop
    <2> QED BY <1>2, <1>8, <2>1, <2>2, Staying
<1>10. CASE BrowserStop(c)
    <2>1. manager' \in Managers /\ UNCHANGED home
        BY <1>1, <1>10 DEF BrowserStop, Managers, Meetings
    <2>2. CASE meeting.linked
        <3>1. conn' = [conn EXCEPT ![c] = stops] /\ UNCHANGED drain
            BY <1>10, <2>2 DEF BrowserStop
        <3> QED BY <1>2, <1>8, <2>1, <3>1, Staying
    <2>3. CASE ~meeting.linked /\ meeting.state \in Over
        <3>1. conn' = [conn EXCEPT ![c] = stops] /\ drain' = [drain EXCEPT ![c] = "no"]
            BY <1>2, <1>10, <2>3 DEF BrowserStop
        <3>2. HandlerMoved(c, stops, "no")
            BY <1>8, <3>1 DEF HandlerMoved, Waits
        <3> QED BY <1>1, <2>1, <3>2, OneHandler
    <2>4. CASE ~meeting.linked /\ meeting.state \notin Over
        <3>1. conn' = [conn EXCEPT ![c] = halts] /\ drain' = [drain EXCEPT ![c] = "waiting"]
            BY <1>2, <1>10, <2>4 DEF BrowserStop
        <3>2. HandlerMoved(c, halts, "waiting")
            BY <1>8, <3>1 DEF HandlerMoved, Waits
        <3> QED BY <1>1, <2>1, <3>2, OneHandler
    <2> QED BY <2>2, <2>3, <2>4
<1> QED BY <1>4, <1>5, <1>6, <1>7, <1>9, <1>10

\* Every step keeps what handlers and drains know of each other.
LEMMA StepHandled ==
    ASSUME Handled, meeting \in Meetings, Next
    PROVE  Handled'
<1>1. CASE \E d \in Drainers : Draining(d)
    <2>1. PICK d \in Drainers : Draining(d)
        BY <1>1
    <2> QED BY <2>1, ReturnsHandled DEF Draining, DrainDone, DrainTimeout, DrainForgotten
<1>2. ASSUME NEW c \in Conns, Handler(c) \/ Progress(c) \/ Connect(c) \/ ProviderUp(c)
             \/ Fault(c) \/ BrowserGone(c) \/ BrowserStop(c) \/ CommitFails(c) \/ Frame(c)
             \/ Final(c) \/ EmptyFinal(c) \/ InterruptCapture(c) \/ PollRender(c)
      PROVE  Handled'
    BY <1>2, ServingHandled, LeaveHandled, CapturingHandled DEF Handler
<1> QED BY <1>1, <1>2, StartHandled, CallersHandled DEF Next

-----------------------------------------------------------------------------
(* The meeting.                                                            *)

\* The inductive invariant: SessionInv, with what each meeting keeps on record.
SessionInd ==
    /\ Handled
    /\ Sound(meeting)
    /\ EndedMapIsFinal

LEMMA SessionIndIsInv == ASSUME SessionInd PROVE SessionInv
BY DEF SessionInd, SessionInv, TypeOK, Handled, Sound, Meetings, Managers, Handlers, Pcs, Waits,
       Inside

\* What a step keeps of the meeting, whether it is the same or the next one.
KeepsMeeting ==
    /\ Sound(meeting)'
    /\ EndedMapIsFinal'
    /\ LossIsOnRecord
    /\ FailureIsNotForgotten

\* The queue is left alone, or has work to do and the meeting does not end.
Unsettled == UNCHANGED queue \/ (meeting.state # "ended" /\ meeting'.state # "ended")

\* A step that treats the meeting with care and lets no capture of an active one go.
LEMMA CarefulStep ==
    ASSUME SessionInd, Careful(meeting, meeting'), Unsettled,
           manager.active # Nobody => manager'.active # Nobody
    PROVE  KeepsMeeting
<1>1. Sound(meeting') /\ (meeting'.state = "ended" => meeting.state = "ended")
    BY DEF Careful
<1>2. EndedMapIsFinal'
    <2>1. CASE UNCHANGED queue
        <3>1. QueueIdle => QueueIdle'
            BY <2>1 DEF queue, QueueIdle
        <3>2. meeting'.state = "ended" => meeting'.shown
            BY <1>1 DEF Sound
        <3> QED BY <1>1, <3>1, <3>2 DEF EndedMapIsFinal, SessionInd
    <2>2. CASE meeting'.state # "ended"
        BY <2>2 DEF EndedMapIsFinal
    <2> QED BY <2>1, <2>2 DEF Unsettled
<1>3. LossIsOnRecord
    BY DEF LossIsOnRecord, Careful
<1>4. FailureIsNotForgotten
    BY DEF FailureIsNotForgotten, Careful, Sound
<1> QED BY <1>1, <1>2, <1>3, <1>4 DEF KeepsMeeting

LEMMA StartKeeps ==
    ASSUME SessionInd, Start
    PROVE  KeepsMeeting
<1>1. home' # home
    BY DEF Start, SessionInd, Handled
<1>2. meeting' = NewMeeting
    BY DEF Start
<1>3. Sound(meeting')
    BY <1>2, Numbers DEF Sound, NewMeeting, Meetings, Open
<1> QED BY <1>1, <1>2, <1>3
        DEF KeepsMeeting, EndedMapIsFinal, LossIsOnRecord, FailureIsNotForgotten, NewMeeting

\* The drain gives a clean end only to a meeting that was not given up, with an idle queue.
LEMMA DrainKeeps ==
    ASSUME SessionInd, NEW d \in Drainers, Draining(d)
    PROVE  KeepsMeeting
<1>1. manager'.active = manager.active
    BY DEF Draining, DrainDone, DrainTimeout, DrainForgotten, Returns, SessionInd, Handled, Managers
<1>2. UNCHANGED queue
    BY DEF Draining, DrainDone, DrainTimeout, DrainForgotten, QueueStays
<1>3. CASE DrainForgotten(d)
    <2>1. meeting' = meeting
        BY <1>3 DEF DrainForgotten
    <2> QED BY <1>1, <1>2, <2>1, CarefulStep, Methods DEF SessionInd, Unsettled
<1>4. CASE DrainTimeout(d)
    <2>1. Sound(meeting') /\ meeting'.state = "incomplete"
        BY <1>4 DEF DrainTimeout, SessionInd, Sound, Meetings, Rendered, Over, Open
    <2> QED BY <2>1 DEF KeepsMeeting, EndedMapIsFinal, LossIsOnRecord, FailureIsNotForgotten
<1>5. CASE DrainDone(d)
    <2>1. /\ Sound(meeting') /\ meeting'.state \in Over
          /\ meeting.forced => meeting'.state # "ended"
        BY <1>5 DEF DrainDone, SessionInd, Sound, Meetings, Rendered, Over, Open
    <2>2. QueueIdle' /\ meeting'.shown
        <3>1. QueueIdle
            BY <1>5 DEF DrainDone, Settled
        <3>2. meeting'.shown
            BY <1>5 DEF DrainDone, SessionInd, Sound, Meetings, Rendered
        <3> QED BY <1>2, <3>1, <3>2 DEF QueueIdle, queue
    <2>3. meeting'.state # "active"
        BY <2>1 DEF Over
    <2> QED BY <2>1, <2>2, <2>3 DEF KeepsMeeting, EndedMapIsFinal, LossIsOnRecord, FailureIsNotForgotten
<1> QED BY <1>3, <1>4, <1>5 DEF Draining

\* The analyzer settles an item: the map is dirty, and the meeting cannot have ended.
LEMMA WorkerKeeps ==
    ASSUME SessionInd, Worker
    PROVE  KeepsMeeting
<1>1. ~QueueIdle
    BY DEF Worker, Fail, Complete, QueueIdle
<1>2. meeting.state # "ended"
    BY <1>1 DEF SessionInd, EndedMapIsFinal
<1>3. meeting' = Dirty(meeting, authors' # authors) /\ UNCHANGED manager
    BY DEF Worker
<1>4. Careful(meeting, meeting')
    BY <1>2, <1>3 DEF Dirty, Careful, SessionInd, Sound, Meetings
<1>5. meeting'.state # "ended"
    BY <1>2, <1>4 DEF Careful
<1> QED BY <1>2, <1>3, <1>4, <1>5, CarefulStep DEF Unsettled

LEMMA RequestsKeep ==
    ASSUME SessionInd, RequestStop \/ StopWithoutTransport \/ Terminate \/ TerminateLate
    PROVE  KeepsMeeting
<1>1. Careful(meeting, meeting')
    BY Methods DEF RequestStop, StopWithoutTransport, Terminate, TerminateLate, SessionInd
<1>2. UNCHANGED queue /\ manager'.active = manager.active
    BY DEF RequestStop, StopWithoutTransport, Terminate, TerminateLate, QueueStays, SessionInd,
           Handled, Managers
<1> QED BY <1>1, <1>2, CarefulStep DEF Unsettled

LEMMA ServingKeeps ==
    ASSUME SessionInd, NEW c \in Conns,
           Connect(c) \/ ProviderUp(c) \/ Fault(c) \/ Fail_(c) \/ Interrupt_(c) \/ BrowserGone(c)
    PROVE  KeepsMeeting
<1>1. Careful(meeting, meeting')
    BY Methods DEF Connect, ProviderUp, Fault, Fail_, Interrupt_, BrowserGone, SessionInd
<1>2. UNCHANGED queue /\ (manager.active # Nobody => manager'.active # Nobody)
    BY Numbers DEF Connect, ProviderUp, Fault, Fail_, Interrupt_, BrowserGone, QueueStays, SessionInd,
           Handled, Managers
<1> QED BY <1>1, <1>2, CarefulStep DEF Unsettled

LEMMA LeaveKeeps ==
    ASSUME SessionInd, NEW c \in Conns, Leave(c)
    PROVE  KeepsMeeting
<1>1. UNCHANGED queue
    BY DEF Leave, QueueStays
<1>2. CASE UNCHANGED <<meeting, manager>>
    BY <1>1, <1>2, CarefulStep, Methods DEF Unsettled, SessionInd
<1>3. CASE meeting' = Stopped(meeting) /\ UNCHANGED manager
    BY <1>1, <1>3, CarefulStep, Methods DEF Unsettled, SessionInd
<1>4. CASE meeting' = IF meeting.state = "finalizing" THEN Unlinked(Lost(meeting))
                      ELSE IF meeting.state = "active" /\ meeting.stt # "disconnected"
                           THEN Unlinked(Interrupted(meeting))
                      ELSE Unlinked(meeting)
    <2>1. Sound(meeting)
        BY DEF SessionInd
    <2>2. Careful(meeting, meeting')
        BY <1>4, <2>1, Leaving
    <2>3. meeting.state = "active" => meeting'.gap
        BY <1>4, <2>1 DEF Unlinked, Interrupted, Sound, Meetings
    <2>4. EndedMapIsFinal'
        <3>1. QueueIdle => QueueIdle'
            BY <1>1 DEF queue, QueueIdle
        <3> QED BY <2>2, <3>1 DEF EndedMapIsFinal, SessionInd, Careful, Sound
    <2>5. LossIsOnRecord /\ FailureIsNotForgotten
        BY <2>2, <2>3 DEF LossIsOnRecord, FailureIsNotForgotten, Careful, Sound
    <2> QED BY <2>2, <2>4, <2>5 DEF KeepsMeeting, Careful
<1> QED BY <1>2, <1>3, <1>4 DEF Leave

\* One more frame, or the end of an utterance, of a meeting that is open.
LEMMA Hearing ==
    ASSUME NEW m, Sound(m)
    PROVE  /\ m.state = "active" /\ m.frames < MaxFrames =>
                  Careful(m, [m EXCEPT !.frames = @ + 1, !.stt = "live"])
           /\ Careful(m, [m EXCEPT !.stt = "live"])
           /\ Careful(m, [m EXCEPT !.gap = TRUE])
           /\ Careful(m, Finalized([m EXCEPT !.stt = "live"]))
           /\ Careful(m, Finalized([m EXCEPT !.gap = TRUE]))
           /\ Careful(m, Finalized(Failed(m)))
<1>1. m.state = "active" /\ m.frames < MaxFrames =>
          Careful(m, [m EXCEPT !.frames = @ + 1, !.stt = "live"])
    <2>1. m.frames \in 0 .. MaxFrames /\ MaxFrames \in Nat
        BY Numbers DEF Sound, Meetings
    <2>2. m.frames < MaxFrames => m.frames + 1 \in 0 .. MaxFrames
        BY <2>1
    <2> QED BY <2>2 DEF Careful, Sound, Meetings
<1>2. ASSUME NEW n, Careful(m, n), n.state = "active" => n.linked = m.linked
      PROVE  Careful(m, Finalized(n))
    <2>1. Careful(n, Finalized(n)) /\ Finalized(n).state = n.state
        BY <1>2, FinalCalls DEF Careful
    <2>2. Finalized(n).linked = n.linked /\ Finalized(n).gap = n.gap
        BY <1>2 DEF Finalized, Careful, Sound, Meetings
    <2> QED BY <1>2, <2>1, <2>2 DEF Careful
<1> DEFINE heard == [m EXCEPT !.stt = "live"]
           short == [m EXCEPT !.gap = TRUE]
<1>3. /\ Careful(m, heard) /\ heard.linked = m.linked
      /\ Careful(m, short) /\ short.linked = m.linked
    BY DEF Careful, Sound, Meetings
<1>4. Careful(m, Failed(m)) /\ Failed(m).state = "finalizing"
    BY Methods DEF Failed, Sound, Meetings
<1> QED BY <1>1, <1>2, <1>3, <1>4

LEMMA FinalKeeps ==
    ASSUME SessionInd, NEW c \in Conns, Final(c)
    PROVE  KeepsMeeting
<1>1. PICK m \in {[meeting EXCEPT !.stt = "live"], Failed(meeting)} :
          /\ IF m.stt = "live" THEN \E n \in Items : HandOver(n) ELSE QueueStays
          /\ IF conn[c].stopping THEN Stopping(m) ELSE meeting' = m
    BY DEF Final
<1>2. meeting' = m \/ meeting' = Finalized(m)
    BY <1>1 DEF Stopping
<1>3. Careful(meeting, meeting')
    <2>1. Sound(meeting)
        BY DEF SessionInd
    <2>2. CASE m = [meeting EXCEPT !.stt = "live"]
        BY <1>2, <2>1, <2>2, Hearing
    <2>3. CASE m = Failed(meeting)
        BY <1>2, <2>1, <2>3, Hearing, Methods
    <2> QED BY <2>2, <2>3
<1>4. meeting.state # "ended" /\ UNCHANGED manager
    BY DEF Final
<1> QED BY <1>3, <1>4, CarefulStep DEF Unsettled, Careful

LEMMA CapturingKeeps ==
    ASSUME SessionInd, NEW c \in Conns,
           \/ Retire(c) \/ TakeStop(c) \/ BrowserStop(c) \/ CommitFails(c) \/ Progress(c)
           \/ FinishStop(c) \/ Frame(c) \/ EmptyFinal(c) \/ PollRender(c)
           \/ InterruptCapture(c)
    PROVE  KeepsMeeting
<1>1. Sound(meeting)
    BY DEF SessionInd
<1>2. CASE Retire(c) \/ FinishStop(c) \/ CommitFails(c) \/ PollRender(c) \/ InterruptCapture(c)
    BY <1>1, <1>2, Methods, CarefulStep
       DEF Retire, FinishStop, GoesDraining, CommitFails, PollRender, InterruptCapture, QueueStays,
           Unsettled
<1>3. CASE TakeStop(c) \/ Progress(c)
    <2>1. Careful(meeting, meeting') /\ UNCHANGED queue
        BY <1>1, <1>3, Methods DEF TakeStop, Progress, Stopping, QueueStays
    <2>2. manager'.active = manager.active
        BY <1>3 DEF TakeStop, Progress, SessionInd, Handled, Managers
    <2> QED BY <2>1, <2>2, CarefulStep DEF Unsettled
<1>4. CASE BrowserStop(c)
    <2>1. Careful(meeting, meeting') /\ UNCHANGED queue
        BY <1>1, <1>4, Methods DEF BrowserStop, Stopping, QueueStays
    <2>2. manager'.active = manager.active
        BY <1>4 DEF BrowserStop, SessionInd, Handled, Managers
    <2> QED BY <2>1, <2>2, CarefulStep DEF Unsettled
<1>5. CASE Frame(c) \/ EmptyFinal(c)
    <2>1. Careful(meeting, meeting') /\ UNCHANGED <<queue, manager>>
        BY <1>1, <1>5, Methods, Hearing DEF Frame, EmptyFinal, Stopping, QueueStays
    <2> QED BY <2>1, CarefulStep DEF Unsettled
<1> QED BY <1>2, <1>3, <1>4, <1>5

LEMMA StepKeeps ==
    ASSUME SessionInd, Next
    PROVE  SessionInd' /\ LossIsOnRecord /\ FailureIsNotForgotten
<1>1. Handled'
    BY StepHandled DEF SessionInd, Sound
<1>2. KeepsMeeting
    <2>1. ASSUME NEW c \in Conns, Handler(c) \/ Progress(c) \/ Connect(c) \/ ProviderUp(c)
                 \/ Fault(c) \/ BrowserGone(c) \/ BrowserStop(c) \/ CommitFails(c) \/ Frame(c)
                 \/ Final(c) \/ EmptyFinal(c) \/ InterruptCapture(c) \/ PollRender(c)
          PROVE  KeepsMeeting
        BY <2>1, ServingKeeps, LeaveKeeps, FinalKeeps, CapturingKeeps DEF Handler
    <2> QED BY <2>1, StartKeeps, DrainKeeps, WorkerKeeps, RequestsKeep DEF Next
<1> QED BY <1>1, <1>2 DEF KeepsMeeting, SessionInd

LEMMA StutterKeeps ==
    ASSUME SessionInd, UNCHANGED vars
    PROVE  SessionInd' /\ LossIsOnRecord /\ FailureIsNotForgotten
<1>1. UNCHANGED <<home, meeting, manager, conn, drain, status>>
    BY DEF vars, queue
<1>2. SessionInd'
    BY <1>1 DEF SessionInd, Handled, EndedMapIsFinal, QueueIdle
<1> QED BY <1>1, <1>2 DEF LossIsOnRecord, FailureIsNotForgotten, SessionInd, Sound

LEMMA InitSessionInd == Init => SessionInd
<1> SUFFICES ASSUME Init PROVE SessionInd
    OBVIOUS
<1>1. Handled
    BY Numbers DEF Init, Handled, Managers, Handlers, NewConn, Pcs, Waits, Inside
<1>2. Sound(meeting) /\ EndedMapIsFinal
    <2>1. 0 \in 0 .. MaxFrames
        BY Numbers
    <2> QED BY <2>1 DEF Init, QueueInit, NewMeeting, Sound, Meetings, Over, EndedMapIsFinal, QueueIdle
<1> QED BY <1>1, <1>2 DEF SessionInd

LEMMA AlwaysInd == Spec => []SessionInd
<1>1. SessionInd /\ [Next]_vars => SessionInd'
    BY StepKeeps, StutterKeeps
<1> QED BY <1>1, InitSessionInd, PTL DEF Spec

\* In every meeting of the process: a handler is inside drain() exactly when the drain knows of
\* it, and a clean end has an empty queue and shows the last revision of the graph.
THEOREM CleanEndsAreFinal == Spec => []SessionInv
BY AlwaysInd, SessionIndIsInv, PTL

\* No step of a meeting passes over a loss of its transport or a failure of its finalization.
THEOREM LossesAreKept == Spec => LossesStay
<1>1. SessionInd /\ [Next]_vars => [LossIsOnRecord /\ FailureIsNotForgotten]_vars
    BY StepKeeps
<1> QED BY <1>1, AlwaysInd, PTL DEF LossesStay, Spec

-----------------------------------------------------------------------------
(* The recording.                                                          *)

Recorders == [held : BOOLEAN, frames : 0 .. MaxFrames, mark : Unmarked .. MaxFrames]

\* The inductive invariant: RecordingInv needs nothing but what the meeting keeps.
RecordingInd ==
    /\ SessionInd
    /\ pilot \in Recorders
    /\ sealing \in [Drainers -> {"no", "thread", "inline"}]
    /\ RecordsTheMeeting
    /\ GapIsMarked

LEMMA RecordingIndIsInv == ASSUME RecordingInd PROVE RecordingInv
BY SessionIndIsInv DEF RecordingInd, RecordingInv, RecordingTypeOK, SessionInv, Recorders

\* A step of the meeting in which nothing is heard and no active meeting loses its browser.
Steady(m, n) ==
    /\ n.frames = m.frames
    /\ n.state = "active" /\ n.stt = "disconnected" => m.state = "active" /\ m.stt = "disconnected"

\* What such a step may do of the recorder.
Keeps(p, m) == pilot' \in {p, Closed(p), Decorated(p, m)}

LEMMA Closing ==
    /\ Closed(pilot) \in Recorders /\ ~Closed(pilot).held
    /\ Closed(Noted(pilot)) = Closed(pilot)
<1>1. /\ 0 \in 0 .. MaxFrames /\ Unmarked \in Unmarked .. MaxFrames
      /\ Unmarked .. MaxFrames = {Unmarked} \cup 0 .. MaxFrames
    BY Numbers DEF Unmarked
<1>2. Closed(pilot) \in Recorders /\ ~Closed(pilot).held
    BY <1>1 DEF Closed, NewRecording, Recorders
<1> QED BY <1>2 DEF Closed

LEMMA SteadyStep ==
    ASSUME RecordingInd, SessionInd', Steady(meeting, meeting'), Keeps(pilot, meeting'),
           sealing' \in [Drainers -> {"no", "thread", "inline"}]
    PROVE  RecordingInd'
<1>1. pilot' = pilot \/ pilot' = Closed(pilot)
    BY DEF Keeps, Decorated
<1>2. CASE pilot' = pilot
    BY <1>2 DEF RecordingInd, RecordsTheMeeting, GapIsMarked, Steady
<1>3. CASE pilot' = Closed(pilot)
    BY <1>3, Closing DEF RecordingInd, RecordsTheMeeting, GapIsMarked
<1> QED BY <1>1, <1>2, <1>3

\* An interruption is noted at the frame after which the meeting lost its browser.
LEMMA NotedStep ==
    ASSUME RecordingInd, SessionInd', meeting'.frames = meeting.frames, Shows(Noted(pilot)),
           UNCHANGED sealing
    PROVE  RecordingInd'
<1>1. pilot' = Noted(pilot) \/ pilot' = Closed(pilot)
    BY Closing DEF Shows, Decorated
<1>2. CASE pilot' = Noted(pilot)
    <2>1. Unmarked .. MaxFrames = {Unmarked} \cup 0 .. MaxFrames
        BY Numbers DEF Unmarked
    <2>2. pilot' \in Recorders
        BY <1>2, <2>1 DEF RecordingInd, Noted, Recorders
    <2>3. pilot'.held = pilot.held /\ pilot'.frames = pilot.frames
          /\ (pilot.held => pilot'.mark = pilot.frames)
        BY <1>2 DEF RecordingInd, Noted, Recorders
    <2> QED BY <2>2, <2>3 DEF RecordingInd, RecordsTheMeeting, GapIsMarked
<1>3. CASE pilot' = Closed(pilot)
    BY <1>3, Closing DEF RecordingInd, RecordsTheMeeting, GapIsMarked
<1> QED BY <1>1, <1>2, <1>3

LEMMA SteadyMethods ==
    ASSUME NEW m, Sound(m)
    PROVE  /\ Steady(m, m) /\ Steady(m, Connected(m)) /\ Steady(m, Activated(m))
           /\ Steady(m, Stopped(m)) /\ Steady(m, Finalized(m)) /\ Steady(m, Failed(m))
           /\ Steady(m, Rendered(m)) /\ Steady(m, Lost(m))
           /\ Steady(m, Finalized(Stopped(m))) /\ Steady(m, WithoutTransport(Stopped(m)))
           /\ Steady(m, [m EXCEPT !.stt = "live"]) /\ Steady(m, [m EXCEPT !.gap = TRUE])
           /\ Steady(m, Finalized([m EXCEPT !.stt = "live"]))
           /\ Steady(m, Finalized([m EXCEPT !.gap = TRUE]))
           /\ Steady(m, Finalized(Failed(m)))
           /\ m.state = "finalizing" => Steady(m, Unlinked(Lost(m)))
           /\ m.state # "active" \/ m.stt = "disconnected" => Steady(m, Unlinked(m))
<1>1. \A n \in Meetings : /\ Steady(n, n) /\ Steady(n, Connected(n)) /\ Steady(n, Activated(n))
                          /\ Steady(n, Rendered(n)) /\ Failed(n) \in Meetings
                          /\ Steady(n, Failed(n))
    <2> SUFFICES ASSUME NEW n \in Meetings
                 PROVE  /\ Steady(n, n) /\ Steady(n, Connected(n)) /\ Steady(n, Activated(n))
                        /\ Steady(n, Rendered(n)) /\ Failed(n) \in Meetings
                        /\ Steady(n, Failed(n))
        OBVIOUS
    <2>1. Steady(n, n)
        BY DEF Steady
    <2>2. Steady(n, Connected(n))
        BY DEF Steady, Meetings, Connected
    <2>3. Steady(n, Activated(n))
        BY DEF Steady, Meetings, Activated
    <2>4. Steady(n, Rendered(n))
        BY DEF Steady, Meetings, Rendered
    <2>5. Failed(n) \in Meetings
        BY DEF Meetings, Failed, Open
    <2>6. Steady(n, Failed(n))
        BY DEF Steady, Meetings, Failed
    <2> QED BY <2>1, <2>2, <2>3, <2>4, <2>5, <2>6
<1>2. \A n \in Meetings : Steady(n, Stopped(n)) /\ Stopped(n) \in Meetings
    <2> SUFFICES ASSUME NEW n \in Meetings
                 PROVE  Steady(n, Stopped(n)) /\ Stopped(n) \in Meetings
        OBVIOUS
    <2> QED BY DEF Steady, Meetings, Stopped, Open, Over
<1>3. \A n \in Meetings : Steady(n, Finalized(n))
    BY DEF Steady, Meetings, Finalized
<1>4. \A n \in Meetings : Steady(n, Lost(n)) /\ Lost(n) \in Meetings
    <2> SUFFICES ASSUME NEW n \in Meetings PROVE Steady(n, Lost(n)) /\ Lost(n) \in Meetings
        OBVIOUS
    <2>1. CASE n.state # "finalizing" \/ n.done
        BY <2>1 DEF Steady, Meetings, Lost
    <2>2. CASE ~(n.state # "finalizing" \/ n.done)
        BY <2>2 DEF Steady, Meetings, Lost
    <2> QED BY <2>1, <2>2
<1>5. \A n \in Meetings : n.state # "active" \/ n.stt = "disconnected" => Steady(n, Unlinked(n))
    BY DEF Steady, Meetings, Unlinked
<1> DEFINE live == [m EXCEPT !.stt = "live"]
           gap == [m EXCEPT !.gap = TRUE]
<1>6. Steady(m, live) /\ Steady(m, gap) /\ live \in Meetings /\ gap \in Meetings
    BY DEF Sound, Steady, Meetings
<1> HIDE DEF live, gap
<1>7. \A n : n \in Meetings /\ Steady(m, n) => Steady(m, Finalized(n))
    BY <1>3 DEF Steady
<1>8. m \in Meetings
    BY DEF Sound
<1>9. Steady(m, Finalized(Stopped(m))) /\ Steady(m, WithoutTransport(Stopped(m)))
    <2>1. Stopped(m) \in Meetings /\ Steady(m, Stopped(m))
        BY <1>2, <1>8
    <2>2. Steady(Stopped(m), Lost(Stopped(m)))
        BY <1>4, <2>1
    <2>3. Steady(m, Lost(Stopped(m)))
        BY <2>1, <2>2 DEF Steady
    <2> QED BY <1>7, <2>1, <2>3 DEF WithoutTransport
<1>10. Steady(m, Finalized(live)) /\ Steady(m, Finalized(gap)) /\ Steady(m, Finalized(Failed(m)))
    BY <1>1, <1>6, <1>7, <1>8
<1>11. m.state = "finalizing" => Steady(m, Unlinked(Lost(m)))
    <2>1. Steady(m, Lost(m)) /\ Lost(m) \in Meetings
        BY <1>4, <1>8
    <2>2. \A n \in Meetings :
              /\ Unlinked(n).state = n.state /\ Unlinked(n).frames = n.frames
              /\ n.state = "finalizing" => Unlinked(n).state # "active"
        BY DEF Meetings, Unlinked
    <2>3. m.state = "finalizing" => Lost(m).state = "finalizing"
        BY <1>8 DEF Meetings, Lost
    <2> QED BY <2>1, <2>2, <2>3 DEF Steady
<1> QED BY <1>1, <1>2, <1>3, <1>4, <1>5, <1>6, <1>8, <1>9, <1>10, <1>11 DEF live, gap

\* Each step of the recorded meeting is one of the meeting, or leaves the meeting alone.
LEMMA RecordingRefines ==
    ASSUME RecordingNext
    PROVE  Next \/ UNCHANGED vars
<1>1. ASSUME NEW d \in Drainers, DrainReturns(d) \/ Seal(d)
      PROVE  Next \/ UNCHANGED vars
    BY <1>1 DEF DrainReturns, Seal, Next
<1>2. ASSUME NEW c \in Conns, RecordedFrame(c) \/ Interruption(c) \/ EndsCapture(c) \/ Serves(c)
      PROVE  Next
    <2>1. CASE RecordedFrame(c)
        BY <2>1 DEF RecordedFrame, Next
    <2>2. CASE Interruption(c)
        BY <2>2 DEF Interruption, Next, Handler
    <2>3. CASE EndsCapture(c)
        BY <2>3 DEF EndsCapture, Next, Handler
    <2>4. CASE Serves(c)
        BY <2>4 DEF Serves, Next, Handler
    <2> QED BY <1>2, <2>1, <2>2, <2>3, <2>4
<1>3. ASSUME RecordedStart \/ StartRefused \/ Poll \/ Stop \/ Unrecorded \/ Exit
      PROVE  Next \/ UNCHANGED vars
    BY <1>3 DEF RecordedStart, StartRefused, Poll, Stop, Unrecorded, Exit, Next
<1> QED BY <1>1, <1>2, <1>3 DEF RecordingNext

LEMMA RequestsRecorded ==
    ASSUME RecordingInd, SessionInd', Stop \/ Unrecorded
    PROVE  RecordingInd'
<1>1. Sound(meeting) /\ Http \in Drainers /\ sealing \in [Drainers -> {"no", "thread", "inline"}]
    BY Numbers DEF RecordingInd, SessionInd
<1>2. sealing' \in [Drainers -> {"no", "thread", "inline"}]
    BY <1>1 DEF Stop, Unrecorded
<1>3. Keeps(pilot, meeting')
    BY DEF Keeps, Stop, Unrecorded, Shows
<1>4. Steady(meeting, meeting')
    <2>1. CASE Worker
        BY <1>1, <2>1 DEF Worker, Dirty, Steady, Sound, Meetings
    <2>2. CASE RequestStop \/ StopWithoutTransport \/ Terminate \/ TerminateLate
        <3>1. meeting' \in {meeting, Stopped(meeting), Finalized(Stopped(meeting)),
                            WithoutTransport(Stopped(meeting))}
            BY <2>2 DEF RequestStop, StopWithoutTransport, Terminate, TerminateLate
        <3> QED BY <1>1, <3>1, SteadyMethods
    <2> QED BY <2>1, <2>2 DEF Stop, Unrecorded
<1> QED BY <1>2, <1>3, <1>4, SteadyStep

LEMMA DrainRecorded ==
    ASSUME RecordingInd, SessionInd', NEW d \in Drainers, DrainReturns(d)
    PROVE  RecordingInd'
<1>1. Sound(meeting) /\ sealing \in [Drainers -> {"no", "thread", "inline"}]
    BY DEF RecordingInd, SessionInd
<1>2. sealing' \in [Drainers -> {"no", "thread", "inline"}] /\ Keeps(pilot, meeting')
    BY <1>1 DEF DrainReturns, Keeps
<1>3. Steady(meeting, meeting')
    <2>1. CASE DrainDone(d)
        BY <1>1, <2>1 DEF DrainDone, Rendered, Steady, Sound, Meetings
    <2>2. CASE DrainTimeout(d)
        BY <1>1, <2>2 DEF DrainTimeout, Rendered, Steady, Sound, Meetings
    <2>3. CASE DrainForgotten(d)
        BY <1>1, <2>3, SteadyMethods DEF DrainForgotten
    <2> QED BY <2>1, <2>2, <2>3 DEF DrainReturns, Draining
<1> QED BY <1>2, <1>3, SteadyStep

\* The manager's own steps close the recording or leave it.
LEMMA OwnRecorded ==
    ASSUME RecordingInd, SessionInd', StartRefused \/ Poll \/ Exit \/ \E d \in Drainers : Seal(d)
    PROVE  RecordingInd'
<1>1. Sound(meeting) /\ sealing \in [Drainers -> {"no", "thread", "inline"}]
    BY DEF RecordingInd, SessionInd
<1>2. UNCHANGED meeting /\ pilot' = Closed(pilot)
    BY DEF StartRefused, Poll, Exit, Seal, vars
<1>3. sealing' \in [Drainers -> {"no", "thread", "inline"}]
    BY <1>1 DEF StartRefused, Poll, Exit, Seal
<1> QED BY <1>1, <1>2, <1>3, SteadyStep, SteadyMethods DEF Keeps

LEMMA StartRecorded ==
    ASSUME RecordingInd, SessionInd', RecordedStart
    PROVE  RecordingInd'
<1>1. meeting' = NewMeeting /\ pilot' = NewRecording /\ UNCHANGED sealing
    BY DEF RecordedStart, Start
<1>2. 0 \in 0 .. MaxFrames /\ Unmarked \in Unmarked .. MaxFrames
    BY Numbers DEF Unmarked
<1> QED BY <1>1, <1>2
        DEF RecordingInd, Recorders, NewRecording, NewMeeting, RecordsTheMeeting, GapIsMarked

\* The frame that the meeting accepts is the one that the recording takes, or the last.
LEMMA FrameRecorded ==
    ASSUME RecordingInd, SessionInd', NEW c \in Conns, RecordedFrame(c)
    PROVE  RecordingInd'
<1>1. /\ meeting \in Meetings /\ meeting.frames < MaxFrames
      /\ meeting' = [meeting EXCEPT !.frames = @ + 1, !.stt = "live"]
      /\ UNCHANGED sealing
    BY DEF RecordedFrame, Frame, RecordingInd, SessionInd, Sound
<1>2. meeting'.stt = "live" /\ meeting'.frames = meeting.frames + 1
      /\ meeting.frames + 1 \in 0 .. MaxFrames
    BY <1>1, Numbers DEF Meetings
<1>3. CASE pilot' = Closed(pilot)
    BY <1>1, <1>2, <1>3, Closing DEF RecordingInd, RecordsTheMeeting, GapIsMarked
<1>4. CASE pilot' # Closed(pilot)
    <2>1. pilot.held /\ pilot.frames = meeting.frames /\ pilot' = [pilot EXCEPT !.frames = @ + 1]
        BY <1>4 DEF RecordedFrame, Appended
    <2>2. pilot' \in Recorders /\ pilot'.frames = meeting'.frames
        BY <1>2, <2>1 DEF RecordingInd, Recorders
    <2> QED BY <1>1, <1>2, <2>2 DEF RecordingInd, RecordsTheMeeting, GapIsMarked
<1> QED BY <1>3, <1>4

\* Every way to lose the browser of an active meeting is noted before the capture is given up.
LEMMA InterruptionRecorded ==
    ASSUME RecordingInd, SessionInd', NEW c \in Conns, Interruption(c)
    PROVE  RecordingInd'
<1>1. meeting \in Meetings
    BY DEF RecordingInd, SessionInd, Sound
<1>2. meeting' = Interrupted(meeting) \/ meeting' = Unlinked(Interrupted(meeting))
    BY DEF Interruption, Interrupt_, InterruptCapture, CommitFails, Leave, Over
<1>3. meeting'.frames = meeting.frames
    BY <1>1, <1>2 DEF Interrupted, Unlinked, Meetings
<1> QED BY <1>3, NotedStep DEF Interruption

LEMMA EndsCaptureRecorded ==
    ASSUME RecordingInd, SessionInd', NEW c \in Conns, EndsCapture(c)
    PROVE  RecordingInd'
<1>1. Sound(meeting) /\ c \in Drainers /\ sealing \in [Drainers -> {"no", "thread", "inline"}]
    BY Numbers DEF RecordingInd, SessionInd
<1>2. sealing' \in [Drainers -> {"no", "thread", "inline"}] /\ Keeps(pilot, meeting')
    BY <1>1 DEF EndsCapture, Keeps
<1>3. Steady(meeting, meeting')
    BY <1>1, SteadyMethods DEF EndsCapture, FinishStop, Retire, BrowserStop, GoesDraining
<1> QED BY <1>2, <1>3, SteadyStep

LEMMA ServesRecorded ==
    ASSUME RecordingInd, SessionInd', NEW c \in Conns, Serves(c)
    PROVE  RecordingInd'
<1>1. Sound(meeting) /\ sealing \in [Drainers -> {"no", "thread", "inline"}]
    BY DEF RecordingInd, SessionInd
<1>2. sealing' \in [Drainers -> {"no", "thread", "inline"}] /\ Keeps(pilot, meeting')
    BY <1>1 DEF Serves, Keeps, Shows
<1>3. Steady(meeting, meeting')
    <2>1. CASE Connect(c) \/ ProviderUp(c) \/ Fail_(c) \/ PollRender(c) \/ Fault(c)
               \/ BrowserGone(c)
        BY <1>1, <2>1, SteadyMethods
           DEF Connect, ProviderUp, Fail_, PollRender, Fault, BrowserGone
    <2>2. CASE TakeStop(c) \/ Progress(c) \/ Final(c) \/ EmptyFinal(c)
        BY <1>1, <2>2, SteadyMethods DEF TakeStop, Progress, Final, EmptyFinal, Stopping
    <2>3. CASE BrowserStop(c) /\ meeting.linked
        BY <1>1, <2>3, SteadyMethods DEF BrowserStop, Stopping
    <2>4. CASE CommitFails(c) /\ meeting.state # "active"
        BY <1>1, <2>4, SteadyMethods DEF CommitFails
    <2>5. CASE \/ Interrupt_(c) /\ ~Current(c)
               \/ InterruptCapture(c) /\ (~Current(c) \/ meeting.state = "finalizing")
        BY <1>1, <2>5, SteadyMethods DEF Interrupt_, InterruptCapture
    <2>6. CASE /\ Leave(c)
               /\ \/ ~Current(c)
                  \/ ~(conn[c].pc = "leaving" /\ meeting.state = "active"
                       /\ meeting.stt # "disconnected")
        <3>1. meeting' \in {meeting, Stopped(meeting)}
                  \/ (conn[c].pc = "leaving" /\ ~(meeting.state = "active"
                                                 /\ meeting.stt # "disconnected"))
            BY <2>6 DEF Leave
        <3>2. CASE meeting' \in {meeting, Stopped(meeting)}
            BY <1>1, <3>2, SteadyMethods
        <3>3. CASE meeting' \notin {meeting, Stopped(meeting)}
            <4>1. meeting' = IF meeting.state = "finalizing" THEN Unlinked(Lost(meeting))
                             ELSE Unlinked(meeting)
                BY <2>6, <3>1, <3>3 DEF Leave
            <4> QED BY <1>1, <3>1, <3>3, <4>1, SteadyMethods
        <3> QED BY <3>2, <3>3
    <2> QED BY <2>1, <2>2, <2>3, <2>4, <2>5, <2>6 DEF Serves
<1> QED BY <1>2, <1>3, SteadyStep

LEMMA StepRecorded ==
    ASSUME RecordingInd, [RecordingNext]_rvars
    PROVE  RecordingInd'
<1>1. CASE RecordingNext
    <2>1. SessionInd'
        BY <1>1, RecordingRefines, StepKeeps, StutterKeeps DEF RecordingInd
    <2>2. ASSUME NEW c \in Conns, RecordedFrame(c) \/ Interruption(c) \/ EndsCapture(c) \/ Serves(c)
          PROVE  RecordingInd'
        BY <2>1, <2>2, FrameRecorded, InterruptionRecorded, EndsCaptureRecorded, ServesRecorded
    <2> QED BY <1>1, <2>1, <2>2, RequestsRecorded, DrainRecorded, OwnRecorded, StartRecorded
            DEF RecordingNext
<1>2. CASE UNCHANGED rvars
    <2>1. SessionInd'
        BY <1>2, StutterKeeps DEF RecordingInd, rvars
    <2>2. UNCHANGED <<meeting, pilot, sealing>>
        BY <1>2 DEF rvars, vars
    <2> QED BY <2>1, <2>2 DEF RecordingInd, RecordsTheMeeting, GapIsMarked
<1> QED BY <1>1, <1>2

LEMMA InitRecordingInd == RecordingInit => RecordingInd
<1> SUFFICES ASSUME RecordingInit PROVE RecordingInd
    OBVIOUS
<1>1. SessionInd
    BY InitSessionInd DEF RecordingInit
<1>2. pilot \in Recorders /\ ~pilot.held
    BY Closing DEF RecordingInit, Closed
<1> QED BY <1>1, <1>2 DEF RecordingInit, RecordingInd, RecordsTheMeeting, GapIsMarked

\* In every recorded meeting: the recording the manager holds has each frame that the meeting
\* has accepted, and the gap of a meeting that waits for its browser is marked in it.
THEOREM RecordingKeepsUp == RecordingSpec => []RecordingInv
BY InitRecordingInd, StepRecorded, RecordingIndIsInv, PTL DEF RecordingSpec

\* A recorded meeting is a meeting: recording adds steps of its own and changes none.
THEOREM RecordedMeetingIsAMeeting == RecordingSpec => Spec
<1>1. RecordingInit => Init
    BY DEF RecordingInit
<1>2. [RecordingNext]_rvars => [Next]_vars
    BY RecordingRefines DEF rvars
<1> QED BY <1>1, <1>2, PTL DEF RecordingSpec, Spec
=============================================================================
