---------------------- MODULE ServiceCaptureProofs ----------------------
(***************************************************************************)
(* The safety properties of ServiceCapture for every set of sockets and    *)
(* pages and every bound: their inductive invariant and the steps that     *)
(* preserve it.                                                            *)
(***************************************************************************)
EXTENDS ServiceCapture, TLAPS

USE DEF Generations, Possible, Live, Stopped, At, Goes, Interval, StopSequence

\* The generation a socket or a lease belongs to is one that may be joined, and none
\* is ahead of the session's.
InRange ==
    /\ capture = "created" <=> gen = 0
    /\ capture \in {"resuming", "listening", "pausing", "paused"} => gen <= MaxGeneration
    /\ lease # None => lease.gen <= gen /\ lease.gen <= MaxGeneration
    /\ \A c \in Sockets : socket[c].gen <= gen /\ socket[c].gen <= MaxGeneration
    /\ \A c \in Sockets : socket[c].pc # "new" => socket[c].gen >= 1

\* Before a generation is listening, only the holder of its lease has claimed it, and
\* its browser does not record yet.
HolderIsLeased ==
    \A c \in Sockets :
        socket[c].claimed /\ socket[c].gen = gen /\ capture \in {"resuming", "reconnecting"}
        => lease # None /\ lease.gen = gen /\ lease.socket = c /\ ~socket[c].mic

ActiveIsClaimed ==
    \A c \in Sockets :
        /\ socket[c].pc \notin {"new", "admitted", "gone"} => socket[c].claimed
        /\ socket[c].claimed => socket[c].pc \notin {"new", "admitted"}
        /\ socket[c].pc \in {"serving", "appending"} => socket[c].mic
        /\ socket[c].mic => socket[c].claimed /\ socket[c].pc # "stopping"

EndHoldsNoLease ==
    intent # None /\ capture = "reconnecting" => lease = None \/ lease.gen # gen

\* A generation that has not listened has no audio.
SilentBefore ==
    \A g \in Generations :
        g > gen \/ (g = gen /\ capture \in {"created", "resuming", "reconnecting"})
        => audio[g] = NoAudio

StopIsVerified ==
    \A c \in Sockets :
        socket[c].pc = "stopping" => audio[socket[c].gen].received = audio[socket[c].gen].heard

Fault(g) == \E i \in intervals : i.gen = g /\ i.kind = "fault"

\* A microphone that may still be on after its generation is over is on record.
LateVoiceIsOnRecord ==
    \A c \in Sockets :
        socket[c].mic /\ Over(socket[c].gen) => Fault(socket[c].gen)

ViewsAreOld == \A o \in Owners : view[o].version <= version

CaptureInv ==
    /\ TypeOK /\ InRange
    /\ HolderIsLeased /\ ActiveIsClaimed /\ OneSocketPerGeneration
    /\ EndHoldsNoLease /\ EndStopsListening
    /\ SilentBefore /\ StopIsVerified /\ LateVoiceIsOnRecord /\ NoSilentLoss
    /\ SilenceIsOnRecord
    /\ ViewsAreOld /\ VersionTellsState

-----------------------------------------------------------------------------
(* The rows of intervals.                                                  *)

\* A row that is closed keeps its generation and kind.
LEMMA ClosedRow ==
    ASSUME NEW rows \in SUBSET Rows, NEW kinds
    PROVE  /\ Closed(rows, kinds) \subseteq Rows
           /\ \A i \in rows : \E j \in Closed(rows, kinds) :
                j.gen = i.gen /\ j.kind = i.kind /\ (i.kind \notin kinds => j = i)
<1> DEFINE Close(i) == IF i.kind \in kinds THEN [i EXCEPT !.open = FALSE] ELSE i
<1>1. \A i \in rows : Close(i) \in Rows /\ Close(i).gen = i.gen /\ Close(i).kind = i.kind
                     /\ (i.kind \notin kinds => Close(i) = i)
    BY DEF Rows
<1>2. Closed(rows, kinds) = {Close(i) : i \in rows}
    BY DEF Closed
<1>3. Closed(rows, kinds) \subseteq Rows
    BY <1>1, <1>2
<1>4. ASSUME NEW i \in rows
      PROVE  \E j \in Closed(rows, kinds) :
                j.gen = i.gen /\ j.kind = i.kind /\ (i.kind \notin kinds => j = i)
    <2>1. Close(i) \in Closed(rows, kinds)
        BY <1>2
    <2> QED BY <1>1, <2>1
<1> QED BY <1>3, <1>4

LEMMA GapRow ==
    ASSUME intervals \subseteq Rows, gen \in Generations
    PROVE  WithGap \subseteq Rows
<1>1. Interval(gen, "fault") \in Rows
    BY DEF Rows
<1> QED BY <1>1 DEF WithGap

\* A gap keeps the faults on record and is one itself.
LEMMA GapIsFault ==
    ASSUME NEW g, Fault(g) \/ g = gen
    PROVE  \E i \in WithGap : i.gen = g /\ i.kind = "fault"
<1>1. CASE g = gen
    <2>1. Interval(gen, "fault") \in WithGap
        BY DEF WithGap
    <2> QED BY <1>1, <2>1
<1>2. CASE Fault(g)
    <2>1. PICK i \in intervals : i.gen = g /\ i.kind = "fault"
        BY <1>2 DEF Fault
    <2>2. i \in WithGap
        BY <2>1 DEF WithGap
    <2> QED BY <2>1, <2>2
<1> QED BY <1>1, <1>2

LEMMA InitInv == Init => CaptureInv
<1> SUFFICES ASSUME Init PROVE CaptureInv
    OBVIOUS
<1> USE CaptureAssumption DEF Init, NewSocket, NoAudio
<1>1. TypeOK
    <2>1. audio \in [Generations -> Audio]
        BY DEF Audio
    <2>2. socket \in [Sockets -> Handler]
        BY DEF Handler
    <2>3. view \in [Owners -> Views]
        BY DEF Views, CaptureStates
    <2> QED BY <2>1, <2>2, <2>3 DEF TypeOK, CaptureStates
<1>2. InRange /\ HolderIsLeased /\ ActiveIsClaimed /\ OneSocketPerGeneration
    BY DEF InRange, HolderIsLeased, ActiveIsClaimed, OneSocketPerGeneration
<1>3. EndHoldsNoLease /\ EndStopsListening /\ SilenceIsOnRecord
    BY DEF EndHoldsNoLease, EndStopsListening, SilenceIsOnRecord
<1>4. SilentBefore /\ StopIsVerified /\ LateVoiceIsOnRecord /\ NoSilentLoss
    BY DEF SilentBefore, StopIsVerified, LateVoiceIsOnRecord, NoSilentLoss, Loose
<1>5. ViewsAreOld /\ VersionTellsState
    BY DEF ViewsAreOld, VersionTellsState
<1> QED BY <1>1, <1>2, <1>3, <1>4, <1>5 DEF CaptureInv

-----------------------------------------------------------------------------
(* Types.                                                                  *)

RowTypes ==
    /\ gen \in {0} \cup Generations /\ version \in Nat
    /\ lease \in {None} \cup Leases
    /\ intent \in {None} \cup Intents
    /\ endedBy \in {None} \cup Owners
    /\ intervals \subseteq Rows

\* What a fence does to a generation that may be joined.
LEMMA FenceTyped ==
    ASSUME TypeOK, gen \in 1 .. MaxGeneration, Fence
    PROVE  RowTypes'
<1>1. intervals' \subseteq Rows
    BY GapRow, CaptureAssumption DEF Fence, TypeOK
<1>2. gen' \in {0} \cup Generations /\ version' \in Nat
    BY CaptureAssumption DEF Fence, TypeOK, NextVersion
<1> QED BY <1>1, <1>2 DEF Fence, Released, RowTypes, TypeOK

LEMMA FinalizeTyped ==
    ASSUME TypeOK, NEW o \in Owners, NEW verified \in BOOLEAN, gen \in Generations,
           ~verified => gen <= MaxGeneration, Finalize(o, verified)
    PROVE  RowTypes'
<1>1. (IF verified THEN intervals ELSE WithGap) \subseteq Rows
    BY GapRow DEF TypeOK
<1>2. intervals' \subseteq Rows
    BY <1>1, ClosedRow DEF Finalize
<1>3. gen' \in {0} \cup Generations /\ version' \in Nat
    BY CaptureAssumption DEF Finalize, TypeOK
<1> QED BY <1>2, <1>3 DEF Finalize, Released, RowTypes, TypeOK

\* One socket's handler moves on.
LEMMA HandlerTyped ==
    ASSUME TypeOK, NEW c \in Sockets, NEW h \in Handler, socket' = [socket EXCEPT ![c] = h]
    PROVE  /\ socket' \in [Sockets -> Handler] /\ socket'[c] = h
           /\ \A d \in Sockets : d # c => socket'[d] = socket[d]
BY DEF TypeOK

SameButPc ==
    \A d \in Sockets :
        /\ socket'[d].gen = socket[d].gen /\ socket'[d].claimed = socket[d].claimed
        /\ socket'[d].mic = socket[d].mic

LEMMA GoesTyped ==
    ASSUME TypeOK, NEW c \in Sockets, NEW p, Goes(c, p),
           p \in {"new", "admitted", "leased", "serving", "appending", "stopping", "paused",
                  "closing", "gone"}
    PROVE  /\ socket' \in [Sockets -> Handler]
           /\ socket'[c].pc = p
           /\ SameButPc
           /\ \A d \in Sockets : d # c => socket'[d].pc = socket[d].pc
<1> DEFINE h == [socket[c] EXCEPT !.pc = p]
<1>1. socket[c] \in Handler
    BY DEF TypeOK
<1>2. /\ h \in Handler /\ h.pc = p /\ h.gen = socket[c].gen
      /\ h.claimed = socket[c].claimed /\ h.mic = socket[c].mic
    BY <1>1 DEF Handler
<1>3. socket' = [socket EXCEPT ![c] = h]
    OBVIOUS
<1> HIDE DEF h
<1> QED BY <1>2, <1>3, HandlerTyped DEF SameButPc

-----------------------------------------------------------------------------
(* The shapes of steps.                                                    *)

\* A handler stops serving.
Retires(c) ==
    \/ socket[c].pc \notin {"new", "admitted", "gone"} /\ Goes(c, "closing")
    \/ socket[c].pc # "new" /\ Goes(c, "gone")

SocketRests == UNCHANGED socket \/ \E c \in Sockets : Retires(c)

FenceStep ==
    /\ capture \in Live /\ gen \in 1 .. MaxGeneration /\ Fence
    /\ SocketRests /\ UNCHANGED <<audio, view>>

EndStep ==
    /\ \E o \in Owners : \/ capture \in Stopped /\ Finalize(o, TRUE)
                         \/ capture \in {"resuming", "pausing"} /\ Finalize(o, FALSE)
    /\ SocketRests /\ UNCHANGED <<audio, view>>

QuietStep == SocketRests /\ UNCHANGED <<stored, audio, view>>

DropLease ==
    /\ lease # None /\ ~FencedOnExpiry
    /\ lease' = None /\ UNCHANGED <<capture, gen, version, intent, endedBy, intervals>>
    /\ SocketRests /\ UNCHANGED <<audio, view>>

RequestStep ==
    \E o \in Owners : Look(o) \/ Start(o) \/ Pause(o) \/ Resume(o) \/ StageEnd(o)

ServeStep ==
    \E c \in Sockets :
        \/ Admit(c) \/ Acquire(c) \/ Connected(c) \/ Speak(c) \/ ReceiveFrame(c)
        \/ Appended(c) \/ TurnSettles(c) \/ Stop(c) \/ Paused(c)

\* Every step has one of these shapes.
LEMMA Shapes ==
    ASSUME TypeOK, InRange, Next
    PROVE  \/ FenceStep \/ EndStep \/ QuietStep \/ RequestStep \/ ServeStep
           \/ LeaseExpires \/ StopDeadline \/ DropLease
<1> USE CaptureAssumption
<1>1. ASSUME NEW o \in Owners, OwnerStep(o)
      PROVE  RequestStep \/ EndStep
    <2>1. CASE EndNow(o)
        BY <2>1 DEF EndNow, EndStep, SocketRests
    <2>2. CASE EndAgain(o)
        BY <2>2 DEF EndAgain, EndStep, SocketRests
    <2> QED BY <1>1, <2>1, <2>2 DEF OwnerStep, RequestStep
<1>2. CASE SuperviseEnd
    <2>1. intent.by \in Owners
        BY <1>2 DEF SuperviseEnd, EndCompletes, TypeOK, Intents
    <2> QED BY <1>2, <2>1
            DEF SuperviseEnd, EndCompletes, CompleteEnd, StopGivenUp, EndStep, SocketRests
<1>3. ASSUME DropExpired, SocketRests, UNCHANGED <<audio, view>>
      PROVE  FenceStep \/ DropLease
    <2>1. gen \in 0 .. MaxGeneration + 1 /\ (capture # "created" => gen >= 1)
        BY DEF TypeOK, InRange
    <2>2. CASE FencedOnExpiry
        <3>1. gen \in 1 .. MaxGeneration
            BY <1>3, <2>1, <2>2 DEF DropExpired, FencedOnExpiry, InRange
        <3> QED BY <1>3, <2>2, <3>1 DEF DropExpired, FencedOnExpiry, FenceStep
    <2>3. CASE ~FencedOnExpiry
        BY <1>3, <2>3 DEF DropExpired, DropLease
    <2> QED BY <2>2, <2>3
<1>4. ASSUME NEW c \in Sockets, SocketStep(c)
      PROVE  FenceStep \/ EndStep \/ QuietStep \/ ServeStep \/ DropLease
    <2>1. socket[c].gen = gen /\ capture \in Live => gen \in 1 .. MaxGeneration
        BY DEF TypeOK, InRange
    <2>2. CASE AcquireExpired(c)
        BY <1>3, <2>2 DEF AcquireExpired, SocketRests, Retires
    <2>3. CASE AcquireRefused(c) \/ Leave(c) \/ Crash(c)
        BY <2>3 DEF AcquireRefused, Leave, Crash, QuietStep, SocketRests, Retires
    <2>4. CASE ReceiveGap(c)
        BY <2>1, <2>4 DEF ReceiveGap, Receivable, Holds, FenceStep, SocketRests, Retires
    <2>5. CASE AppendUncertain(c)
        BY <2>1, <2>5 DEF AppendUncertain, FenceStep, QuietStep, SocketRests, Retires
    <2>6. CASE PausedThenEnd(c)
        <3>1. CASE EndCompletes
            <4>1. intent.by \in Owners
                BY <3>1 DEF EndCompletes, TypeOK, Intents
            <4> QED BY <2>6, <3>1, <4>1
                    DEF PausedThenEnd, EndCompletes, CompleteEnd, StopGivenUp, EndStep,
                        SocketRests, Retires
        <3>2. CASE ~EndCompletes
            BY <2>6, <3>2 DEF PausedThenEnd, QuietStep, SocketRests, Retires
        <3> QED BY <3>1, <3>2
    <2>7. CASE Disconnected(c)
        BY <2>1, <2>7 DEF Disconnected, Interrupted, Holds, FenceStep, QuietStep, SocketRests, Retires
    <2> QED BY <1>4, <2>2, <2>3, <2>4, <2>5, <2>6, <2>7 DEF SocketStep, ServeStep
<1>5. CASE RecoverLease
    BY <1>3, <1>5 DEF RecoverLease, SocketRests
<1> QED BY <1>1, <1>2, <1>4, <1>5 DEF Next

-----------------------------------------------------------------------------
(* A fence, an end and a handler that leaves preserve the invariant.       *)

\* A socket that leaves keeps its generation.
Rested ==
    \A c \in Sockets :
        /\ socket'[c].gen = socket[c].gen
        /\ socket'[c].claimed = socket[c].claimed
        /\ socket'[c].mic = socket[c].mic
        /\ socket'[c].pc = "stopping" => socket[c].pc = "stopping"
        /\ socket'[c].pc # "new" => socket[c].pc # "new"
        /\ socket'[c].pc \notin {"new", "admitted", "gone"}
             => socket[c].pc \notin {"new", "admitted", "gone"}
        /\ socket'[c].pc # socket[c].pc => socket'[c].pc \in {"closing", "gone"}

LEMMA Resting ==
    ASSUME TypeOK, SocketRests
    PROVE  socket' \in [Sockets -> Handler] /\ Rested
BY GoesTyped DEF SocketRests, Retires, TypeOK, Handler, Rested, SameButPc

\* A browser that may be recording has a generation that was joined.
LEMMA MicHasGeneration ==
    ASSUME CaptureInv, NEW c \in Sockets, socket[c].mic \/ socket[c].claimed
    PROVE  /\ socket[c].claimed /\ socket[c].pc # "new"
           /\ socket[c].gen \in 1 .. MaxGeneration /\ socket[c].gen \in Generations
<1>1. socket[c].claimed /\ socket[c].pc # "new"
    BY DEF CaptureInv, ActiveIsClaimed
<1>2. socket[c].gen \in Int /\ socket[c].gen >= 1 /\ socket[c].gen <= MaxGeneration
    BY <1>1, CaptureAssumption DEF CaptureInv, InRange, TypeOK, Handler
<1> QED BY <1>1, <1>2, CaptureAssumption

LEMMA FenceKeeps ==
    ASSUME CaptureInv, FenceStep
    PROVE  CaptureInv'
<1> USE CaptureAssumption
<1>1. /\ gen \in 1 .. MaxGeneration /\ capture \in Live
      /\ audio' = audio /\ view' = view /\ intent' = intent /\ endedBy' = endedBy
      /\ capture' = "reconnecting" /\ gen' = gen + 1 /\ version' = version + 1
      /\ lease' = Released /\ intervals' = WithGap
    BY DEF FenceStep, Fence, NextVersion
<1>2. TypeOK /\ socket' \in [Sockets -> Handler] /\ Rested
    BY Resting DEF CaptureInv, FenceStep
<1>3. TypeOK'
    BY <1>1, <1>2, FenceTyped DEF TypeOK, RowTypes, CaptureStates, FenceStep
<1>4. InRange'
    <2>1. InRange
        BY DEF CaptureInv
    <2>2. lease' # None => lease'.gen <= gen' /\ lease'.gen <= MaxGeneration
        BY <1>1, <1>2, <2>1 DEF InRange, Released, TypeOK, Leases
    <2>3. \A c \in Sockets : socket'[c].gen <= gen' /\ socket'[c].gen <= MaxGeneration
        BY <1>1, <1>2, <2>1 DEF InRange, Rested, TypeOK, Handler
    <2>4. \A c \in Sockets : socket'[c].pc # "new" => socket'[c].gen >= 1
        BY <1>2, <2>1 DEF InRange, Rested
    <2> QED BY <1>1, <2>2, <2>3, <2>4 DEF InRange
<1>5. \A c \in Sockets : socket'[c].gen # gen'
    BY <1>1, <1>2 DEF CaptureInv, InRange, Rested, TypeOK, Handler
<1>6. HolderIsLeased'
    BY <1>5 DEF HolderIsLeased
<1>7. ActiveIsClaimed' /\ OneSocketPerGeneration'
    BY <1>2 DEF CaptureInv, ActiveIsClaimed, OneSocketPerGeneration, Rested
<1>8. EndHoldsNoLease'
    <2>1. lease # None => lease.gen < gen'
        BY <1>1 DEF CaptureInv, InRange, TypeOK, Leases
    <2> QED BY <1>1, <2>1 DEF EndHoldsNoLease, Released
<1>9. EndStopsListening'
    BY <1>1 DEF EndStopsListening
<1>10. SilentBefore'
    <2>1. ASSUME NEW g \in Generations, g > gen' \/ g = gen' PROVE audio'[g] = NoAudio
        <3>1. g > gen
            BY <1>1, <2>1
        <3> QED BY <1>1, <3>1 DEF CaptureInv, SilentBefore
    <2> QED BY <2>1 DEF SilentBefore
<1>11. StopIsVerified'
    BY <1>1, <1>2 DEF CaptureInv, StopIsVerified, Rested
<1>12. \E i \in intervals' : i = Interval(gen, "fault")
    BY <1>1 DEF WithGap
<1>13. \A g \in Generations : g = gen \/ Fault(g) => Fault(g)'
    BY <1>1, GapIsFault DEF Fault
<1>14. \A g \in Generations : Over(g)' => Over(g) \/ g = gen
    BY <1>1 DEF Over
<1>15. LateVoiceIsOnRecord'
    <2>1. ASSUME NEW c \in Sockets, socket'[c].mic
          PROVE  socket'[c].gen \in Generations /\ socket'[c].gen = socket[c].gen
        BY <1>2, <2>1, MicHasGeneration DEF Rested
    <2>2. ASSUME NEW c \in Sockets, NEW g \in Generations, g = socket'[c].gen,
                 socket'[c].mic, Over(g)'
          PROVE  Fault(g)'
        <3>1. Over(g) => Fault(g)
            BY <1>2, <2>1, <2>2 DEF CaptureInv, LateVoiceIsOnRecord, Rested
        <3> QED BY <1>13, <1>14, <2>2, <3>1
    <2> QED BY <2>1, <2>2 DEF LateVoiceIsOnRecord, Over, Fault
<1>16. NoSilentLoss'
    BY <1>1, <1>13, <1>14 DEF CaptureInv, NoSilentLoss, Loose, Fault
<1>17. SilenceIsOnRecord'
    BY <1>12 DEF SilenceIsOnRecord
<1>18. ViewsAreOld' /\ VersionTellsState'
    BY <1>1, <1>2 DEF CaptureInv, ViewsAreOld, VersionTellsState, TypeOK, Views
<1> QED BY <1>3, <1>4, <1>6, <1>7, <1>8, <1>9, <1>10, <1>11, <1>15, <1>16, <1>17, <1>18
        DEF CaptureInv

LEMMA EndKeeps ==
    ASSUME CaptureInv, EndStep
    PROVE  CaptureInv'
<1> USE CaptureAssumption
<1>1. PICK o \in Owners, verified \in BOOLEAN :
          /\ Finalize(o, verified)
          /\ IF verified THEN capture \in Stopped ELSE capture \in {"resuming", "pausing"}
    BY DEF EndStep
<1>2. /\ TypeOK /\ InRange /\ Rested /\ socket' \in [Sockets -> Handler]
      /\ gen \in Generations /\ (~verified => gen <= MaxGeneration)
      /\ audio' = audio /\ view' = view
    BY <1>1, Resting DEF CaptureInv, EndStep, InRange, TypeOK
<1>3. /\ capture' = "finalizing" /\ intent' = intent
      /\ gen' = (IF verified THEN gen ELSE gen + 1) /\ gen' >= gen /\ version' > version
      /\ lease' = (IF verified THEN lease ELSE Released)
      /\ intervals' = Closed(IF verified THEN intervals ELSE WithGap, Possible \cup {"paused"})
    BY <1>1, <1>2 DEF Finalize, TypeOK
<1>4. TypeOK'
    BY <1>1, <1>2, <1>3, FinalizeTyped DEF TypeOK, RowTypes, CaptureStates
<1>5. InRange'
    <2>1. lease' # None => lease'.gen <= gen' /\ lease'.gen <= MaxGeneration
        BY <1>2, <1>3 DEF InRange, Released, TypeOK, Leases
    <2>2. \A c \in Sockets : socket'[c].gen <= gen' /\ socket'[c].gen <= MaxGeneration
        BY <1>2, <1>3 DEF InRange, Rested, TypeOK, Handler
    <2>3. \A c \in Sockets : socket'[c].pc # "new" => socket'[c].gen >= 1
        BY <1>2 DEF InRange, Rested
    <2> QED BY <1>2, <1>3, <2>1, <2>2, <2>3 DEF InRange
<1>6. HolderIsLeased' /\ EndHoldsNoLease' /\ EndStopsListening' /\ SilenceIsOnRecord'
    BY <1>3 DEF HolderIsLeased, EndHoldsNoLease, EndStopsListening, SilenceIsOnRecord
<1>7. ActiveIsClaimed' /\ OneSocketPerGeneration' /\ StopIsVerified'
    BY <1>2 DEF CaptureInv, ActiveIsClaimed, OneSocketPerGeneration, StopIsVerified, Rested
<1>8. SilentBefore'
    BY <1>2, <1>3 DEF CaptureInv, SilentBefore
<1>9. \A g \in Generations : Fault(g) \/ (~verified /\ g = gen) => Fault(g)'
    <2> DEFINE rows == IF verified THEN intervals ELSE WithGap
    <2>1. rows \subseteq Rows /\ intervals' = Closed(rows, Possible \cup {"paused"})
        BY <1>2, <1>3, GapRow DEF TypeOK
    <2>2. \A g \in Generations : Fault(g) \/ (~verified /\ g = gen)
              => \E i \in rows : i.gen = g /\ i.kind = "fault"
        BY GapIsFault DEF Fault
    <2>3. \A i \in rows : \E j \in intervals' : j.gen = i.gen /\ j.kind = i.kind
        <3> HIDE DEF rows
        <3> QED BY <2>1, ClosedRow
    <2> QED BY <2>2, <2>3 DEF Fault
<1>10. \A g \in Generations : g <= gen => Over(g) \/ g = gen
    BY <1>2 DEF Over
<1>11. LateVoiceIsOnRecord'
    <2>1. ASSUME NEW c \in Sockets, socket'[c].mic
          PROVE  /\ socket'[c].gen = socket[c].gen /\ socket[c].mic
                 /\ socket[c].gen \in Generations /\ socket[c].gen <= gen /\ socket[c].claimed
        BY <1>2, <2>1
           DEF CaptureInv, InRange, Rested, TypeOK, Handler, ActiveIsClaimed
    <2>2. ASSUME NEW c \in Sockets, NEW g \in Generations, g = socket[c].gen,
                 socket[c].mic, g <= gen, socket[c].claimed
          PROVE  Fault(g)'
        <3>1. Over(g) => Fault(g)
            BY <2>2 DEF CaptureInv, LateVoiceIsOnRecord
        <3>2. CASE g = gen /\ verified
            <4>1. capture # "reconnecting"
                BY <2>2, <3>2 DEF CaptureInv, HolderIsLeased
            <4>2. Over(g)
                BY <1>1, <3>2, <4>1 DEF Over
            <4> QED BY <1>9, <3>1, <4>2
        <3> QED BY <1>9, <1>10, <2>2, <3>1, <3>2
    <2> QED BY <2>1, <2>2 DEF LateVoiceIsOnRecord, Fault
<1>12. NoSilentLoss'
    <2>1. \A g \in Generations : Loose(g)' => Loose(g)
        BY <1>2 DEF Loose
    <2>2. \A g \in Generations :
              g > gen \/ (g = gen /\ capture = "reconnecting") => ~Loose(g)
        BY DEF CaptureInv, SilentBefore, Loose, NoAudio
    <2>3. \A g \in Generations : g = gen /\ verified /\ Loose(g) => Over(g)
        BY <1>1, <2>2 DEF Over
    <2>4. \A g \in Generations : Loose(g) /\ Over(g) => Fault(g)
        BY DEF CaptureInv, NoSilentLoss, Fault
    <2>5. \A g \in Generations : Loose(g) => g <= gen
        BY <1>2, <2>2
    <2>6. \A g \in Generations : Loose(g)' => Fault(g)'
        BY <1>9, <1>10, <2>1, <2>3, <2>4, <2>5
    <2> QED BY <2>6 DEF NoSilentLoss, Fault
<1>13. ViewsAreOld' /\ VersionTellsState'
    BY <1>2, <1>3, <1>4 DEF CaptureInv, ViewsAreOld, VersionTellsState, TypeOK, Views
<1> QED BY <1>4, <1>5, <1>6, <1>7, <1>8, <1>11, <1>12, <1>13 DEF CaptureInv

LEMMA QuietKeeps ==
    ASSUME CaptureInv, QuietStep
    PROVE  CaptureInv'
<1> USE CaptureAssumption
<1>1. /\ Rested /\ socket' \in [Sockets -> Handler]
      /\ UNCHANGED <<capture, gen, version, lease, intent, endedBy, intervals>>
      /\ UNCHANGED <<audio, view>>
    BY Resting DEF CaptureInv, QuietStep, stored
<1>2. TypeOK' /\ InRange'
    BY <1>1 DEF CaptureInv, TypeOK, InRange, Rested
<1>3. HolderIsLeased'
    BY <1>1 DEF CaptureInv, HolderIsLeased, Rested
<1>4. ActiveIsClaimed' /\ OneSocketPerGeneration' /\ StopIsVerified'
    BY <1>1 DEF CaptureInv, ActiveIsClaimed, OneSocketPerGeneration, StopIsVerified, Rested
<1>5. EndHoldsNoLease' /\ EndStopsListening' /\ SilenceIsOnRecord' /\ SilentBefore'
    BY <1>1
       DEF CaptureInv, EndHoldsNoLease, EndStopsListening, SilenceIsOnRecord, SilentBefore
<1>6. LateVoiceIsOnRecord'
    BY <1>1 DEF CaptureInv, LateVoiceIsOnRecord, Rested, Over, Fault
<1>7. NoSilentLoss'
    BY <1>1 DEF CaptureInv, NoSilentLoss, Loose, Over
<1>8. ViewsAreOld' /\ VersionTellsState'
    BY <1>1 DEF CaptureInv, ViewsAreOld, VersionTellsState
<1> QED BY <1>2, <1>3, <1>4, <1>5, <1>6, <1>7, <1>8 DEF CaptureInv

-----------------------------------------------------------------------------
(* The clock and the owner's requests preserve the invariant.              *)

LEMMA ClockKeeps ==
    ASSUME CaptureInv, LeaseExpires \/ StopDeadline \/ DropLease
    PROVE  CaptureInv'
<1> USE CaptureAssumption
<1>1. /\ UNCHANGED <<capture, gen, version, endedBy, intervals>>
      /\ audio' = audio /\ view' = view
      /\ socket' \in [Sockets -> Handler] /\ Rested
    <2>1. SocketRests
        BY DEF LeaseExpires, StopDeadline, DropLease, SocketRests
    <2> QED BY <2>1, Resting DEF CaptureInv, LeaseExpires, StopDeadline, DropLease
<1>2. /\ intent' \in {None} \cup Intents
      /\ intent' # None => intent # None
    BY DEF CaptureInv, LeaseExpires, StopDeadline, DropLease, TypeOK, Intents
<1>3. /\ lease' \in {None} \cup Leases
      /\ lease' # None
         => lease # None /\ lease'.gen = lease.gen /\ lease'.socket = lease.socket
    BY DEF CaptureInv, LeaseExpires, StopDeadline, DropLease, TypeOK, Leases
<1>4. TypeOK'
    BY <1>1, <1>2, <1>3 DEF CaptureInv, TypeOK
<1>5. InRange'
    BY <1>1, <1>3 DEF CaptureInv, InRange, Rested
<1>6. HolderIsLeased'
    <2>1. lease # None => lease \in Leases /\ [lease EXCEPT !.live = FALSE] \in Leases
        BY DEF CaptureInv, TypeOK, Leases
    <2>2. lease' = None => lease = None \/ ~FencedOnExpiry
        BY <2>1, NoneIsNoRow DEF LeaseExpires, StopDeadline, DropLease
    <2> QED BY <1>1, <1>3, <2>2 DEF CaptureInv, HolderIsLeased, FencedOnExpiry, Rested
<1>7. ActiveIsClaimed' /\ OneSocketPerGeneration' /\ StopIsVerified' /\ SilentBefore'
    BY <1>1 DEF CaptureInv, ActiveIsClaimed, OneSocketPerGeneration, StopIsVerified,
                SilentBefore, Rested
<1>8. EndHoldsNoLease' /\ EndStopsListening' /\ SilenceIsOnRecord'
    BY <1>1, <1>2, <1>3
       DEF CaptureInv, EndHoldsNoLease, EndStopsListening, SilenceIsOnRecord
<1>9. LateVoiceIsOnRecord' /\ NoSilentLoss'
    BY <1>1 DEF CaptureInv, LateVoiceIsOnRecord, NoSilentLoss, Loose, Over, Fault, Rested
<1>10. ViewsAreOld' /\ VersionTellsState'
    BY <1>1 DEF CaptureInv, ViewsAreOld, VersionTellsState
<1> QED BY <1>4, <1>5, <1>6, <1>7, <1>8, <1>9, <1>10 DEF CaptureInv

LEMMA LookKeeps ==
    ASSUME CaptureInv, NEW o \in Owners, Look(o)
    PROVE  CaptureInv'
<1> USE CaptureAssumption
<1>1. /\ UNCHANGED <<capture, gen, version, lease, intent, endedBy, intervals>>
      /\ audio' = audio /\ socket' = socket
      /\ view' = [view EXCEPT ![o] = [capture |-> capture, gen |-> gen, version |-> version]]
    BY DEF Look, stored
<1>2. TypeOK'
    <2>1. view' \in [Owners -> Views]
        BY <1>1 DEF CaptureInv, TypeOK, Views
    <2> QED BY <1>1, <2>1 DEF CaptureInv, TypeOK
<1>3. InRange' /\ HolderIsLeased' /\ ActiveIsClaimed' /\ OneSocketPerGeneration'
    BY <1>1 DEF CaptureInv, InRange, HolderIsLeased, ActiveIsClaimed, OneSocketPerGeneration
<1>4. EndHoldsNoLease' /\ EndStopsListening' /\ SilenceIsOnRecord'
    BY <1>1 DEF CaptureInv, EndHoldsNoLease, EndStopsListening, SilenceIsOnRecord
<1>5. SilentBefore' /\ StopIsVerified' /\ LateVoiceIsOnRecord' /\ NoSilentLoss'
    BY <1>1 DEF CaptureInv, SilentBefore, StopIsVerified, LateVoiceIsOnRecord,
                NoSilentLoss, Loose, Over, Fault
<1>6. ViewsAreOld' /\ VersionTellsState'
    BY <1>1 DEF CaptureInv, ViewsAreOld, VersionTellsState, TypeOK, Views
<1> QED BY <1>2, <1>3, <1>4, <1>5, <1>6 DEF CaptureInv

\* Every accepted request of the owner that does not close intake.
LEMMA RequestKeeps ==
    ASSUME CaptureInv, NEW o \in Owners, Start(o) \/ Pause(o) \/ Resume(o) \/ StageEnd(o)
    PROVE  CaptureInv'
<1> USE CaptureAssumption
<1>1. /\ UNCHANGED <<lease, endedBy>>
      /\ audio' = audio /\ socket' = socket /\ view' = view
      /\ TypeOK /\ InRange /\ EndStopsListening
    BY DEF CaptureInv, Start, Pause, Resume, StageEnd
<1>2. \/ /\ capture \in {"created", "paused"} /\ capture' = "resuming"
         /\ gen' = gen + 1 /\ gen < MaxGeneration /\ version' = version + 1
         /\ intent = None /\ intent' = None
      \/ /\ capture \in {"listening", "pausing"} /\ capture' = "pausing" /\ gen' = gen
         /\ version' = version + 1 \/ (version' = version /\ capture = "pausing")
         /\ intervals' = intervals
    BY <1>1 DEF Start, Pause, Resume, StageEnd, InRange, NotEnding
<1>3. /\ intervals' \subseteq Rows
      /\ \A g \in Generations : Fault(g) => Fault(g)'
    <2>1. CASE Resume(o)
        <3>1. Interval(gen + 1, "resume") \in Rows
            BY <1>1, <2>1 DEF Resume, TypeOK, Rows
        <3>2. intervals' = Closed(intervals, {"paused"}) \cup {Interval(gen + 1, "resume")}
            BY <2>1 DEF Resume, ResumeGap
        <3>3. \A i \in intervals : \E j \in intervals' : j.gen = i.gen /\ j.kind = i.kind
            BY <1>1, <3>2, ClosedRow DEF TypeOK
        <3>4. Closed(intervals, {"paused"}) \subseteq Rows
            BY <1>1, ClosedRow DEF TypeOK
        <3> QED BY <3>1, <3>2, <3>3, <3>4 DEF Fault
    <2>2. CASE intervals' = intervals
        BY <1>1, <2>2 DEF TypeOK, Fault
    <2> QED BY <2>1, <2>2 DEF Start, Pause, StageEnd
<1>4. TypeOK'
    <2>1. intent' \in {None} \cup Intents
        <3>1. [by |-> o, expired |-> FALSE] \in Intents
            BY DEF Intents
        <3> QED BY <1>1, <3>1 DEF TypeOK, Start, Pause, Resume, StageEnd
    <2> QED BY <1>1, <1>2, <1>3, <2>1 DEF TypeOK, CaptureStates
<1>5. InRange'
    BY <1>1, <1>2 DEF InRange, TypeOK, Leases, Handler
<1>6. HolderIsLeased'
    BY <1>1, <1>2 DEF HolderIsLeased, InRange, TypeOK, Handler
<1>7. ActiveIsClaimed' /\ OneSocketPerGeneration' /\ StopIsVerified'
    BY <1>1 DEF CaptureInv, ActiveIsClaimed, OneSocketPerGeneration, StopIsVerified
<1>8. EndHoldsNoLease' /\ EndStopsListening'
    BY <1>1, <1>2 DEF EndHoldsNoLease, EndStopsListening
<1>9. SilentBefore'
    BY <1>1, <1>2 DEF CaptureInv, SilentBefore, TypeOK
<1>10. SilenceIsOnRecord'
    <2>1. CASE Resume(o)
        <3>1. Interval(gen + 1, "resume") \in intervals'
            BY <2>1 DEF Resume, ResumeGap
        <3> QED BY <3>1 DEF SilenceIsOnRecord
    <2>2. CASE Start(o)
        BY <1>1, <2>2 DEF SilenceIsOnRecord, Start, InRange
    <2>3. CASE Pause(o) \/ StageEnd(o)
        BY <1>1, <2>3 DEF CaptureInv, SilenceIsOnRecord, Pause, StageEnd
    <2> QED BY <2>1, <2>2, <2>3
<1>11. \A g \in Generations : Over(g)' => Over(g)
    BY <1>1, <1>2 DEF Over, TypeOK, InRange
<1>12. LateVoiceIsOnRecord'
    <2>1. \A c \in Sockets : socket[c].mic => socket[c].gen \in Generations
        BY MicHasGeneration
    <2>2. \A c \in Sockets, g \in Generations :
              g = socket[c].gen /\ socket[c].mic /\ Over(g)' => Fault(g)'
        BY <1>3, <1>11 DEF CaptureInv, LateVoiceIsOnRecord
    <2> QED BY <1>1, <2>1, <2>2 DEF LateVoiceIsOnRecord, Over, Fault
<1>13. NoSilentLoss'
    <2>1. \A g \in Generations : Loose(g)' => Loose(g)
        BY <1>1 DEF Loose
    <2>2. \A g \in Generations : Loose(g) /\ Over(g) => Fault(g)
        BY DEF CaptureInv, NoSilentLoss, Fault
    <2>3. \A g \in Generations : Loose(g)' /\ Over(g)' => Fault(g)'
        BY <1>3, <1>11, <2>1, <2>2
    <2> QED BY <2>3 DEF NoSilentLoss, Fault
<1>14. ViewsAreOld' /\ VersionTellsState'
    BY <1>1, <1>2 DEF CaptureInv, ViewsAreOld, VersionTellsState, TypeOK, Views
<1> QED BY <1>4, <1>5, <1>6, <1>7, <1>8, <1>9, <1>10, <1>12, <1>13, <1>14 DEF CaptureInv

-----------------------------------------------------------------------------
(* The steps of a serving handler preserve the invariant.                  *)

\* A socket that has claimed its generation is the only one to have done so.
LEMMA Serving ==
    ASSUME CaptureInv, NEW c \in Sockets,
           socket[c].pc \notin {"new", "admitted", "gone"} \/ socket[c].mic
    PROVE  /\ socket[c].gen \in Generations /\ socket[c].gen <= gen
           /\ socket[c].gen <= MaxGeneration /\ socket[c].claimed
           /\ gen \in Generations
           /\ \A d \in Sockets :
                socket[d].claimed /\ socket[d].gen = socket[c].gen => d = c
           /\ socket[c].gen = gen /\ capture \in {"resuming", "reconnecting"}
                => ~socket[c].mic
<1> USE CaptureAssumption
<1>1. socket[c].claimed
    BY DEF CaptureInv, ActiveIsClaimed
<1>2. socket[c].gen \in Generations /\ socket[c].gen <= gen /\ socket[c].gen <= MaxGeneration
    BY <1>1, MicHasGeneration DEF CaptureInv, InRange
<1>3. gen \in Generations
    BY <1>2 DEF CaptureInv, TypeOK
<1>4. \A d \in Sockets : socket[d].claimed /\ socket[d].gen = socket[c].gen => d = c
    BY <1>1 DEF CaptureInv, OneSocketPerGeneration
<1>5. socket[c].gen = gen /\ capture \in {"resuming", "reconnecting"}
          => ~socket[c].mic
    BY <1>1 DEF CaptureInv, HolderIsLeased
<1> QED BY <1>1, <1>2, <1>3, <1>4, <1>5

LEMMA AdmitKeeps ==
    ASSUME CaptureInv, NEW c \in Sockets, Admit(c)
    PROVE  CaptureInv'
<1> USE CaptureAssumption
<1>1. /\ UNCHANGED <<capture, gen, version, lease, intent, endedBy, intervals>>
      /\ audio' = audio /\ view' = view
      /\ socket[c].pc = "new" /\ gen <= MaxGeneration /\ capture # "created"
      /\ socket' = [socket EXCEPT ![c].pc = "admitted", ![c].gen = gen]
    BY DEF Admit, stored
<1>2. /\ socket' \in [Sockets -> Handler]
      /\ socket'[c].pc = "admitted" /\ socket'[c].gen = gen
      /\ ~socket[c].claimed /\ ~socket'[c].claimed /\ ~socket'[c].mic
      /\ \A d \in Sockets : d # c => socket'[d] = socket[d]
    <2> DEFINE h == [socket[c] EXCEPT !.pc = "admitted", !.gen = gen]
    <2>1. /\ socket[c] \in Handler /\ gen \in {0} \cup Generations
          /\ ~socket[c].claimed /\ ~socket[c].mic
        BY <1>1 DEF CaptureInv, TypeOK, ActiveIsClaimed
    <2>2. h \in Handler /\ h.pc = "admitted" /\ h.gen = gen /\ ~h.claimed /\ ~h.mic
        BY <2>1 DEF Handler
    <2>3. socket' = [socket EXCEPT ![c] = h]
        BY <1>1
    <2>4. TypeOK
        BY DEF CaptureInv
    <2> HIDE DEF h
    <2> QED BY <2>1, <2>2, <2>3, <2>4, HandlerTyped
<1>3. TypeOK'
    BY <1>1, <1>2 DEF CaptureInv, TypeOK
<1>4. gen >= 1
    BY <1>1 DEF CaptureInv, InRange, TypeOK
<1>5. InRange'
    <2>1. \A d \in Sockets :
              /\ socket'[d].gen <= gen /\ socket'[d].gen <= MaxGeneration
              /\ socket'[d].pc # "new" => socket'[d].gen >= 1
        BY <1>1, <1>2, <1>4 DEF CaptureInv, InRange, TypeOK
    <2> QED BY <1>1, <2>1 DEF CaptureInv, InRange
<1>6. HolderIsLeased' /\ ActiveIsClaimed' /\ OneSocketPerGeneration'
    BY <1>1, <1>2 DEF CaptureInv, HolderIsLeased, ActiveIsClaimed, OneSocketPerGeneration
<1>7. EndHoldsNoLease' /\ EndStopsListening' /\ SilenceIsOnRecord' /\ SilentBefore'
    BY <1>1
       DEF CaptureInv, EndHoldsNoLease, EndStopsListening, SilenceIsOnRecord, SilentBefore
<1>8. StopIsVerified' /\ LateVoiceIsOnRecord'
    BY <1>1, <1>2 DEF CaptureInv, StopIsVerified, LateVoiceIsOnRecord, Over, Fault
<1>9. NoSilentLoss' /\ ViewsAreOld' /\ VersionTellsState'
    BY <1>1 DEF CaptureInv, NoSilentLoss, Loose, Over, ViewsAreOld, VersionTellsState
<1> QED BY <1>3, <1>5, <1>6, <1>7, <1>8, <1>9 DEF CaptureInv

LEMMA AcquireKeeps ==
    ASSUME CaptureInv, NEW c \in Sockets, Acquire(c)
    PROVE  CaptureInv'
<1> USE CaptureAssumption
<1>1. /\ UNCHANGED <<capture, gen, version, intent, endedBy, intervals>>
      /\ audio' = audio /\ view' = view
      /\ socket[c].pc = "admitted" /\ socket[c].gen = gen /\ intent = None
      /\ capture \in {"resuming", "reconnecting"} /\ Vacant
      /\ lease' = [gen |-> gen, socket |-> c, live |-> TRUE]
      /\ socket' = [socket EXCEPT ![c].pc = "leased", ![c].claimed = TRUE]
    BY DEF Acquire, NotEnding
<1>2. gen \in Generations /\ gen <= MaxGeneration
    BY <1>1 DEF CaptureInv, InRange, TypeOK
<1>3. /\ socket' \in [Sockets -> Handler]
      /\ socket'[c].pc = "leased" /\ socket'[c].gen = gen /\ socket'[c].claimed
      /\ ~socket'[c].mic
      /\ \A d \in Sockets : d # c => socket'[d] = socket[d]
    <2> DEFINE h == [socket[c] EXCEPT !.pc = "leased", !.claimed = TRUE]
    <2>1. socket[c] \in Handler /\ ~socket[c].mic
        BY <1>1 DEF CaptureInv, TypeOK, ActiveIsClaimed
    <2>2. h \in Handler /\ h.pc = "leased" /\ h.gen = gen /\ h.claimed /\ ~h.mic
        BY <1>1, <2>1 DEF Handler
    <2>3. socket' = [socket EXCEPT ![c] = h]
        BY <1>1
    <2>4. TypeOK
        BY DEF CaptureInv
    <2> HIDE DEF h
    <2> QED BY <2>2, <2>3, <2>4, HandlerTyped
<1>4. TypeOK'
    <2>1. lease' \in Leases
        BY <1>1, <1>2 DEF Leases
    <2> QED BY <1>1, <1>3, <2>1 DEF CaptureInv, TypeOK
<1>5. \A d \in Sockets : socket[d].claimed => socket[d].gen # gen
    BY <1>1 DEF CaptureInv, HolderIsLeased, Vacant
<1>6. lease' # None /\ lease'.gen = gen /\ lease'.socket = c
    <2>1. lease' \in Leases
        BY <1>1, <1>2 DEF Leases
    <2> QED BY <1>1, <2>1, NoneIsNoRow
<1>7. InRange'
    BY <1>1, <1>2, <1>3, <1>6 DEF CaptureInv, InRange
<1>8. HolderIsLeased'
    BY <1>1, <1>3, <1>5, <1>6 DEF HolderIsLeased
<1>9. ActiveIsClaimed'
    BY <1>3 DEF CaptureInv, ActiveIsClaimed
<1>10. OneSocketPerGeneration'
    <2>1. \A d \in Sockets : d # c /\ socket'[d].claimed => socket'[d].gen # socket'[c].gen
        BY <1>3, <1>5
    <2>2. \A d, e \in Sockets :
              /\ d # c /\ e # c /\ socket'[d].claimed /\ socket'[e].claimed
              /\ socket'[d].gen = socket'[e].gen
              => d = e
        BY <1>3 DEF CaptureInv, OneSocketPerGeneration
    <2> QED BY <2>1, <2>2 DEF OneSocketPerGeneration
<1>11. EndHoldsNoLease' /\ EndStopsListening' /\ SilenceIsOnRecord' /\ SilentBefore'
    BY <1>1
       DEF CaptureInv, EndHoldsNoLease, EndStopsListening, SilenceIsOnRecord, SilentBefore
<1>12. StopIsVerified'
    BY <1>1, <1>3 DEF CaptureInv, StopIsVerified
<1>13. LateVoiceIsOnRecord'
    <2>1. \A d \in Sockets : socket'[d].mic => d # c /\ socket'[d] = socket[d]
        BY <1>3
    <2>2. \A d \in Sockets :
              socket[d].mic /\ Over(socket[d].gen) => Fault(socket[d].gen)
        BY DEF CaptureInv, LateVoiceIsOnRecord
    <2>3. ASSUME NEW d \in Sockets, NEW g, g = socket'[d].gen,
                 socket'[d].mic, Over(g)'
          PROVE  Fault(g)'
        <3>1. Over(g) => Fault(g)
            BY <2>1, <2>2, <2>3
        <3> QED BY <1>1, <2>3, <3>1 DEF Over, Fault
    <2> QED BY <2>3 DEF LateVoiceIsOnRecord, Over, Fault
<1>14. NoSilentLoss' /\ ViewsAreOld' /\ VersionTellsState'
    BY <1>1 DEF CaptureInv, NoSilentLoss, Loose, Over, ViewsAreOld, VersionTellsState
<1> QED BY <1>4, <1>7, <1>8, <1>9, <1>10, <1>11, <1>12, <1>13, <1>14 DEF CaptureInv

LEMMA ConnectedKeeps ==
    ASSUME CaptureInv, NEW c \in Sockets, Connected(c)
    PROVE  CaptureInv'
<1> USE CaptureAssumption
<1>1. /\ UNCHANGED <<gen, lease, intent, endedBy, intervals>>
      /\ audio' = audio /\ view' = view /\ version' = version + 1
      /\ socket[c].pc = "leased" /\ Holds(c) /\ socket[c].gen = gen
      /\ capture \in {"resuming", "reconnecting"} /\ capture' = "listening"
      /\ socket' = [socket EXCEPT ![c].pc = "serving", ![c].mic = TRUE]
    BY DEF Connected, Holds
<1>2. gen \in Generations /\ gen <= MaxGeneration /\ socket[c].claimed
    <2>1. socket[c].pc \notin {"new", "admitted", "gone"}
        BY <1>1
    <2> QED BY <1>1, <2>1, Serving
<1>3. /\ socket' \in [Sockets -> Handler]
      /\ socket'[c].pc = "serving" /\ socket'[c].gen = gen /\ socket'[c].claimed
      /\ socket'[c].mic
      /\ \A d \in Sockets : d # c => socket'[d] = socket[d]
    <2> DEFINE h == [socket[c] EXCEPT !.pc = "serving", !.mic = TRUE]
    <2>1. socket[c] \in Handler /\ socket[c].claimed
        BY <1>1 DEF CaptureInv, TypeOK, ActiveIsClaimed
    <2>2. h \in Handler /\ h.pc = "serving" /\ h.gen = gen /\ h.claimed /\ h.mic
        BY <1>1, <2>1 DEF Handler
    <2>3. socket' = [socket EXCEPT ![c] = h]
        BY <1>1
    <2>4. TypeOK
        BY DEF CaptureInv
    <2> HIDE DEF h
    <2> QED BY <2>2, <2>3, <2>4, HandlerTyped
<1>4. TypeOK'
    BY <1>1, <1>3 DEF CaptureInv, TypeOK, CaptureStates
<1>5. InRange'
    BY <1>1, <1>2, <1>3 DEF CaptureInv, InRange
<1>6. HolderIsLeased' /\ ActiveIsClaimed' /\ OneSocketPerGeneration'
    BY <1>1, <1>3
       DEF CaptureInv, HolderIsLeased, ActiveIsClaimed, OneSocketPerGeneration
<1>7. intent = None
    BY <1>1 DEF CaptureInv, Holds, EndHoldsNoLease, EndStopsListening
<1>8. EndHoldsNoLease' /\ EndStopsListening' /\ SilenceIsOnRecord' /\ SilentBefore'
    BY <1>1, <1>7
       DEF CaptureInv, EndHoldsNoLease, EndStopsListening, SilenceIsOnRecord, SilentBefore
<1>9. StopIsVerified'
    BY <1>1, <1>3 DEF CaptureInv, StopIsVerified
<1>10. \A g \in Generations : Over(g)' => Over(g) /\ g < gen
    BY <1>1 DEF Over
<1>11. LateVoiceIsOnRecord'
    <2>1. \A d \in Sockets : socket'[d].mic /\ d # c => socket[d].mic /\ socket'[d] = socket[d]
        BY <1>3
    <2>2. \A d \in Sockets :
              socket[d].mic /\ Over(socket[d].gen) => Fault(socket[d].gen)
        BY DEF CaptureInv, LateVoiceIsOnRecord
    <2>3. ASSUME NEW d \in Sockets, NEW g, g = socket'[d].gen, socket'[d].mic, Over(g)'
          PROVE  Fault(g)'
        <3>1. g # gen
            BY <1>1, <1>2, <2>3 DEF Over
        <3>2. socket[d].mic /\ g = socket[d].gen /\ Over(g)
            BY <1>1, <1>3, <2>1, <2>3, <3>1 DEF Over
        <3>3. Fault(g)
            BY <2>2, <3>2
        <3> QED BY <1>1, <3>3 DEF Fault
    <2> QED BY <2>3 DEF LateVoiceIsOnRecord, Over, Fault
<1>12. NoSilentLoss'
    BY <1>1, <1>10 DEF CaptureInv, NoSilentLoss, Loose
<1>13. ViewsAreOld' /\ VersionTellsState'
    BY <1>1 DEF CaptureInv, ViewsAreOld, VersionTellsState, TypeOK, Views
<1> QED BY <1>4, <1>5, <1>6, <1>8, <1>9, <1>11, <1>12, <1>13 DEF CaptureInv

\* A frame is numbered, or given to the provider, by a socket whose microphone is on,
\* whatever became of its generation.
LEMMA VoiceKeeps ==
    ASSUME CaptureInv, NEW c \in Sockets, Speak(c) \/ Appended(c)
    PROVE  CaptureInv'
<1> USE CaptureAssumption
<1>1. /\ UNCHANGED <<capture, gen, version, lease, intent, endedBy, intervals>>
      /\ view' = view /\ socket[c].mic
      /\ \/ socket' = socket
         \/ At(c, "appending") /\ socket' = [socket EXCEPT ![c].pc = "serving"]
    BY DEF CaptureInv, ActiveIsClaimed, Speak, Appended, stored
<1>2. /\ socket[c].gen \in Generations /\ socket[c].claimed
      /\ \A d \in Sockets : socket[d].claimed /\ socket[d].gen = socket[c].gen => d = c
      /\ socket[c].gen = gen => capture \notin {"resuming", "reconnecting", "created"}
      /\ socket[c].gen <= gen
    <2>2. gen \in Generations => capture # "created"
        BY DEF CaptureInv, InRange
    <2> QED BY <1>1, <2>2, Serving
<1>3. /\ audio' \in [Generations -> Audio]
      /\ \A g \in Generations : g # socket[c].gen => audio'[g] = audio[g]
      /\ \A g \in Generations : audio'[g].received = audio[g].received
    <2>1. CASE Speak(c)
        <3> DEFINE a == [audio[socket[c].gen] EXCEPT !.heard = @ + 1]
        <3>1. audio[socket[c].gen] \in Audio /\ audio[socket[c].gen].heard < MaxFrames
            BY <1>2, <2>1 DEF Speak, CaptureInv, TypeOK
        <3>2. a \in Audio /\ a.received = audio[socket[c].gen].received
            BY <3>1 DEF Audio
        <3>3. audio' = [audio EXCEPT ![socket[c].gen] = a]
            BY <2>1 DEF Speak
        <3> HIDE DEF a
        <3> QED BY <1>2, <3>2, <3>3 DEF CaptureInv, TypeOK
    <2>2. CASE Appended(c)
        <3> DEFINE a == [audio[socket[c].gen] EXCEPT !.turn = "sent"]
        <3>1. audio[socket[c].gen] \in Audio
            BY <1>2, <2>2 DEF CaptureInv, TypeOK
        <3>2. a \in Audio /\ a.received = audio[socket[c].gen].received
            BY <3>1 DEF Audio
        <3>3. audio' = [audio EXCEPT ![socket[c].gen] = a]
            BY <2>2 DEF Appended
        <3> HIDE DEF a
        <3> QED BY <1>2, <3>2, <3>3 DEF CaptureInv, TypeOK
    <2> QED BY <2>1, <2>2
<1>4. /\ socket' \in [Sockets -> Handler]
      /\ SameButPc
      /\ socket'[c].pc = socket[c].pc \/ socket'[c].pc = "serving"
      /\ \A d \in Sockets : d # c => socket'[d].pc = socket[d].pc
    <2>1. TypeOK
        BY DEF CaptureInv
    <2>2. CASE socket' = socket
        BY <1>1, <2>1, <2>2 DEF TypeOK, SameButPc
    <2>3. CASE socket' = [socket EXCEPT ![c].pc = "serving"]
        BY <2>1, <2>3, GoesTyped
    <2> QED BY <1>1, <2>2, <2>3
<1>5. TypeOK'
    BY <1>1, <1>3, <1>4 DEF CaptureInv, TypeOK
<1>6. InRange'
    <2>1. socket[c].pc # "new"
        BY <1>1 DEF CaptureInv, ActiveIsClaimed
    <2> QED BY <1>1, <1>4, <2>1 DEF CaptureInv, InRange, SameButPc
<1>7. HolderIsLeased'
    BY <1>1, <1>2, <1>4 DEF CaptureInv, HolderIsLeased, SameButPc
<1>8. ActiveIsClaimed' /\ OneSocketPerGeneration'
    BY <1>1, <1>2, <1>4
       DEF CaptureInv, ActiveIsClaimed, OneSocketPerGeneration, SameButPc
<1>9. EndHoldsNoLease' /\ EndStopsListening'
    BY <1>1 DEF CaptureInv, EndHoldsNoLease, EndStopsListening
<1>10. SilenceIsOnRecord'
    <2>1. gen > 1 => gen \in Generations
        BY DEF CaptureInv, TypeOK
    <2>2. gen > 1 => audio'[gen].received = audio[gen].received
        BY <1>3, <2>1
    <2> QED BY <1>1, <2>2 DEF CaptureInv, SilenceIsOnRecord
<1>11. SilentBefore'
    BY <1>1, <1>2, <1>3 DEF CaptureInv, SilentBefore, TypeOK
<1>12. StopIsVerified'
    <2>1. ASSUME NEW d \in Sockets, socket'[d].pc = "stopping"
          PROVE  audio'[socket'[d].gen].received = audio'[socket'[d].gen].heard
        <3>1. d # c /\ socket[d].pc = "stopping"
            BY <1>1, <1>4, <2>1 DEF CaptureInv, ActiveIsClaimed
        <3>2. socket[d].claimed /\ socket[d].gen \in Generations
            BY <3>1, Serving
        <3>3. audio'[socket[d].gen] = audio[socket[d].gen]
            BY <1>2, <1>3, <3>1, <3>2
        <3> QED BY <1>4, <3>1, <3>3 DEF CaptureInv, StopIsVerified, SameButPc
    <2> QED BY <2>1 DEF StopIsVerified
<1>13. LateVoiceIsOnRecord'
    BY <1>1, <1>4 DEF CaptureInv, LateVoiceIsOnRecord, Over, Fault, SameButPc
<1>14. NoSilentLoss'
    <2>1. \A g \in Generations : g = socket[c].gen /\ Over(g) => Fault(g)
        BY <1>1 DEF CaptureInv, LateVoiceIsOnRecord
    <2>2. \A g \in Generations : g # socket[c].gen /\ Loose(g)' => Loose(g)
        BY <1>3 DEF Loose
    <2> QED BY <1>1, <2>1, <2>2 DEF CaptureInv, NoSilentLoss, Over, Fault
<1>15. ViewsAreOld' /\ VersionTellsState'
    BY <1>1 DEF CaptureInv, ViewsAreOld, VersionTellsState
<1> QED BY <1>5, <1>6, <1>7, <1>8, <1>9, <1>10, <1>11, <1>12, <1>13, <1>14, <1>15
        DEF CaptureInv

LEMMA ReceiveFrameKeeps ==
    ASSUME CaptureInv, NEW c \in Sockets, ReceiveFrame(c)
    PROVE  CaptureInv'
<1> USE CaptureAssumption
<1>1. /\ UNCHANGED <<capture, gen, version, lease, intent, endedBy>>
      /\ view' = view /\ socket[c].pc = "serving" /\ socket[c].gen = gen
      /\ capture \in {"listening", "pausing"}
      /\ audio[gen].received < audio[gen].heard
      /\ audio' = [audio EXCEPT ![gen].received = @ + 1, ![gen].turn = "received"]
      /\ intervals' = Closed(intervals, Possible)
      /\ socket' = [socket EXCEPT ![c].pc = "appending"]
    BY DEF ReceiveFrame, Receivable, FrameIsNew, Holds
<1>2. /\ gen \in Generations /\ socket[c].claimed
      /\ \A d \in Sockets : socket[d].claimed /\ socket[d].gen = gen => d = c
    <2>1. socket[c].pc \notin {"new", "admitted", "gone"}
        BY <1>1
    <2> QED BY <1>1, <2>1, Serving
<1>3. /\ audio' \in [Generations -> Audio]
      /\ \A g \in Generations : g # gen => audio'[g] = audio[g]
      /\ audio'[gen].received > 0
    <2> DEFINE a == [audio[gen] EXCEPT !.received = @ + 1, !.turn = "received"]
    <2>1. audio[gen] \in Audio /\ audio \in [Generations -> Audio]
        BY <1>2 DEF CaptureInv, TypeOK
    <2>2. audio[gen].received + 1 \in 0 .. MaxFrames /\ audio[gen].received + 1 > 0
        BY <1>1, <2>1 DEF Audio
    <2>3. a \in Audio /\ a.received > 0
        BY <2>1, <2>2 DEF Audio
    <2>4. audio' = [audio EXCEPT ![gen] = a]
        BY <1>1
    <2> HIDE DEF a
    <2> QED BY <1>2, <2>1, <2>3, <2>4
<1>4. /\ socket' \in [Sockets -> Handler]
      /\ socket'[c].pc = "appending"
      /\ SameButPc
      /\ \A d \in Sockets : d # c => socket'[d].pc = socket[d].pc
    BY <1>1, GoesTyped DEF CaptureInv
<1>5. /\ intervals' \subseteq Rows
      /\ \A i \in intervals : \E j \in intervals' : j.gen = i.gen /\ j.kind = i.kind
    BY <1>1, ClosedRow DEF CaptureInv, TypeOK
<1>6. \A g \in Generations : Fault(g) => Fault(g)'
    BY <1>5 DEF Fault
<1>7. TypeOK'
    BY <1>1, <1>3, <1>4, <1>5 DEF CaptureInv, TypeOK
<1>8. InRange'
    BY <1>1, <1>4 DEF CaptureInv, InRange, SameButPc
<1>9. HolderIsLeased' /\ SilenceIsOnRecord'
    BY <1>1, <1>3 DEF HolderIsLeased, SilenceIsOnRecord
<1>10. ActiveIsClaimed' /\ OneSocketPerGeneration'
    BY <1>1, <1>2, <1>4
       DEF CaptureInv, ActiveIsClaimed, OneSocketPerGeneration, SameButPc
<1>11. EndHoldsNoLease' /\ EndStopsListening'
    BY <1>1 DEF CaptureInv, EndHoldsNoLease, EndStopsListening
<1>12. SilentBefore'
    BY <1>1, <1>2, <1>3 DEF CaptureInv, SilentBefore
<1>13. StopIsVerified'
    <2>1. ASSUME NEW d \in Sockets, socket'[d].pc = "stopping"
          PROVE  audio'[socket'[d].gen].received = audio'[socket'[d].gen].heard
        <3>1. d # c /\ socket[d].pc = "stopping"
            BY <1>4, <2>1
        <3>2. socket[d].claimed /\ socket[d].gen \in Generations
            BY <3>1, Serving
        <3>3. audio'[socket[d].gen] = audio[socket[d].gen]
            BY <1>2, <1>3, <3>1, <3>2
        <3> QED BY <1>4, <3>1, <3>3 DEF CaptureInv, StopIsVerified, SameButPc
    <2> QED BY <2>1 DEF StopIsVerified
<1>14. \A g \in Generations : Over(g)' => Over(g) /\ g # gen
    BY <1>1, <1>2 DEF Over
<1>15. LateVoiceIsOnRecord'
    <2>1. \A d \in Sockets : socket'[d].mic
              => /\ socket[d].mic /\ socket'[d].gen = socket[d].gen
                 /\ socket[d].gen \in Generations
        BY <1>1, <1>4, Serving DEF SameButPc
    <2>2. \A d \in Sockets, g \in Generations :
              g = socket[d].gen /\ socket[d].mic /\ Over(g)' => Fault(g)'
        BY <1>6, <1>14 DEF CaptureInv, LateVoiceIsOnRecord
    <2> QED BY <2>1, <2>2 DEF LateVoiceIsOnRecord, Over, Fault
<1>16. NoSilentLoss'
    <2>1. \A g \in Generations : g # gen /\ Loose(g)' => Loose(g)
        BY <1>3 DEF Loose
    <2>2. \A g \in Generations : Loose(g) /\ Over(g) => Fault(g)
        BY DEF CaptureInv, NoSilentLoss, Fault
    <2>3. \A g \in Generations : Loose(g)' /\ Over(g)' => Fault(g)'
        BY <1>6, <1>14, <2>1, <2>2
    <2> QED BY <2>3 DEF NoSilentLoss, Fault
<1>17. ViewsAreOld' /\ VersionTellsState'
    BY <1>1 DEF CaptureInv, ViewsAreOld, VersionTellsState
<1> QED BY <1>7, <1>8, <1>9, <1>10, <1>11, <1>12, <1>13, <1>15, <1>16, <1>17
        DEF CaptureInv

LEMMA TurnSettlesKeeps ==
    ASSUME CaptureInv, NEW c \in Sockets, TurnSettles(c)
    PROVE  CaptureInv'
<1> USE CaptureAssumption
<1>1. /\ UNCHANGED <<capture, gen, version, lease, intent, endedBy, intervals>>
      /\ socket' = socket /\ view' = view
      /\ audio[gen].turn = "sent"
      /\ audio' = [audio EXCEPT ![gen].turn = "none"]
    BY DEF TurnSettles, stored
<1>2. gen \in Generations
    <2>1. socket[c].pc \notin {"new", "admitted", "gone"}
        BY DEF TurnSettles
    <2> QED BY <2>1, Serving
<1>3. /\ audio' \in [Generations -> Audio]
      /\ \A g \in Generations : g # gen => audio'[g] = audio[g]
      /\ \A g \in Generations :
            audio'[g].received = audio[g].received /\ audio'[g].heard = audio[g].heard
    BY <1>1, <1>2 DEF CaptureInv, TypeOK, Audio
<1>4. TypeOK' /\ InRange'
    BY <1>1, <1>3 DEF CaptureInv, TypeOK, InRange
<1>5. HolderIsLeased' /\ ActiveIsClaimed' /\ OneSocketPerGeneration'
    BY <1>1 DEF CaptureInv, HolderIsLeased, ActiveIsClaimed, OneSocketPerGeneration
<1>6. EndHoldsNoLease' /\ EndStopsListening'
    BY <1>1 DEF CaptureInv, EndHoldsNoLease, EndStopsListening
<1>7. SilenceIsOnRecord'
    BY <1>1, <1>2, <1>3 DEF CaptureInv, SilenceIsOnRecord
<1>8. SilentBefore'
    <2>1. audio[gen] # NoAudio
        BY <1>1 DEF NoAudio
    <2> QED BY <1>1, <1>2, <1>3, <2>1 DEF CaptureInv, SilentBefore, TypeOK
<1>9. StopIsVerified'
    <2>1. \A d \in Sockets : socket[d].pc = "stopping" => socket[d].gen \in Generations
        BY Serving
    <2> QED BY <1>1, <1>3, <2>1 DEF CaptureInv, StopIsVerified
<1>10. LateVoiceIsOnRecord'
    BY <1>1 DEF CaptureInv, LateVoiceIsOnRecord, Over, Fault
<1>11. NoSilentLoss'
    <2>1. \A g \in Generations : Loose(g)' => Loose(g)
        BY <1>1, <1>3 DEF Loose
    <2> QED BY <1>1, <2>1 DEF CaptureInv, NoSilentLoss, Over
<1>12. ViewsAreOld' /\ VersionTellsState'
    BY <1>1 DEF CaptureInv, ViewsAreOld, VersionTellsState
<1> QED BY <1>4, <1>5, <1>6, <1>7, <1>8, <1>9, <1>10, <1>11, <1>12 DEF CaptureInv

LEMMA StopKeeps ==
    ASSUME CaptureInv, NEW c \in Sockets, Stop(c)
    PROVE  CaptureInv'
<1> USE CaptureAssumption
<1>1. /\ UNCHANGED <<capture, gen, version, lease, intent, endedBy, intervals>>
      /\ audio' = audio /\ view' = view
      /\ socket[c].pc = "serving" /\ socket[c].gen = gen /\ capture = "pausing"
      /\ audio[gen].received = audio[gen].heard
      /\ socket' = [socket EXCEPT ![c].pc = "stopping", ![c].mic = FALSE]
    BY DEF Stop, Holds, stored
<1>2. /\ socket' \in [Sockets -> Handler]
      /\ socket'[c].pc = "stopping" /\ socket'[c].gen = gen /\ socket'[c].claimed
      /\ ~socket'[c].mic
      /\ \A d \in Sockets : d # c => socket'[d] = socket[d]
    <2> DEFINE h == [socket[c] EXCEPT !.pc = "stopping", !.mic = FALSE]
    <2>1. socket[c] \in Handler /\ socket[c].claimed
        BY <1>1 DEF CaptureInv, TypeOK, ActiveIsClaimed
    <2>2. h \in Handler /\ h.pc = "stopping" /\ h.gen = gen /\ h.claimed /\ ~h.mic
        BY <1>1, <2>1 DEF Handler
    <2>3. socket' = [socket EXCEPT ![c] = h]
        BY <1>1
    <2>4. TypeOK
        BY DEF CaptureInv
    <2> HIDE DEF h
    <2> QED BY <2>2, <2>3, <2>4, HandlerTyped
<1>3. TypeOK' /\ InRange'
    BY <1>1, <1>2 DEF CaptureInv, TypeOK, InRange
<1>4. HolderIsLeased' /\ ActiveIsClaimed' /\ OneSocketPerGeneration'
    BY <1>1, <1>2 DEF CaptureInv, HolderIsLeased, ActiveIsClaimed, OneSocketPerGeneration
<1>5. EndHoldsNoLease' /\ EndStopsListening' /\ SilenceIsOnRecord' /\ SilentBefore'
    BY <1>1
       DEF CaptureInv, EndHoldsNoLease, EndStopsListening, SilenceIsOnRecord, SilentBefore
<1>6. StopIsVerified'
    BY <1>1, <1>2 DEF CaptureInv, StopIsVerified
<1>7. LateVoiceIsOnRecord'
    BY <1>1, <1>2 DEF CaptureInv, LateVoiceIsOnRecord, Over, Fault
<1>8. NoSilentLoss' /\ ViewsAreOld' /\ VersionTellsState'
    BY <1>1 DEF CaptureInv, NoSilentLoss, Loose, Over, ViewsAreOld, VersionTellsState
<1> QED BY <1>3, <1>4, <1>5, <1>6, <1>7, <1>8 DEF CaptureInv

\* A pause ends a generation without a gap: the stop was verified, its turn is settled
\* and no other socket ever had a microphone in it.
LEMMA PausedKeeps ==
    ASSUME CaptureInv, NEW c \in Sockets, Paused(c)
    PROVE  CaptureInv'
<1> USE CaptureAssumption
<1>1. /\ UNCHANGED <<gen, intent, endedBy>> /\ audio' = audio /\ view' = view
      /\ socket[c].pc = "stopping" /\ socket[c].gen = gen /\ capture = "pausing"
      /\ audio[gen].turn = "none"
      /\ capture' = "paused" /\ version' = version + 1 /\ lease' = None
      /\ intervals' = intervals \cup {Interval(gen, "paused")}
      /\ socket' = [socket EXCEPT ![c].pc = "paused"]
    BY DEF Paused, Holds
<1>2. /\ gen \in Generations /\ gen <= MaxGeneration /\ socket[c].claimed
      /\ \A d \in Sockets : socket[d].claimed /\ socket[d].gen = gen => d = c
    <2>1. socket[c].pc \notin {"new", "admitted", "gone"}
        BY <1>1
    <2> QED BY <1>1, <2>1, Serving
<1>3. /\ socket' \in [Sockets -> Handler]
      /\ socket'[c].pc = "paused"
      /\ SameButPc
      /\ \A d \in Sockets : d # c => socket'[d].pc = socket[d].pc
    BY <1>1, GoesTyped DEF CaptureInv
<1>4. Interval(gen, "paused") \in Rows
    BY <1>2 DEF Rows
<1>5. TypeOK'
    <2>1. intervals' \subseteq Rows
        BY <1>1, <1>4 DEF CaptureInv, TypeOK
    <2>2. capture' \in CaptureStates /\ version' \in Nat /\ gen' \in {0} \cup Generations
        BY <1>1, <1>2 DEF CaptureInv, TypeOK, CaptureStates
    <2>3. intent' \in {None} \cup Intents /\ endedBy' \in {None} \cup Owners
        BY <1>1 DEF CaptureInv, TypeOK
    <2>4. audio' \in [Generations -> Audio] /\ view' \in [Owners -> Views]
        BY <1>1 DEF CaptureInv, TypeOK
    <2> QED BY <1>1, <1>3, <2>1, <2>2, <2>3, <2>4 DEF TypeOK
<1>6. InRange'
    BY <1>1, <1>2, <1>3 DEF CaptureInv, InRange, SameButPc
<1>7. HolderIsLeased' /\ SilenceIsOnRecord' /\ EndHoldsNoLease' /\ EndStopsListening'
    BY <1>1 DEF HolderIsLeased, SilenceIsOnRecord, EndHoldsNoLease, EndStopsListening
<1>8. ActiveIsClaimed' /\ OneSocketPerGeneration'
    BY <1>1, <1>2, <1>3
       DEF CaptureInv, ActiveIsClaimed, OneSocketPerGeneration, SameButPc
<1>9. SilentBefore'
    BY <1>1 DEF CaptureInv, SilentBefore
<1>10. StopIsVerified'
    BY <1>1, <1>3 DEF CaptureInv, StopIsVerified, SameButPc
<1>11. \A g \in Generations : Fault(g) => Fault(g)'
    BY <1>1 DEF Fault
<1>12. \A g \in Generations : g < gen => Over(g)
    BY DEF Over
<1>13. LateVoiceIsOnRecord'
    <2>1. \A d \in Sockets : socket'[d].mic
              => /\ socket[d].mic /\ socket'[d].gen = socket[d].gen
                 /\ socket[d].gen \in Generations /\ socket[d].gen < gen
        <3>1. ASSUME NEW d \in Sockets, socket'[d].mic
              PROVE  /\ socket[d].mic /\ socket'[d].gen = socket[d].gen
                     /\ socket[d].gen \in Generations /\ socket[d].gen < gen
            <4>1. d # c /\ socket[d].mic
                BY <1>1, <1>3, <3>1 DEF CaptureInv, ActiveIsClaimed, SameButPc
            <4>2. socket[d].gen \in Generations /\ socket[d].gen <= gen /\ socket[d].claimed
                BY <4>1, Serving
            <4> QED BY <1>2, <1>3, <4>1, <4>2 DEF SameButPc
        <3> QED BY <3>1
    <2>2. \A d \in Sockets, g \in Generations :
              g = socket[d].gen /\ socket[d].mic /\ g < gen => Fault(g)'
        BY <1>11, <1>12 DEF CaptureInv, LateVoiceIsOnRecord
    <2> QED BY <2>1, <2>2 DEF LateVoiceIsOnRecord, Fault
<1>14. NoSilentLoss'
    <2>1. \A g \in Generations : Loose(g)' => Loose(g)
        BY <1>1 DEF Loose
    <2>2. \A g \in Generations : g > gen => ~Loose(g)
        BY DEF CaptureInv, SilentBefore, Loose, NoAudio
    <2>3. ~Loose(gen)
        <3>1. audio[gen].received = audio[gen].heard
            BY <1>1 DEF CaptureInv, StopIsVerified
        <3>2. audio[gen].heard \in Nat
            BY <1>2 DEF CaptureInv, TypeOK, Audio
        <3> QED BY <1>1, <3>1, <3>2 DEF Loose
    <2>4. \A g \in Generations : Loose(g) /\ Over(g) => Fault(g)
        BY DEF CaptureInv, NoSilentLoss, Fault
    <2>5. \A g \in Generations : Loose(g) => g < gen
        BY <1>2, <2>2, <2>3
    <2>6. \A g \in Generations : Loose(g)' => Fault(g)'
        BY <1>11, <1>12, <2>1, <2>4, <2>5
    <2> QED BY <2>6 DEF NoSilentLoss, Fault
<1>15. ViewsAreOld' /\ VersionTellsState'
    BY <1>1 DEF CaptureInv, ViewsAreOld, VersionTellsState, TypeOK, Views
<1> QED BY <1>5, <1>6, <1>7, <1>8, <1>9, <1>10, <1>13, <1>14, <1>15 DEF CaptureInv

-----------------------------------------------------------------------------
(* Theorems.                                                               *)

\* Every step of the meeting's audio intake keeps the invariant: the properties below
\* and what they rest on, for any number of sockets, pages, generations and frames.
THEOREM CaptureInvariant == Spec => []CaptureInv
<1>1. Init => CaptureInv
    BY InitInv
<1>2. CaptureInv /\ [Next]_vars => CaptureInv'
    <2> SUFFICES ASSUME CaptureInv, [Next]_vars PROVE CaptureInv'
        OBVIOUS
    <2>1. CASE Next
        <3>1. TypeOK /\ InRange
            BY DEF CaptureInv
        <3>2. CASE FenceStep
            BY <3>2, FenceKeeps
        <3>3. CASE EndStep
            BY <3>3, EndKeeps
        <3>4. CASE QuietStep
            BY <3>4, QuietKeeps
        <3>5. CASE RequestStep
            BY <3>5, LookKeeps, RequestKeeps DEF RequestStep
        <3>6. CASE ServeStep
            BY <3>6, AdmitKeeps, AcquireKeeps, ConnectedKeeps, VoiceKeeps, ReceiveFrameKeeps,
               TurnSettlesKeeps, StopKeeps, PausedKeeps DEF ServeStep
        <3>7. CASE LeaseExpires \/ StopDeadline \/ DropLease
            BY <3>7, ClockKeeps
        <3> QED BY <2>1, <3>1, <3>2, <3>3, <3>4, <3>5, <3>6, <3>7, Shapes
    <2>2. CASE UNCHANGED vars
        <3>1. QuietStep
            BY <2>2 DEF vars, stored, QuietStep, SocketRests
        <3> QED BY <3>1, QuietKeeps
    <2> QED BY <2>1, <2>2
<1> QED BY <1>1, <1>2, PTL DEF Spec

\* The store's rows, the sockets and the pages keep their types.
THEOREM TypeCorrect == Spec => []TypeOK
<1>1. CaptureInv => TypeOK
    BY DEF CaptureInv
<1> QED BY <1>1, CaptureInvariant, PTL

\* No audio that the browser captured is lost without a gap of its generation on record.
THEOREM NothingIsLostSilently == Spec => []NoSilentLoss
<1>1. CaptureInv => NoSilentLoss
    BY DEF CaptureInv
<1> QED BY <1>1, CaptureInvariant, PTL

\* While a later generation has delivered no frame, a gap stays open on record.
THEOREM SilenceIsRecorded == Spec => []SilenceIsOnRecord
<1>1. CaptureInv => SilenceIsOnRecord
    BY DEF CaptureInv
<1> QED BY <1>1, CaptureInvariant, PTL

\* Whatever was captured is transcribed or on record as a gap, and so is silence.
THEOREM AudioStaysAccounted == Spec => []AudioIsAccounted
<1>1. CaptureInv => AudioIsAccounted
    BY DEF CaptureInv, AudioIsAccounted
<1> QED BY <1>1, CaptureInvariant, PTL

\* A generation has at most one socket that ever held its lease.
THEOREM GenerationIsFenced == Spec => []OneSocketPerGeneration
<1>1. CaptureInv => OneSocketPerGeneration
    BY DEF CaptureInv
<1> QED BY <1>1, CaptureInvariant, PTL

\* A staged end never lets the meeting listen again.
THEOREM StagedEndHolds == Spec => []EndStopsListening
<1>1. CaptureInv => EndStopsListening
    BY DEF CaptureInv
<1> QED BY <1>1, CaptureInvariant, PTL

\* A page whose version is current was decided on the state that stands.
THEOREM PagesDecideOnTruth == Spec => []VersionTellsState
<1>1. CaptureInv => VersionTellsState
    BY DEF CaptureInv
<1> QED BY <1>1, CaptureInvariant, PTL

\* Intake that is closed stays closed: no late step changes its state or its gaps.
THEOREM ClosedStaysClosed == Spec => ClosedIsFrozen
<1>1. CaptureInv /\ [Next]_vars =>
          [capture = "finalizing" =>
              UNCHANGED <<capture, gen, version, endedBy, intervals>>]_vars
    <2> SUFFICES ASSUME CaptureInv, Next, capture = "finalizing"
                 PROVE  UNCHANGED <<capture, gen, version, endedBy, intervals>>
        OBVIOUS
    <2>1. CASE FenceStep \/ EndStep
        BY <2>1 DEF FenceStep, EndStep
    <2>2. CASE QuietStep
        BY <2>2 DEF QuietStep, stored
    <2>3. CASE RequestStep
        BY <2>3 DEF RequestStep, Look, Start, Pause, Resume, StageEnd, stored
    <2>4. CASE ServeStep
        BY <2>4 DEF ServeStep, Admit, Acquire, Connected, Speak, ReceiveFrame, Receivable,
                    Appended, TurnSettles, Stop, Paused, stored
    <2>5. CASE LeaseExpires \/ StopDeadline \/ DropLease
        BY <2>5 DEF LeaseExpires, StopDeadline, DropLease
    <2>6. TypeOK /\ InRange
        BY DEF CaptureInv
    <2> QED BY <2>1, <2>2, <2>3, <2>4, <2>5, <2>6, Shapes
<1> QED BY <1>1, CaptureInvariant, PTL DEF Spec, ClosedIsFrozen
=============================================================================
