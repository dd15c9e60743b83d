------------------------- MODULE ServiceCapture -------------------------
(***************************************************************************)
(* How the account service takes in the audio of one meeting: the capture  *)
(* state, generation, connection lease, frame receipts, intervals and end  *)
(* intent that prototype/postgres_service_store.py keeps, the WebSocket    *)
(* handler of prototype/service_audio_transport.py, the owner's requests   *)
(* and the supervisor that completes an end.                               *)
(*                                                                         *)
(* Each store method is one transaction under the session row's lock and   *)
(* is one action; the handler awaits between them, so they interleave.  A  *)
(* socket is one connection with an id of its own and is used once; two    *)
(* sockets may be served by two processes.  Transcripts, the contents of   *)
(* frames and the times of the clock are left out.                         *)
(***************************************************************************)
EXTENDS Integers, FiniteSets

CONSTANTS
    Sockets,        \* browser connections, each with its own connection_id
    Owners,         \* open pages of the owner, each with its own End key
    None,           \* no lease, no intent
    MaxGeneration,  \* bound: the last generation that a socket may join
    MaxFrames       \* bound: frames of one generation

ASSUME CaptureAssumption ==
    /\ IsFiniteSet(Sockets)
    /\ None \notin Owners
    /\ MaxGeneration \in Nat \ {0}
    /\ MaxFrames \in Nat

VARIABLES
    capture,    \* capture_state of an open session
    gen,        \* capture_generation
    version,    \* version of the session, which requests of the owner must name
    lease,      \* the row of service_capture_connection_lease, or None
    intent,     \* the row of service_end_intent, or None
    endedBy,    \* correlation_id of session_finalizing, or None
    intervals,  \* the rows of service_capture_interval
    audio,      \* for each generation, what became of its audio
    socket,     \* where each socket's handler is, and whether its browser may be recording
    view        \* what each page of the owner last read

stored == <<capture, gen, version, lease, intent, endedBy, intervals>>
vars == <<stored, audio, socket, view>>

\* A fenced generation is followed by one that nobody may join any more.
Generations == 1 .. MaxGeneration + 1

Leases == [gen : Generations, socket : Sockets, live : BOOLEAN]
Intents == [by : Owners, expired : BOOLEAN]

ASSUME NoneIsNoRow == None \notin Leases /\ None \notin Intents

\* heard counts the frames the browser numbered, received is last_sequence + 1.  A turn
\* is "received" until the provider has the frame and "sent" until every item of it is
\* completed and acknowledged.
NoAudio == [heard |-> 0, received |-> 0, turn |-> "none"]
NewSocket == [pc |-> "new", gen |-> 0, claimed |-> FALSE, mic |-> FALSE]

CaptureStates == {"created", "resuming", "listening", "pausing", "paused", "reconnecting",
                  "finalizing"}
Live == {"resuming", "listening", "pausing", "reconnecting"}
Stopped == {"paused", "reconnecting"}

\* kind tells the reason of a capture_unavailable interval: "resume" for
\* resume_pending, "fault" for every other.
Possible == {"resume", "fault"}
Rows == [gen : Generations, kind : Possible \cup {"paused"}, open : BOOLEAN]
Interval(g, k) == [gen |-> g, kind |-> k, open |-> TRUE]
Closed(rows, kinds) ==
    {IF i.kind \in kinds THEN [i EXCEPT !.open = FALSE] ELSE i : i \in rows}

Init ==
    /\ capture = "created" /\ gen = 0 /\ version = 0
    /\ lease = None /\ intent = None /\ endedBy = None
    /\ intervals = {}
    /\ audio = [g \in Generations |-> NoAudio]
    /\ socket = [c \in Sockets |-> NewSocket]
    /\ view = [o \in Owners |-> [capture |-> "created", gen |-> 0, version |-> 0]]

-----------------------------------------------------------------------------
(* Fencing a generation and closing intake.                                *)

\* Mutated: a gap that is open already is taken for the new one.
WithGapBug ==
    IF \E i \in intervals : i.open THEN intervals
    ELSE intervals \cup {Interval(gen, "fault")}

\* An open gap of this generation takes the new reason, else one is added.
WithGap == (intervals \ {Interval(gen, "resume")}) \cup {Interval(gen, "fault")}

Released == IF lease # None /\ lease.gen = gen THEN None ELSE lease

\* Mutated: a fence does not count as a new version.
NextVersionBug == version

NextVersion == version + 1

\* _mark_capture_discontinuity_locked; a disconnect does the same.
Fence ==
    /\ capture' = "reconnecting"
    /\ gen' = gen + 1
    /\ version' = NextVersion
    /\ lease' = Released
    /\ intervals' = WithGap
    /\ UNCHANGED <<intent, endedBy>>

\* session_finalizing, after a fence if the stop of the audio was not verified.
Finalize(o, verified) ==
    /\ endedBy = None
    /\ capture' = "finalizing" /\ endedBy' = o
    /\ gen' = IF verified THEN gen ELSE gen + 1
    /\ version' = IF verified THEN version + 1 ELSE version + 2
    /\ lease' = IF verified THEN lease ELSE Released
    /\ intervals' = Closed(IF verified THEN intervals ELSE WithGap, Possible \cup {"paused"})
    /\ UNCHANGED intent

-----------------------------------------------------------------------------
(* Requests of the owner.  A request that is sent again with the operation *)
(* key of one that was applied returns its result and changes nothing.     *)

Look(o) ==
    /\ view' = [view EXCEPT ![o] = [capture |-> capture, gen |-> gen, version |-> version]]
    /\ UNCHANGED <<stored, audio, socket>>

Expected(o) == view[o].version = version

\* Mutated: audio may resume although the owner has asked for the end.
NotEndingBug == TRUE

NotEnding == intent = None

Start(o) ==
    /\ NotEnding /\ Expected(o) /\ capture = "created"
    /\ capture' = "resuming" /\ gen' = gen + 1 /\ version' = version + 1
    /\ UNCHANGED <<lease, intent, endedBy, intervals, audio, socket, view>>

Pause(o) ==
    /\ NotEnding /\ Expected(o) /\ capture = "listening"
    /\ capture' = "pausing" /\ version' = version + 1
    /\ UNCHANGED <<gen, lease, intent, endedBy, intervals, audio, socket, view>>

ResumeGap == {Interval(gen + 1, "resume")}

Resume(o) ==
    /\ NotEnding /\ Expected(o) /\ capture = "paused"
    /\ gen < MaxGeneration
    /\ capture' = "resuming" /\ gen' = gen + 1 /\ version' = version + 1
    /\ intervals' = Closed(intervals, {"paused"}) \cup ResumeGap
    /\ UNCHANGED <<lease, intent, endedBy, audio, socket, view>>

\* End while audio may flow: only the intent is recorded, and capture must stop.
StageEnd(o) ==
    /\ intent = None /\ Expected(o) /\ capture \in {"listening", "pausing"}
    /\ capture' = "pausing"
    /\ version' = IF capture = "listening" THEN version + 1 ELSE version
    /\ intent' = [by |-> o, expired |-> FALSE]
    /\ UNCHANGED <<gen, lease, endedBy, intervals, audio, socket, view>>

EndNow(o) ==
    /\ intent = None /\ Expected(o) /\ capture \in Stopped \cup {"resuming"}
    /\ Finalize(o, capture # "resuming")
    /\ UNCHANGED <<audio, socket, view>>

\* The page that staged the end asks again with its key, after the audio stopped.
EndAgain(o) ==
    /\ intent # None /\ intent.by = o /\ capture \in Stopped
    /\ Finalize(o, TRUE)
    /\ UNCHANGED <<audio, socket, view>>

-----------------------------------------------------------------------------
(* The clock and the supervisor.                                           *)

\* A handler renews its lease in time, or it does not: a renewal of a live lease
\* changes nothing here and a renewal of an expired one is refused.
LeaseExpires ==
    /\ lease # None /\ lease.live
    /\ lease' = [lease EXCEPT !.live = FALSE]
    /\ UNCHANGED <<capture, gen, version, intent, endedBy, intervals, audio, socket, view>>

StopDeadline ==
    /\ intent # None /\ ~intent.expired
    /\ intent' = [intent EXCEPT !.expired = TRUE]
    /\ UNCHANGED <<capture, gen, version, lease, endedBy, intervals, audio, socket, view>>

\* Mutated: the stop deadline does not count.
StopGivenUpBug == FALSE

StopGivenUp == capture = "pausing" /\ intent.expired

\* complete_end_intent, called by the supervisor and by a handler that has paused.
EndCompletes == intent # None /\ (capture \in Stopped \/ StopGivenUp)
CompleteEnd == Finalize(intent.by, capture # "pausing")

SuperviseEnd == EndCompletes /\ CompleteEnd /\ UNCHANGED <<audio, socket, view>>

-----------------------------------------------------------------------------
(* A socket's handler, transaction by transaction.                         *)

At(c, pc) == socket[c].pc = pc
Goes(c, pc) == socket' = [socket EXCEPT ![c].pc = pc]

\* _capture_lease_locked, with the check of the generation before it.
Holds(c) ==
    /\ socket[c].gen = gen
    /\ lease # None /\ lease.live
    /\ lease.socket = c /\ lease.gen = gen

FencedOnExpiry == lease.gen = gen /\ capture \in Live

DropExpired ==
    /\ lease # None /\ ~lease.live
    /\ IF FencedOnExpiry THEN Fence
       ELSE lease' = None /\ UNCHANGED <<capture, gen, version, intent, endedBy, intervals>>

\* A connecting socket first lets the store drop an expired lease.  A socket that is
\* not admitted after that has left no trace, and is as good as new.
RecoverLease ==
    /\ \E c \in Sockets : At(c, "new")
    /\ DropExpired
    /\ UNCHANGED <<audio, socket, view>>

\* The browser named this generation, and the snapshot shows it ready for a socket.
Admit(c) ==
    /\ At(c, "new") /\ capture \in {"resuming", "reconnecting"}
    /\ gen <= MaxGeneration
    /\ socket' = [socket EXCEPT ![c].pc = "admitted", ![c].gen = gen]
    /\ UNCHANGED <<stored, audio, view>>

\* Mutated: an expired holder is replaced within its generation.
VacantBug == lease # None => lease.gen # gen \/ ~lease.live

Vacant == lease # None => lease.gen # gen

Acquire(c) ==
    /\ At(c, "admitted") /\ NotEnding
    /\ socket[c].gen = gen
    /\ capture \in {"resuming", "reconnecting"}
    /\ Vacant
    /\ lease' = [gen |-> gen, socket |-> c, live |-> TRUE]
    /\ socket' = [socket EXCEPT ![c].pc = "leased", ![c].claimed = TRUE]
    /\ UNCHANGED <<capture, gen, version, intent, endedBy, intervals, audio, view>>

\* The lease of this generation has run out: it is dropped and this socket refused.
AcquireExpired(c) ==
    /\ At(c, "admitted") /\ NotEnding
    /\ socket[c].gen = gen
    /\ lease # None /\ lease.gen = gen
    /\ DropExpired
    /\ Goes(c, "gone")
    /\ UNCHANGED <<audio, view>>

AcquireRefused(c) ==
    /\ At(c, "admitted")
    /\ \/ ~NotEnding \/ socket[c].gen # gen
       \/ lease # None /\ lease.gen = gen /\ lease.live
       \/ Vacant /\ capture \notin {"resuming", "reconnecting"}
    /\ Goes(c, "gone")
    /\ UNCHANGED <<stored, audio, view>>

\* The provider is connected and the generation still stands.  Gaps stay open: a
\* connected socket is no proof that audio flows.
Connected(c) ==
    /\ At(c, "leased") /\ Holds(c)
    /\ capture \in {"resuming", "reconnecting"}
    /\ capture' = "listening" /\ version' = version + 1
    /\ socket' = [socket EXCEPT ![c].pc = "serving", ![c].mic = TRUE]
    /\ UNCHANGED <<gen, lease, intent, endedBy, intervals, audio, view>>

\* The browser numbers a frame and sends it.  It does so until it has stopped or has
\* learnt that its socket is closed, whatever became of the handler.
Speak(c) ==
    /\ socket[c].mic
    /\ audio[socket[c].gen].heard < MaxFrames
    /\ audio' = [audio EXCEPT ![socket[c].gen].heard = @ + 1]
    /\ UNCHANGED <<stored, socket, view>>

Receivable(c) == At(c, "serving") /\ Holds(c) /\ capture \in {"listening", "pausing"}

FrameIsNew == audio[gen].received < audio[gen].heard

\* The next frame in order: its receipt is recorded before the provider gets it.  The
\* last frame sent again changes nothing.
ReceiveFrame(c) ==
    /\ Receivable(c)
    /\ FrameIsNew
    /\ audio' = [audio EXCEPT ![gen].received = @ + 1, ![gen].turn = "received"]
    /\ intervals' = Closed(intervals, Possible)
    /\ Goes(c, "appending")
    /\ UNCHANGED <<capture, gen, version, lease, intent, endedBy, view>>

\* A frame is missing before the one received, or its clock does not follow.
ReceiveGap(c) ==
    /\ Receivable(c)
    /\ FrameIsNew
    /\ audio[gen].received > 0 \/ audio[gen].heard > 1
    /\ Fence
    /\ Goes(c, "closing")
    /\ UNCHANGED <<audio, view>>

Appended(c) ==
    /\ At(c, "appending")
    /\ audio' = [audio EXCEPT ![socket[c].gen].turn = "sent"]
    /\ Goes(c, "serving")
    /\ UNCHANGED <<stored, view>>

\* record_provider_append_uncertain; refused when the generation is fenced already.
AppendUncertain(c) ==
    /\ At(c, "appending")
    /\ IF socket[c].gen = gen /\ capture \in {"listening", "pausing"}
       THEN Fence ELSE UNCHANGED stored
    /\ Goes(c, "closing")
    /\ UNCHANGED <<audio, view>>

\* Every item of the audio sent so far is completed and acknowledged.
TurnSettles(c) ==
    /\ socket[c].pc \in {"serving", "stopping"} /\ Holds(c) /\ capture \in Live
    /\ audio[gen].turn = "sent"
    /\ audio' = [audio EXCEPT ![gen].turn = "none"]
    /\ UNCHANGED <<stored, socket, view>>

\* The last frame that the stop of a browser names.
StopSequence == audio[gen].heard

\* capture_stop, after the browser has stopped its microphone.
Stop(c) ==
    /\ At(c, "serving") /\ Holds(c) /\ capture = "pausing"
    /\ audio[gen].received = StopSequence
    /\ socket' = [socket EXCEPT ![c].pc = "stopping", ![c].mic = FALSE]
    /\ UNCHANGED <<stored, audio, view>>

Paused(c) ==
    /\ At(c, "stopping") /\ Holds(c) /\ capture = "pausing"
    /\ audio[gen].turn = "none"
    /\ capture' = "paused" /\ version' = version + 1 /\ lease' = None
    /\ intervals' = intervals \cup {Interval(gen, "paused")}
    /\ Goes(c, "paused")
    /\ UNCHANGED <<gen, intent, endedBy, audio, view>>

PausedThenEnd(c) ==
    /\ At(c, "paused")
    /\ IF EndCompletes THEN CompleteEnd ELSE UNCHANGED stored
    /\ Goes(c, "gone")
    /\ UNCHANGED <<audio, view>>

\* Any failure, a closed connection, a timeout of the provider or of the stop, or a
\* state that no longer fits: the handler goes to its finally block.
Leave(c) ==
    /\ socket[c].pc \in {"leased", "serving", "stopping"}
    /\ Goes(c, "closing")
    /\ UNCHANGED <<stored, audio, view>>

\* Mutated: a disconnect counts in every state but the one it leads to.
InterruptedBug == capture # "reconnecting"

Interrupted == capture \in {"listening", "resuming", "pausing"}

Disconnected(c) ==
    /\ At(c, "closing")
    /\ IF Holds(c) /\ Interrupted
       THEN Fence ELSE UNCHANGED stored
    /\ Goes(c, "gone")
    /\ UNCHANGED <<audio, view>>

\* The process is gone without its finally block.
Crash(c) ==
    /\ socket[c].pc \in {"leased", "serving", "appending", "stopping", "paused", "closing"}
    /\ Goes(c, "gone")
    /\ UNCHANGED <<stored, audio, view>>

-----------------------------------------------------------------------------
OwnerStep(o) ==
    \/ Look(o) \/ Start(o) \/ Pause(o) \/ Resume(o)
    \/ StageEnd(o) \/ EndNow(o) \/ EndAgain(o)

SocketStep(c) ==
    \/ Admit(c) \/ Acquire(c) \/ AcquireExpired(c) \/ AcquireRefused(c) \/ Connected(c)
    \/ Speak(c) \/ ReceiveFrame(c) \/ ReceiveGap(c) \/ Appended(c) \/ AppendUncertain(c)
    \/ TurnSettles(c) \/ Stop(c) \/ Paused(c) \/ PausedThenEnd(c)
    \/ Leave(c) \/ Disconnected(c) \/ Crash(c)

Next ==
    \/ \E o \in Owners : OwnerStep(o)
    \/ \E c \in Sockets : SocketStep(c)
    \/ LeaseExpires \/ StopDeadline \/ SuperviseEnd \/ RecoverLease

Spec == Init /\ [][Next]_vars

\* The stop deadline passes and the supervisor polls; nothing is assumed of people and
\* sockets, nor of a lease, which a healthy handler renews for ever.
FairSpec == Spec /\ WF_vars(StopDeadline) /\ WF_vars(SuperviseEnd)

-----------------------------------------------------------------------------
(* Properties.                                                             *)

Audio == [heard : 0 .. MaxFrames, received : 0 .. MaxFrames,
          turn : {"none", "received", "sent"}]
Handler == [pc : {"new", "admitted", "leased", "serving", "appending", "stopping", "paused",
                  "closing", "gone"},
            gen : {0} \cup Generations, claimed : BOOLEAN, mic : BOOLEAN]
Views == [capture : CaptureStates, gen : {0} \cup Generations, version : Nat]

TypeOK ==
    /\ capture \in CaptureStates /\ gen \in {0} \cup Generations /\ version \in Nat
    /\ lease \in {None} \cup Leases
    /\ intent \in {None} \cup Intents
    /\ endedBy \in {None} \cup Owners
    /\ intervals \subseteq Rows
    /\ audio \in [Generations -> Audio]
    /\ socket \in [Sockets -> Handler]
    /\ view \in [Owners -> Views]

\* Audio of generation g that no one has shown to be transcribed.
Loose(g) == audio[g].received < audio[g].heard \/ audio[g].turn # "none"

\* Nothing is heard in this generation any more, as far as the store can tell.
Over(g) == g < gen \/ capture \in {"paused", "finalizing"}

\* Whatever the browser captured is transcribed, or a gap of its generation is on
\* record, through lost frames, uncertain appends, crashes, expired leases and ends.
NoSilentLoss ==
    \A g \in Generations :
        Loose(g) /\ Over(g) => \E i \in intervals : i.gen = g /\ i.kind = "fault"

\* While a later generation has yet to deliver its first frame, a gap is open: neither
\* a resume nor a connected socket counts as audio.
SilenceIsOnRecord ==
    gen > 1 /\ capture \in Live /\ audio[gen].received = 0 =>
        \E i \in intervals : i.open /\ i.kind \in Possible

\* Every second of the meeting has been heard or stands on record as a gap.
AudioIsAccounted == NoSilentLoss /\ SilenceIsOnRecord

\* No two sockets, of whatever process, are ever the holder of one generation: a late
\* process cannot share its generation with the socket that replaced it.
OneSocketPerGeneration ==
    \A c, d \in Sockets :
        socket[c].claimed /\ socket[d].claimed /\ socket[c].gen = socket[d].gen => c = d

\* Once the owner has asked for the end, no socket takes the meeting back to listening.
EndStopsListening ==
    intent # None => capture \in {"pausing", "paused", "reconnecting", "finalizing"}

\* A page whose version is current shows the capture state and generation that stand,
\* so a request accepted for its version was decided on what is true.
VersionTellsState ==
    \A o \in Owners :
        view[o].version = version => view[o].capture = capture /\ view[o].gen = gen

\* Intake that is closed stays closed: a late socket, a late clock and a late page
\* change neither the state nor the gaps on record.
ClosedIsFrozen ==
    [][capture = "finalizing" =>
          UNCHANGED <<capture, gen, version, endedBy, intervals>>]_vars

\* An end that was staged closes intake, whether or not the browser ever stops.
EndIsReached == intent # None ~> capture = "finalizing"

\* docs/implementation/account-service-v1-implementation-plan.md:83: a lease that
\* expires makes the store record the gap and advance the generation.
ExpiryFences ==
    (lease # None /\ ~lease.live /\ capture = "listening") ~> capture # "listening"
=============================================================================
