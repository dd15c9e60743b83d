--------------------------- MODULE LiveUtterance ---------------------------
(***************************************************************************)
(* One utterance spoken to the map: prototype/live_session.py's            *)
(* LiveOneUtteranceSession, the part of LiveSessionManager that serves it, *)
(* and the one-turn half of live_transport.py's gateway, on top of the     *)
(* queue and worker of LiveQueue.                                          *)
(*                                                                         *)
(* Three kinds of threads meet: the event loop that runs every browser's   *)
(* handler, the HTTP threads of people's requests, and the worker.  The    *)
(* manager's lock is kept while a final transcript, or a retry, waits for  *)
(* its queue item, so everything else that needs the lock waits with it;   *)
(* the wait of a final transcript also holds the event loop.               *)
(*                                                                         *)
(* With mode "runtime" the queue and its worker stand alone, as the        *)
(* continuous meeting of LiveSession uses them.                            *)
(***************************************************************************)
EXTENDS LiveQueue

CONSTANT MaxConns   \* bound: browser connections of the session

ASSUME LiveUtteranceAssumption == MaxConns \in Nat

Conns == 1 .. MaxConns
Nobody == 0
Person == MaxConns + 1      \* a person's retry, waiting for its item

VARIABLES
    mode,       \* whose runtime it is
    session,    \* LiveOneUtteranceSession: runtime_state, analyzer_status, last queue item
    manager,    \* its flags, the current connection and who waits with its lock held
    conn        \* where the handler of each connection is

uvars == <<mode, session, manager, conn>>
allvars == <<vars, uvars>>

Utterance == mode = "one_utterance"
Dropped(state) == [session EXCEPT !.runtime = state, !.analyzer = "idle"]
Last == session.last
Waiting == manager.waiter # Nobody
Settled(n) == item[n].state \in {"completed", "failed"}

\* The manager's lock is free, and the event loop is not inside a wait.
Free == Utterance /\ manager.waiter = Nobody
\* The session is still the one the manager holds.
Ours == Free /\ ~manager.gone

UInit ==
    /\ Init
    /\ mode \in {"one_utterance", "runtime"}
    /\ session = [runtime |-> "connecting", analyzer |-> "idle", last |-> 0]
    /\ manager = [stop |-> FALSE, current |-> Nobody, gone |-> FALSE, shutting |-> FALSE,
                  waiter |-> Nobody]
    /\ conn = [c \in Conns |-> "none"]

-----------------------------------------------------------------------------
(* The handler of a browser's connection.                                  *)

\* Connections are numbered as they come.
Newest(c) == conn[c] = "none" /\ \A d \in 1 .. c - 1 : conn[d] # "none"

MarkConnected(c) ==
    /\ Ours /\ Newest(c) /\ session.runtime \in {"connecting", "connected"}
    /\ session' = [session EXCEPT !.runtime = "connected"]
    /\ manager' = [manager EXCEPT !.current = c]
    /\ conn' = [conn EXCEPT ![c] = "linking"]
    /\ UNCHANGED <<vars, mode>>

\* Another device's controller, or a session that is past connecting: the handler
\* goes to its last block like every other.
TurnedAway(c) ==
    /\ Ours /\ Newest(c)
    /\ conn' = [conn EXCEPT ![c] = "closing"]
    /\ UNCHANGED <<vars, mode, session, manager>>

ProviderUp(c) ==
    /\ Free /\ conn[c] = "linking"
    /\ conn' = [conn EXCEPT ![c] = "capture"]
    /\ UNCHANGED <<vars, mode, session, manager>>

AcceptChunk(c) ==
    /\ Ours /\ conn[c] = "capture" /\ session.runtime \in {"connected", "capturing"}
    /\ session' = [session EXCEPT !.runtime = "capturing"]
    /\ UNCHANGED <<vars, mode, manager, conn>>

\* The provider fails, a frame is broken or out of order, or the session takes no
\* frame any more; only the current connection reports it to the session.
Broken(c) ==
    /\ Free /\ conn[c] \in {"linking", "capture"}
    /\ session' = IF manager.current = c /\ ~manager.gone THEN Dropped("disconnected") ELSE session
    /\ conn' = [conn EXCEPT ![c] = "closing"]
    /\ UNCHANGED <<vars, mode, manager>>

BrowserGone(c) ==
    /\ Utterance /\ manager.waiter \notin Conns /\ conn[c] \in {"linking", "capture"}
    /\ conn' = [conn EXCEPT ![c] = "closing"]
    /\ UNCHANGED <<vars, mode, session, manager>>

\* consume_stop_request, at the head of the loop of whichever handler comes first.
TakeStop(c) ==
    /\ Ours /\ conn[c] = "capture" /\ manager.stop
    /\ manager' = [manager EXCEPT !.stop = FALSE]
    /\ conn' = [conn EXCEPT ![c] = "committing"]
    /\ UNCHANGED <<vars, mode, session>>

\* An error, a timeout, an empty completion, or a text normalisation leaves nothing of.
NoFinal(c) ==
    /\ Free /\ conn[c] = "committing"
    /\ session' = IF manager.gone THEN session ELSE Dropped("disconnected")
    /\ conn' = [conn EXCEPT ![c] = "closing"]
    /\ UNCHANGED <<vars, mode, manager>>

\* Evidence and utterance are recorded and handed to the queue, in whatever state the
\* session is; from here the handler waits.
ProcessFinal(c) ==
    /\ Ours /\ conn[c] = "committing"
    /\ \E n \in Items :
         /\ Register(n)
         /\ session' = [session EXCEPT !.analyzer = "analyzing", !.last = n]
    /\ manager' = [manager EXCEPT !.waiter = c]
    /\ conn' = [conn EXCEPT ![c] = "waiting"]
    /\ UNCHANGED mode

\* The manager has another meeting by now: the text becomes that one's.
StrayFinal(c) ==
    /\ Free /\ manager.gone /\ conn[c] = "committing"
    /\ conn' = [conn EXCEPT ![c] = "closing"]
    /\ UNCHANGED <<vars, mode, session, manager>>

\* Mutated: the wait comes back with the item and its state is not looked at.
ShownBug(n) == "updated"

Shown(n) == IF item[n].state = "failed" THEN "failed" ELSE "updated"

Answered(c) ==
    /\ Utterance /\ manager.waiter = c /\ Settled(Last)
    /\ session' = [session EXCEPT !.runtime = "disconnected", !.analyzer = Shown(Last)]
    /\ manager' = [manager EXCEPT !.waiter = Nobody]
    /\ conn' = [conn EXCEPT ![c] = "closing"]
    /\ UNCHANGED <<vars, mode>>

\* The wait ends after its timeout; the item stays where it is.
WaitedTooLong(c) ==
    /\ Utterance /\ manager.waiter = c /\ ~Settled(Last)
    /\ session' = [session EXCEPT !.runtime = "disconnected", !.analyzer = "failed"]
    /\ manager' = [manager EXCEPT !.waiter = Nobody]
    /\ conn' = [conn EXCEPT ![c] = "closing"]
    /\ UNCHANGED <<vars, mode>>

\* Every handler's last block disconnects the session the manager holds, its own or not.
Finally(c) ==
    /\ Free /\ conn[c] = "closing"
    /\ session' = IF manager.gone THEN session ELSE [session EXCEPT !.runtime = "disconnected"]
    /\ conn' = [conn EXCEPT ![c] = "done"]
    /\ UNCHANGED <<vars, mode, manager>>

-----------------------------------------------------------------------------
(* What people ask for.                                                    *)

Stopped == IF session.runtime \in {"disconnected", "stopping"} THEN session
           ELSE [session EXCEPT !.runtime = "stopping"]

RequestStop ==
    /\ Ours
    /\ manager' = [manager EXCEPT !.stop = TRUE] /\ session' = Stopped
    /\ UNCHANGED <<vars, mode, conn>>

\* The process is told to end: no new session, and this one is stopped.
Shutdown ==
    /\ Ours
    /\ manager' = [manager EXCEPT !.shutting = TRUE,
                                  !.stop = @ \/ session.runtime # "disconnected"]
    /\ session' = Stopped
    /\ UNCHANGED <<vars, mode, conn>>

RetryAnalyzer ==
    /\ Ours /\ Last # 0 /\ Retry(Last)
    /\ session' = [session EXCEPT !.analyzer = "analyzing"]
    /\ manager' = [manager EXCEPT !.waiter = Person]
    /\ UNCHANGED <<mode, conn>>

\* The item did not fail: the queue refuses, and the session shows a failure.
RetryRefused ==
    /\ Ours /\ Last # 0 /\ item[Last].state # "failed"
    /\ session' = [session EXCEPT !.analyzer = "failed"]
    /\ UNCHANGED <<vars, mode, manager, conn>>

RetryEnds ==
    /\ Utterance /\ manager.waiter = Person
    /\ session' = [session EXCEPT !.analyzer = IF Settled(Last) THEN Shown(Last) ELSE "failed"]
    /\ manager' = [manager EXCEPT !.waiter = Nobody]
    /\ UNCHANGED <<vars, mode, conn>>

PersonCommands ==
    /\ Ours /\ ExecuteCommand
    /\ UNCHANGED uvars

\* Starting again closes the session that is over and puts another in its place.
StartNext ==
    /\ Ours /\ ~manager.shutting /\ session.runtime = "disconnected"
    /\ Close
    /\ manager' = [manager EXCEPT !.gone = TRUE, !.stop = FALSE]
    /\ UNCHANGED <<mode, session, conn>>

-----------------------------------------------------------------------------
(* The runtime on its own, and its worker in both modes.                   *)

HandOver(n) == mode = "runtime" /\ Register(n) /\ UNCHANGED uvars
HandOverAgain(n) == mode = "runtime" /\ Retry(n) /\ UNCHANGED uvars
Command == mode = "runtime" /\ ExecuteCommand /\ UNCHANGED uvars
CloseRuntime == mode = "runtime" /\ Close /\ UNCHANGED uvars
Work == WorkerStep /\ UNCHANGED uvars

Handler(c) ==
    \/ ProviderUp(c) \/ Broken(c) \/ TakeStop(c) \/ NoFinal(c) \/ ProcessFinal(c)
    \/ StrayFinal(c) \/ Answered(c) \/ WaitedTooLong(c) \/ Finally(c)

UNext ==
    \/ \E c \in Conns :
         \/ MarkConnected(c) \/ TurnedAway(c) \/ AcceptChunk(c) \/ BrowserGone(c) \/ Handler(c)
    \/ RequestStop \/ Shutdown \/ RetryAnalyzer \/ RetryRefused \/ RetryEnds
    \/ PersonCommands \/ StartNext
    \/ \E n \in Items : HandOver(n) \/ HandOverAgain(n)
    \/ Command \/ CloseRuntime \/ Work

\* The worker's thread runs; a handler's waits, for its provider, for a stop it polls and
\* for its queue item, all have timeouts, and so has a retry's.
USpec ==
    /\ UInit /\ [][UNext]_allvars
    /\ WF_allvars(Work) /\ WF_allvars(RetryEnds)
    /\ \A c \in Conns : WF_allvars(Handler(c))

-----------------------------------------------------------------------------
(* What the session promises.                                              *)

UTypeOK ==
    /\ QueueInv
    /\ mode \in {"one_utterance", "runtime"}
    /\ session \in [runtime : {"connecting", "connected", "capturing", "stopping", "disconnected"},
                    analyzer : {"idle", "analyzing", "updated", "failed"}, last : 0 .. MaxItems]
    /\ manager \in [stop : BOOLEAN, current : 0 .. MaxConns, gone : BOOLEAN,
                    shutting : BOOLEAN, waiter : 0 .. MaxConns + 1]
    /\ conn \in [Conns -> {"none", "linking", "capture", "committing", "waiting", "closing", "done"}]

\* A map that is shown as updated has the last utterance's item completed behind it, and
\* one that is being analysed has somebody who waits: process_final_transcript and
\* retry_analyzer, with timeouts, retries and a second connection's final in between.
ShownIsSettled ==
    /\ session.analyzer = "updated" => item[Last].state = "completed"
    /\ (session.analyzer = "analyzing") = Waiting

\* At most one thread holds the manager's lock in a wait, and it is the one the
\* manager's state names.
OneWaits == \A c \in Conns : conn[c] = "waiting" <=> manager.waiter = c

UtteranceInv ==
    /\ UTypeOK
    /\ ShownIsSettled
    /\ OneWaits

\* A person who stops while a browser captures gets an end: the utterance, or an error,
\* but no session that stays "stopping" with its handler gone.
StopEnds ==
    \A c \in Conns :
        session.runtime = "stopping" /\ conn[c] = "capture" ~> session.runtime = "disconnected"

\* What is handed to the queue settles, and what is stopped ends.
HandedOverEnds == EveryItemSettles /\ StopEnds

(* What one would expect and the code does not keep; no run checks these.  *)

\* A frame that is still on its way when the stop arrives is refused by "stopping", and
\* the refusal drops the utterance that was spoken.
StopKeepsUtterance ==
    [][\A c \in Conns : Broken(c) => session.runtime # "stopping"]_allvars

\* A connection that is turned away, another device's too, ends the session.
OnlyOwnEnds ==
    [][\A c \in Conns : Finally(c) /\ session'.runtime # session.runtime => manager.current = c]_allvars

\* A retry of what did not fail leaves the status alone.
FailureIsFailure == session.analyzer = "failed" => item[Last].state # "completed"

\* The transcript of a handler that outlived its session stays out of the next one.
NoStrayFinal == \A c \in Conns : ~(manager.gone /\ conn[c] = "committing")
=============================================================================
