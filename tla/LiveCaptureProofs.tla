------------------------- MODULE LiveCaptureProofs -------------------------
(***************************************************************************)
(* One capture of the live meeting, for any number of frames and turns and *)
(* for every finalization mode: whose audio is whose, and in which order   *)
(* the transcripts reach the meeting.                                      *)
(***************************************************************************)
EXTENDS LiveCapture, FiniteSetTheorems, SequenceTheorems, WellFoundedInduction, TLAPS

-----------------------------------------------------------------------------
(* The values.                                                             *)

\* The completions that the loop acknowledges.
Transcripts == {"final", "silence", "gap"}
ItemRows == [vadEnd : Int, acked : BOOLEAN, start : Int, end : Int,
             reason : {"unknown", "vad", "commit"},
             completion : {"none", "error"} \cup Transcripts,
             emitted : BOOLEAN, delivered : BOOLEAN]
Intents == [id : Nat, start : Nat, end : Nat]
IntentLists == {s \in Seq(Intents) : Len(s) <= 1}
Ledgers == [frames : Seq(BOOLEAN), allocated : Nat, intents : IntentLists, requests : Nat,
            items : [Turns -> ItemRows]]

Ranges == [start : Nat, end : Nat]
Providers == [heard : Nat, from : Nat, speaking : BOOLEAN, stopped : Nat, ranges : Seq(Ranges),
              owing : SUBSET Turns]
Requests == [type : {"append"}] \cup [type : {"commit"}, id : Nat]
Messages == [type : {"started", "error"}] \cup [type : {"committed"}, item : Turns]
            \cup [type : {"stopped"}, item : Turns, end : Nat]
            \cup [type : {"completed"}, item : Turns, text : BOOLEAN]
            \cup [type : {"commit empty"}, id : Int]
EventRows == [type : {"error"} \cup Transcripts, item : 0 .. MaxTurns]

-----------------------------------------------------------------------------
(* The provider, and what the ledger has of its items.                     *)

EndOf(P, k) == IF k = 0 THEN 0 ELSE P.ranges[k].end

\* The provider's items lie end to end.
Hears(P) ==
    /\ P \in Providers /\ Len(P.ranges) <= MaxTurns
    /\ P.from <= P.heard /\ P.from = EndOf(P, Len(P.ranges))
    /\ \A k \in 1 .. Len(P.ranges) : /\ P.ranges[k].start = EndOf(P, k - 1)
                                     /\ P.ranges[k].start < P.ranges[k].end
                                     /\ P.ranges[k].end <= P.from
    /\ P.owing \subseteq 1 .. Len(P.ranges)

\* What the ledger has of item k, the first a of them acknowledged.
OwnsItem(x, P, k, a, allocated) ==
    /\ x.acked <=> k <= a
    /\ ~x.acked => x.start = Unknown /\ x.completion = "none"
    /\ x.vadEnd # Unknown =>
           k <= a + 1 /\ k <= Len(P.ranges) /\ x.vadEnd = P.ranges[k].end
    /\ x.start # Unknown => /\ x.start \in Nat /\ x.start <= x.end /\ x.end <= allocated
                            /\ x.end = P.ranges[k].end
    /\ x.completion \in Transcripts => x.start # Unknown

AllKnown(L, k) == \A j \in 1 .. k : L.items[j].start # Unknown

\* An item whose range was lost makes those behind it begin too early; all others are right.
Owns(L, P, a) ==
    /\ L \in Ledgers /\ a \in 0 .. Len(P.ranges)
    /\ \A k \in Turns : OwnsItem(L.items[k], P, k, a, L.allocated)
    /\ \A j, k \in Turns : j < k /\ L.items[j].start # Unknown /\ L.items[k].start # Unknown =>
           L.items[j].end <= L.items[k].start
    /\ L.allocated <= EndOf(P, a)
    /\ AllKnown(L, a) => L.allocated = EndOf(P, a)
    /\ \A k \in 1 .. a : AllKnown(L, k) => L.items[k].start = EndOf(P, k - 1)
    /\ L.intents # << >> => L.intents[1].start <= L.allocated

-----------------------------------------------------------------------------
(* The messages.                                                           *)

\* The message n in D is followed by the commit of its item, and no other item is spoken of
\* before that.
Follows(D, n, m) ==
    /\ n < m /\ D[m].type = "committed" /\ D[m].item = D[n].item
    /\ \A i \in n + 1 .. m - 1 : D[i].type \notin {"committed", "stopped"}

\* A commit that was not read is of an item that was not acknowledged, a speech_stopped is
\* followed by the commit of its item, and a completion comes behind it.
Fits(L, P, D, a, n) ==
    /\ D[n].type = "committed" => D[n].item \in a + 1 .. Len(P.ranges)
    /\ D[n].type = "stopped" =>
           /\ D[n].end = EndOf(P, D[n].item) /\ L.items[D[n].item].vadEnd = Unknown
           /\ \E m \in 1 .. Len(D) : Follows(D, n, m)
    /\ D[n].type = "completed" =>
           \/ D[n].item <= a
           \/ \E m \in 1 .. n - 1 : D[m].type = "committed" /\ D[m].item = D[n].item

\* The commits that were not read come in order.
Told(L, P, D, a) ==
    /\ D \in Seq(Messages)
    /\ \A n \in 1 .. Len(D) : Fits(L, P, D, a, n)
    /\ \A m, n \in 1 .. Len(D) :
           m < n /\ D[m].type = "committed" /\ D[n].type = "committed" => D[m].item < D[n].item
    /\ \A k \in a + 1 .. Len(P.ranges) :
           \E n \in 1 .. Len(D) : D[n].type = "committed" /\ D[n].item = k

\* What was sent is what was heard and what is on its way, with one commit at most.
Asks(U) == \E n \in 1 .. Len(U) : U[n].type = "commit"
Sends(L, P, U, sent) ==
    /\ U \in Seq(Requests) /\ sent \in Nat
    /\ \A m, n \in 1 .. Len(U) : U[m].type = "commit" /\ U[n].type = "commit" => m = n
    /\ \A n \in 1 .. Len(U) :
           U[n].type = "commit" => /\ P.heard + Len(U) - 1 = sent
                                   /\ L.intents # << >> /\ L.intents[1].end = P.heard + n - 1
    /\ ~Asks(U) => P.heard + Len(U) = sent

\* A commit that was asked for has one answer: its item or an error.
Refuses(D) == \E n \in 1 .. Len(D) : D[n].type = "commit empty"
ByHand(L, D, k) ==
    /\ L.items[k].vadEnd = Unknown
    /\ \A n \in 1 .. Len(D) : ~(D[n].type = "stopped" /\ D[n].item = k)
Answers(L, P, U, D, a) ==
    /\ Refuses(D) => L.intents # << >> /\ ~Asks(U)
    /\ \A m, n \in 1 .. Len(D) :
           D[m].type = "commit empty" /\ D[n].type = "commit empty" => m = n
    /\ \A k \in a + 1 .. Len(P.ranges) : ByHand(L, D, k) =>
           /\ L.intents # << >> /\ L.intents[1].end = EndOf(P, k) /\ ~Asks(U) /\ ~Refuses(D)
           /\ \A j \in a + 1 .. Len(P.ranges) : ByHand(L, D, j) => j = k

\* What was emitted and not acknowledged is among the events, in order.
Out(L, E) ==
    /\ E \in Seq(EventRows)
    /\ \A n \in 1 .. Len(E) :
          /\ E[n].item = 0 => E[n].type = "error"
          /\ E[n].item # 0 => /\ L.items[E[n].item].emitted /\ ~L.items[E[n].item].delivered
                              /\ L.items[E[n].item].completion = E[n].type
    /\ \A m, n \in 1 .. Len(E) :
           m < n /\ E[m].item # 0 /\ E[n].item # 0 => E[m].item < E[n].item
    /\ \A k \in Turns : L.items[k].emitted /\ ~L.items[k].delivered =>
           \E n \in 1 .. Len(E) : E[n].item = k
    /\ \A j, k \in Turns : j < k /\ L.items[k].emitted => L.items[j].emitted
    /\ \A j, k \in Turns : j < k /\ L.items[k].delivered => L.items[j].delivered
    /\ \A k \in Turns :
          /\ L.items[k].delivered => L.items[k].emitted /\ L.items[k].completion \in Transcripts
          /\ L.items[k].emitted => L.items[k].completion # "none"

Heard(L, F) ==
    /\ F \in Seq(Turns)
    /\ \A n \in 1 .. Len(F) : L.items[F[n]].delivered
    /\ \A m, n \in 1 .. Len(F) : m < n => F[m] < F[n]

-----------------------------------------------------------------------------
(* The inductive invariant.                                                *)

Clients == [speaking : BOOLEAN, boundary : BOOLEAN, owed : Nat]
Loops == [at : {"top", "wait", "events", "sending", "over"}, sound : BOOLEAN, stopping : BOOLEAN]
Meetings == [stop : BOOLEAN, done : BOOLEAN, finalized : BOOLEAN, gap : BOOLEAN,
             failed : BOOLEAN, finals : Seq(Turns)]
Sent(L, at) == samples(L) + IF at = "sending" THEN 1 ELSE 0

\* The turns that stopped and have no completion are among those that were told.
Owing(C, L, a) ==
    C.owed <= a + IF a + 1 \in Turns /\ L.items[a + 1].vadEnd # Unknown THEN 1 ELSE 0

Values == /\ mode \in Modes /\ client \in Clients /\ loop \in Loops /\ meeting \in Meetings
          /\ Sent(turns, loop.at) <= MaxFrames

\* A ledger, the provider, the messages between them, what was sent and what is owed, once the
\* first a items are acknowledged.
Agree(L, P, D, U, C, sent, a) ==
    /\ Hears(P)
    /\ Owns(L, P, a)
    /\ Told(L, P, D, a)
    /\ Sends(L, P, U, sent)
    /\ Answers(L, P, U, D, a)
    /\ Owing(C, L, a)

\* What the provider announced when speech stopped lies in what it has, and it makes no other
\* item before that.
Promises(P) ==
    P.stopped # 0 => /\ ~P.speaking /\ P.from < P.stopped /\ P.stopped <= P.heard
                     /\ Len(P.ranges) < MaxTurns

\* The provider with one item more, up to end.
Made(P, end) ==
    [P EXCEPT !.ranges = Append(@, [start |-> P.from, end |-> end]),
              !.from = end,
              !.owing = @ \cup {Len(P.ranges) + 1}]

\* The provider and its messages as they are once the commit that it announced is made.
Said(P) == IF P.stopped = 0 THEN P ELSE [Made(P, P.stopped) EXCEPT !.stopped = 0]
Due(P, D) ==
    IF P.stopped = 0 THEN D
    ELSE D \o <<[type |-> "committed", item |-> Len(P.ranges) + 1]>>

At(a) ==
    Agree(turns, Said(provider), Due(provider, down), up, client, Sent(turns, loop.at), a)

Live == /\ Values /\ Out(turns, events) /\ Heard(turns, meeting.finals)
        /\ Hears(provider) /\ Promises(provider) /\ down \in Seq(Messages)
        /\ \E a \in Nat : At(a)

CaptureInd == /\ Capturing => Live
              /\ ~Capturing => TurnsInv /\ FinalsInOrder

-----------------------------------------------------------------------------
(* Sequences that grow at one end and shrink at the other.                 *)

Shorter(D, E) == /\ Len(D) \in Nat /\ Len(D) # 0 /\ Len(E) = Len(D) - 1
                 /\ \A n \in 1 .. Len(E) : E[n] = D[n + 1]
Longer(D, E, m) == /\ Len(D) \in Nat /\ Len(E) = Len(D) + 1 /\ E[Len(D) + 1] = m
                   /\ \A n \in 1 .. Len(D) : E[n] = D[n]

LEMMA TailIs ==
    ASSUME NEW S, NEW s \in Seq(S), s # << >>
    PROVE  Head(s) = s[1] /\ s[1] \in S /\ Tail(s) \in Seq(S) /\ Shorter(s, Tail(s))
<1>1. Len(s) \in Nat /\ Len(s) # 0
    BY EmptySeq, LenProperties
<1>2. Tail(s) \in Seq(S) /\ Len(Tail(s)) = Len(s) - 1
      /\ \A n \in 1 .. Len(Tail(s)) : Tail(s)[n] = s[n + 1]
    BY HeadTailProperties
<1>3. Head(s) = s[1] /\ s[1] \in S
    BY <1>1
<1> QED BY <1>1, <1>2, <1>3 DEF Shorter

LEMMA AppendIs ==
    ASSUME NEW S, NEW s \in Seq(S), NEW m \in S
    PROVE  Append(s, m) \in Seq(S) /\ Longer(s, Append(s, m), m)
<1>1. Len(s) \in Nat
    BY LenProperties
<1> QED BY <1>1, AppendProperties DEF Longer

LEMMA OneMore ==
    ASSUME NEW S, NEW s \in Seq(S), NEW m \in S
    PROVE  s \o <<m>> \in Seq(S) /\ Longer(s, s \o <<m>>, m)
<1>1. <<m>> \in Seq(S) /\ Len(<<m>>) = 1 /\ <<m>>[1] = m
    OBVIOUS
<1>2. Len(s) \in Nat
    BY LenProperties
<1>3. s \o <<m>> \in Seq(S) /\ Len(s \o <<m>>) = Len(s) + Len(<<m>>)
      /\ \A i \in 1 .. Len(s) + Len(<<m>>) :
             (s \o <<m>>)[i] = IF i <= Len(s) THEN s[i] ELSE <<m>>[i - Len(s)]
    BY <1>1, ConcatProperties
<1> DEFINE t == s \o <<m>>
           u == <<m>>
<1>4. t \in Seq(S) /\ Len(t) = Len(s) + 1
      /\ \A i \in 1 .. Len(s) + 1 : t[i] = IF i <= Len(s) THEN s[i] ELSE u[i - Len(s)]
    BY <1>1, <1>3
<1> HIDE DEF t, u
<1>5. t[Len(s) + 1] = u[1]
    BY <1>2, <1>4
<1>6. \A i \in 1 .. Len(s) : t[i] = s[i]
    BY <1>2, <1>4
<1> QED BY <1>1, <1>2, <1>4, <1>5, <1>6 DEF Longer, t, u

LEMMA LongerIs ==
    ASSUME NEW D, NEW E, NEW m, Longer(D, E, m)
    PROVE  /\ Len(D) \in Nat /\ Len(E) = Len(D) + 1 /\ E[Len(E)] = m
           /\ Len(E) \in 1 .. Len(E)
           /\ \A n \in 1 .. Len(D) : E[n] = D[n] /\ n \in 1 .. Len(E)
           /\ \A n \in 1 .. Len(E) : n # Len(E) => n \in 1 .. Len(D)
<1>1. /\ Len(D) \in Nat /\ Len(E) = Len(D) + 1 /\ E[Len(E)] = m
      /\ \A n \in 1 .. Len(D) : E[n] = D[n]
    BY DEF Longer
<1>2. \A d \in Nat : /\ \A n \in 1 .. d : n \in 1 .. d + 1
                     /\ \A n \in 1 .. d + 1 : n # d + 1 => n \in 1 .. d
                     /\ d + 1 \in 1 .. d + 1
    OBVIOUS
<1> QED BY <1>1, <1>2, Zenon

-----------------------------------------------------------------------------
(* The provider.                                                           *)

Extends(P, Q) == /\ Len(P.ranges) \in Nat /\ Len(Q.ranges) \in Nat
                 /\ Len(P.ranges) <= Len(Q.ranges)
                 /\ \A k \in 1 .. Len(P.ranges) : Q.ranges[k] = P.ranges[k]

LEMMA ProviderFields ==
    ASSUME NEW P, Hears(P)
    PROVE  /\ P.heard \in Nat /\ P.from \in Nat /\ P.speaking \in BOOLEAN
           /\ P.ranges \in Seq(Ranges) /\ P.owing \in SUBSET Turns /\ Len(P.ranges) \in Nat
           /\ Len(P.ranges) <= MaxTurns /\ P.from <= P.heard
           /\ \A k \in 1 .. Len(P.ranges) : k \in Turns /\ k \in Nat
           /\ \A k \in 1 .. Len(P.ranges) : P.ranges[k].start \in Nat /\ P.ranges[k].end \in Nat
           /\ \A k \in 0 .. Len(P.ranges) : EndOf(P, k) \in Nat /\ EndOf(P, k) <= P.from
           /\ \A k \in 1 .. Len(P.ranges) :
                  EndOf(P, k) = P.ranges[k].end /\ EndOf(P, k - 1) < EndOf(P, k)
           /\ MaxTurns \in Nat
<1>1. P \in Providers
    BY DEF Hears
<1>2. /\ P.heard \in Nat /\ P.from \in Nat /\ P.speaking \in BOOLEAN
      /\ P.ranges \in Seq(Ranges) /\ P.owing \in SUBSET Turns
    BY <1>1 DEF Providers
<1>3. Len(P.ranges) \in Nat /\ \A k \in 1 .. Len(P.ranges) : P.ranges[k] \in Ranges
    BY <1>2, LenProperties, ElementOfSeq
<1>4. Len(P.ranges) <= MaxTurns /\ P.from <= P.heard /\ MaxTurns \in Nat
    BY TurnLedgerAssumption DEF Hears
<1>5. \A k \in 1 .. Len(P.ranges) : k \in Turns /\ k \in Nat /\ k # 0
    BY <1>3, <1>4 DEF Turns
<1>6. \A k \in 1 .. Len(P.ranges) : P.ranges[k].start \in Nat /\ P.ranges[k].end \in Nat
    BY <1>3 DEF Ranges
<1>7. \A k \in 1 .. Len(P.ranges) :
          EndOf(P, k) = P.ranges[k].end /\ EndOf(P, k - 1) < EndOf(P, k) /\ EndOf(P, k) <= P.from
    BY <1>5 DEF EndOf, Hears
<1>8. \A k \in 0 .. Len(P.ranges) : EndOf(P, k) \in Nat /\ EndOf(P, k) <= P.from
    <2> SUFFICES ASSUME NEW k \in 0 .. Len(P.ranges) PROVE EndOf(P, k) \in Nat /\ EndOf(P, k) <= P.from
        OBVIOUS
    <2>1. CASE k = 0
        BY <1>2, <2>1 DEF EndOf
    <2>2. CASE k # 0
        <3>1. k \in 1 .. Len(P.ranges)
            BY <1>3, <2>2
        <3> QED BY <1>6, <1>7, <3>1
    <2> QED BY <2>1, <2>2
<1> QED BY <1>2, <1>3, <1>4, <1>5, <1>6, <1>7, <1>8

LEMMA SameItems ==
    ASSUME NEW P, Hears(P), NEW Q, Q.ranges = P.ranges
    PROVE  Extends(P, Q)
<1>1. Len(P.ranges) \in Nat
    BY ProviderFields
<1> QED BY <1>1 DEF Extends

LEMMA FrameReaches ==
    ASSUME NEW P, Hears(P), NEW Q \in Providers, Q.heard = P.heard + 1, Q.from = P.from,
           Q.ranges = P.ranges, Q.owing = P.owing
    PROVE  Hears(Q) /\ Extends(P, Q)
<1>1. Extends(P, Q)
    BY ProviderFields DEF Extends
<1>2. \A k : EndOf(Q, k) = EndOf(P, k)
    BY DEF EndOf
<1>3. Q.from <= Q.heard
    BY ProviderFields
<1> QED BY <1>1, <1>2, <1>3 DEF Hears

\* The provider commits what it has, up to end.
LEMMA ItemMade ==
    ASSUME NEW P, Hears(P), Len(P.ranges) < MaxTurns, NEW end \in P.from + 1 .. P.heard,
           NEW Q \in Providers, Q.heard = P.heard, Q.from = end,
           Q.ranges = Append(P.ranges, [start |-> P.from, end |-> end]),
           Q.owing = P.owing \cup {Len(P.ranges) + 1}
    PROVE  /\ Hears(Q) /\ Extends(P, Q) /\ Len(Q.ranges) = Len(P.ranges) + 1
           /\ EndOf(Q, Len(P.ranges) + 1) = end /\ Len(P.ranges) + 1 \in Turns
<1> DEFINE r == Len(P.ranges)
           x == [start |-> P.from, end |-> end]
<1>1. /\ P.from \in Nat /\ P.heard \in Nat /\ r \in Nat /\ r < MaxTurns /\ MaxTurns \in Nat
      /\ P.ranges \in Seq(Ranges) /\ end \in Nat /\ P.from < end /\ end <= P.heard
    BY ProviderFields
<1>2. x \in Ranges /\ x.start = P.from /\ x.end = end
    BY <1>1 DEF Ranges
<1>3. Longer(P.ranges, Q.ranges, x)
    BY <1>1, <1>2, AppendIs
<1> HIDE DEF x
<1>4. Len(Q.ranges) = r + 1 /\ Q.ranges[r + 1] = x /\ \A k \in 1 .. r : Q.ranges[k] = P.ranges[k]
    BY <1>3 DEF Longer
<1>5. Extends(P, Q)
    BY <1>1, <1>4 DEF Extends
<1>6. \A k \in 0 .. r : EndOf(Q, k) = EndOf(P, k)
    BY <1>1, <1>4 DEF EndOf
<1>7. EndOf(Q, r + 1) = end
    BY <1>1, <1>2, <1>4 DEF EndOf
<1>8. \A k \in 1 .. r + 1 : /\ Q.ranges[k].start = EndOf(Q, k - 1)
                            /\ Q.ranges[k].start < Q.ranges[k].end /\ Q.ranges[k].end <= Q.from
    <2> SUFFICES ASSUME NEW k \in 1 .. r + 1
                 PROVE  /\ Q.ranges[k].start = EndOf(Q, k - 1)
                        /\ Q.ranges[k].start < Q.ranges[k].end /\ Q.ranges[k].end <= Q.from
        OBVIOUS
    <2>1. CASE k = r + 1
        <3>1. EndOf(Q, k - 1) = P.from
            BY <1>1, <1>6, <2>1 DEF Hears
        <3> QED BY <1>1, <1>2, <1>4, <2>1, <3>1
    <2>2. CASE k # r + 1
        <3>1. k \in 1 .. r /\ k - 1 \in 0 .. r
            BY <1>1, <2>2
        <3>2. /\ P.ranges[k].start = EndOf(P, k - 1) /\ P.ranges[k].start < P.ranges[k].end
              /\ P.ranges[k].end <= P.from /\ P.ranges[k].end \in Nat
            BY <3>1, ProviderFields DEF Hears
        <3>3. Q.ranges[k] = P.ranges[k] /\ EndOf(Q, k - 1) = EndOf(P, k - 1)
            BY <1>4, <1>6, <3>1
        <3>4. P.ranges[k].end <= Q.from
            <4>1. \A e \in Nat : e <= P.from => e <= end
                BY <1>1
            <4> QED BY <3>2, <4>1
        <3> QED BY <3>2, <3>3, <3>4
    <2> QED BY <2>1, <2>2
<1>9. Q.owing \subseteq 1 .. r + 1
    BY <1>1 DEF Hears
<1>10. r + 1 \in Turns /\ r + 1 <= MaxTurns
    BY <1>1 DEF Turns
<1> QED BY <1>1, <1>4, <1>5, <1>7, <1>8, <1>9, <1>10 DEF Hears

-----------------------------------------------------------------------------
(* The operations of the ledger.                                           *)

LEMMA MaxOfTwo == ASSUME NEW a \in Int, NEW b \in Int PROVE Max({a, b}) = IF a >= b THEN a ELSE b
BY DEF Max

LEMMA LedgerFields ==
    ASSUME NEW L \in Ledgers
    PROVE  /\ L.frames \in Seq(BOOLEAN) /\ L.allocated \in Nat /\ L.intents \in IntentLists
           /\ L.requests \in Nat /\ L.items \in [Turns -> ItemRows] /\ samples(L) \in Nat
BY DEF Ledgers, samples

LEMMA IntentFields ==
    ASSUME NEW s \in IntentLists, s # << >>
    PROVE  /\ s[1].start \in Nat /\ s[1].end \in Nat /\ Tail(s) = << >> /\ << >> \in IntentLists
<1>1. s \in Seq(Intents) /\ Len(s) <= 1
    BY DEF IntentLists
<1>2. Len(s) = 1
    <2>1. Len(s) \in Nat \ {0}
        BY <1>1, EmptySeq
    <2>2. \A n \in Nat \ {0} : n <= 1 => n = 1
        OBVIOUS
    <2> QED BY <1>1, <2>1, <2>2, Zenon
<1>3. s[1] \in Intents
    BY <1>1, <1>2, ElementOfSeq
<1>4. Tail(s) = << >>
    <2>1. Tail(s) \in Seq(Intents) /\ Len(Tail(s)) = 0
        BY <1>1, <1>2, HeadTailProperties
    <2> QED BY <2>1, EmptySeq
<1>5. << >> \in IntentLists
    BY EmptySeq DEF IntentLists
<1> QED BY <1>3, <1>4, <1>5 DEF Intents

\* One item of a ledger is changed.
LEMMA ItemChanged ==
    ASSUME NEW L \in Ledgers, NEW k \in Turns, NEW x \in ItemRows
    PROVE  LET M == [L EXCEPT !.items[k] = x]
           IN  /\ M \in Ledgers /\ M.allocated = L.allocated
               /\ M.intents = L.intents /\ samples(M) = samples(L)
               /\ \A j \in Turns : M.items[j] = IF j = k THEN x ELSE L.items[j]
BY DEF Ledgers, samples

LEMMA FrameEntered ==
    ASSUME NEW L \in Ledgers, NEW sound \in BOOLEAN, NEW M, M = AppendFrame(L, sound)
    PROVE  /\ M \in Ledgers /\ M.allocated = L.allocated /\ M.intents = L.intents
           /\ M.items = L.items /\ samples(M) = samples(L) + 1
<1>1. PICK fs : fs = Append(L.frames, sound)
    OBVIOUS
<1>2. fs \in Seq(BOOLEAN) /\ Len(fs) = Len(L.frames) + 1
    BY <1>1, AppendProperties DEF Ledgers
<1>3. M = [L EXCEPT !.frames = fs]
    BY <1>1 DEF AppendFrame
<1>4. /\ M.frames = fs /\ M.allocated = L.allocated
      /\ M.intents = L.intents /\ M.items = L.items /\ M \in Ledgers
    BY <1>2, <1>3 DEF Ledgers
<1> QED BY <1>2, <1>4 DEF samples

LEMMA CommitRequested ==
    ASSUME NEW L \in Ledgers, L.intents = << >>, NEW M, M = request(L)
    PROVE  /\ M \in Ledgers /\ M.allocated = L.allocated /\ M.items = L.items
           /\ samples(M) = samples(L) /\ L.requests + 1 \in Nat
           /\ M.intents # << >> /\ M.intents[1].start = L.allocated
           /\ M.intents[1].end = samples(L)
<1> DEFINE i == [id |-> L.requests + 1, start |-> cursor(L), end |-> samples(L)]
<1>1. L.requests \in Nat /\ L.allocated \in Nat /\ samples(L) \in Nat
    BY LedgerFields
<1>2. cursor(L) = L.allocated
    <2>1. {L.intents[k].end : k \in DOMAIN L.intents} = {}
        OBVIOUS
    <2>2. {L.allocated} \cup {L.intents[k].end : k \in DOMAIN L.intents}
             = {L.allocated, L.allocated}
        BY <2>1
    <2>3. cursor(L) = Max({L.allocated, L.allocated})
        BY <2>2 DEF cursor
    <2> QED BY <1>1, <2>3, MaxOfTwo
<1>3. i \in Intents /\ i.start = L.allocated /\ i.end = samples(L)
    BY <1>1, <1>2 DEF Intents
<1>4. PICK is : is = Append(L.intents, i)
    OBVIOUS
<1>5. PICK r : r = L.requests + 1
    OBVIOUS
<1>6. M = [L EXCEPT !.requests = r, !.intents = is]
    BY <1>4, <1>5 DEF request
<1> HIDE DEF i
<1>7. is = <<i>> /\ is # << >> /\ is[1] = i /\ is \in IntentLists
    BY <1>3, <1>4 DEF IntentLists
<1>8. r \in Nat
    BY <1>1, <1>5
<1>9. /\ M \in Ledgers /\ M.frames = L.frames /\ M.allocated = L.allocated /\ M.items = L.items
      /\ M.intents = is
    BY <1>6, <1>7, <1>8 DEF Ledgers
<1>10. samples(M) = samples(L)
    BY <1>9 DEF samples
<1> QED BY <1>3, <1>5, <1>7, <1>8, <1>9, <1>10

LEMMA IntentDropped ==
    ASSUME NEW L \in Ledgers, NEW M, M = reconcile_empty_commit(L)
    PROVE  /\ M \in Ledgers /\ M.allocated = L.allocated /\ M.items = L.items
           /\ samples(M) = samples(L) /\ M.intents = << >>
<1>1. << >> \in IntentLists
    BY EmptySeq DEF IntentLists
<1> QED BY <1>1 DEF reconcile_empty_commit, Ledgers, samples

\* Where the speech of item k stopped.
LEMMA SpeechStopped ==
    ASSUME NEW L \in Ledgers, NEW k \in Turns, NEW end \in Nat, NEW M,
           M = ObserveStopped(L, k, end)
    PROVE  /\ M \in Ledgers /\ M.allocated = L.allocated
           /\ M.intents = L.intents /\ samples(M) = samples(L)
           /\ \A j \in Turns : j # k => M.items[j] = L.items[j]
           /\ M.items[k].vadEnd = end /\ M.items[k].acked = L.items[k].acked
           /\ M.items[k].start = L.items[k].start /\ M.items[k].end = L.items[k].end
           /\ M.items[k].completion = L.items[k].completion
           /\ M.items[k].emitted = L.items[k].emitted
           /\ M.items[k].delivered = L.items[k].delivered
<1>1. PICK x : x = [L.items[k] EXCEPT !.vadEnd = end]
    OBVIOUS
<1>2. L.items[k] \in ItemRows
    BY LedgerFields
<1>3. /\ x \in ItemRows /\ x.vadEnd = end /\ x.acked = L.items[k].acked
      /\ x.start = L.items[k].start /\ x.end = L.items[k].end
      /\ x.completion = L.items[k].completion /\ x.emitted = L.items[k].emitted
      /\ x.delivered = L.items[k].delivered
    BY <1>1, <1>2 DEF ItemRows
<1>4. M = [L EXCEPT !.items[k] = x]
    BY <1>1 DEF ObserveStopped
<1>5. /\ M \in Ledgers /\ M.allocated = L.allocated
      /\ M.intents = L.intents /\ samples(M) = samples(L)
      /\ \A j \in Turns : M.items[j] = IF j = k THEN x ELSE L.items[j]
    BY <1>3, <1>4, ItemChanged
<1>6. M.items[k] = x /\ \A j \in Turns : j # k => M.items[j] = L.items[j]
    BY <1>5
<1> QED BY <1>3, <1>5, <1>6

LEMMA TurnAcknowledged ==
    ASSUME NEW L \in Ledgers, NEW k \in Turns, NEW M, M = acknowledge(L, k)
    PROVE  /\ M \in Ledgers /\ M.allocated = L.allocated
           /\ M.intents = L.intents /\ samples(M) = samples(L)
           /\ \A j \in Turns : j # k => M.items[j] = L.items[j]
           /\ M.items[k].vadEnd = L.items[k].vadEnd /\ M.items[k].acked = L.items[k].acked
           /\ M.items[k].start = L.items[k].start /\ M.items[k].end = L.items[k].end
           /\ M.items[k].completion = L.items[k].completion
           /\ M.items[k].emitted = L.items[k].emitted /\ M.items[k].delivered
<1>1. PICK x : x = [L.items[k] EXCEPT !.delivered = TRUE]
    OBVIOUS
<1>2. L.items[k] \in ItemRows
    BY LedgerFields
<1>3. /\ x \in ItemRows /\ x.vadEnd = L.items[k].vadEnd /\ x.acked = L.items[k].acked
      /\ x.start = L.items[k].start /\ x.end = L.items[k].end
      /\ x.completion = L.items[k].completion /\ x.emitted = L.items[k].emitted
      /\ x.delivered
    BY <1>1, <1>2 DEF ItemRows
<1>4. M = [L EXCEPT !.items[k] = x]
    BY <1>1 DEF acknowledge
<1>5. /\ M \in Ledgers /\ M.allocated = L.allocated
      /\ M.intents = L.intents /\ samples(M) = samples(L)
      /\ \A j \in Turns : M.items[j] = IF j = k THEN x ELSE L.items[j]
    BY <1>3, <1>4, ItemChanged
<1>6. M.items[k] = x /\ \A j \in Turns : j # k => M.items[j] = L.items[j]
    BY <1>5
<1> QED BY <1>3, <1>5, <1>6

\* A completion is entered.
LEMMA TurnCompleted ==
    ASSUME NEW L \in Ledgers, NEW k \in Turns, NEW said \in {"error"} \cup Transcripts,
           NEW M, M = Completed(L, k, said)
    PROVE  /\ M \in Ledgers /\ M.allocated = L.allocated
           /\ M.intents = L.intents /\ samples(M) = samples(L)
           /\ \A j \in Turns : j # k => M.items[j] = L.items[j]
           /\ M.items[k].vadEnd = L.items[k].vadEnd /\ M.items[k].acked = L.items[k].acked
           /\ M.items[k].start = L.items[k].start /\ M.items[k].end = L.items[k].end
           /\ M.items[k].completion = said
           /\ M.items[k].emitted = L.items[k].emitted
           /\ M.items[k].delivered = L.items[k].delivered
<1>1. PICK x : x = [L.items[k] EXCEPT !.completion = said]
    OBVIOUS
<1>2. L.items[k] \in ItemRows
    BY LedgerFields
<1>3. /\ x \in ItemRows /\ x.vadEnd = L.items[k].vadEnd /\ x.acked = L.items[k].acked
      /\ x.start = L.items[k].start /\ x.end = L.items[k].end
      /\ x.completion = said /\ x.emitted = L.items[k].emitted
      /\ x.delivered = L.items[k].delivered
    BY <1>1, <1>2 DEF ItemRows
<1>4. M = [L EXCEPT !.items[k] = x]
    BY <1>1 DEF Completed
<1>5. /\ M \in Ledgers /\ M.allocated = L.allocated
      /\ M.intents = L.intents /\ samples(M) = samples(L)
      /\ \A j \in Turns : M.items[j] = IF j = k THEN x ELSE L.items[j]
    BY <1>3, <1>4, ItemChanged
<1>6. M.items[k] = x /\ \A j \in Turns : j # k => M.items[j] = L.items[j]
    BY <1>5
<1> QED BY <1>3, <1>5, <1>6

\* What is released is marked as emitted.
LEMMA TurnsEmitted ==
    ASSUME NEW L \in Ledgers, NEW M, M = Emitted(L)
    PROVE  /\ M \in Ledgers /\ M.allocated = L.allocated
           /\ M.intents = L.intents /\ samples(M) = samples(L)
           /\ \A j \in Turns :
                 /\ M.items[j].vadEnd = L.items[j].vadEnd /\ M.items[j].acked = L.items[j].acked
                 /\ M.items[j].start = L.items[j].start /\ M.items[j].end = L.items[j].end
                 /\ M.items[j].completion = L.items[j].completion
                 /\ M.items[j].delivered = L.items[j].delivered
                 /\ M.items[j].emitted <=> L.items[j].emitted \/ j \in Released(L)
<1> DEFINE R == Released(L)
           Now(j) == [L.items[j] EXCEPT !.emitted = L.items[j].emitted \/ j \in R]
<1> HIDE DEF R
<1>1. ASSUME NEW j \in Turns
      PROVE  /\ Now(j) \in ItemRows /\ Now(j).acked = L.items[j].acked
             /\ Now(j).start = L.items[j].start
             /\ Now(j).end = L.items[j].end /\ Now(j).vadEnd = L.items[j].vadEnd
             /\ Now(j).completion = L.items[j].completion
             /\ Now(j).delivered = L.items[j].delivered
             /\ Now(j).emitted = (L.items[j].emitted \/ j \in R)
    <2>1. L.items[j] \in ItemRows
        BY LedgerFields
    <2>2. PICK b \in BOOLEAN : b = (L.items[j].emitted \/ j \in R)
        OBVIOUS
    <2>3. Now(j) = [L.items[j] EXCEPT !.emitted = b]
        BY <2>2
    <2> HIDE DEF Now
    <2> QED BY <2>1, <2>2, <2>3 DEF ItemRows
<1> DEFINE its == [j \in Turns |-> Now(j)]
<1>2. M = [L EXCEPT !.items = its]
    BY DEF Emitted, R
<1> HIDE DEF Now
<1>3. its \in [Turns -> ItemRows] /\ \A j \in Turns : its[j] = Now(j)
    BY <1>1
<1> HIDE DEF its
<1>4. /\ M \in Ledgers /\ M.frames = L.frames /\ M.allocated = L.allocated
      /\ M.intents = L.intents /\ M.items = its
    BY <1>2, <1>3 DEF Ledgers
<1>5. samples(M) = samples(L)
    BY <1>4 DEF samples
<1>6. ASSUME NEW j \in Turns
      PROVE  M.items[j].emitted <=> L.items[j].emitted \/ j \in Released(L)
    <2>1. M.items[j].emitted = (L.items[j].emitted \/ j \in R)
        BY <1>1, <1>3, <1>4
    <2> QED BY <2>1 DEF R
<1>7. \A j \in Turns : M.items[j] = Now(j)
    BY <1>3, <1>4
<1> QED BY <1>1, <1>4, <1>5, <1>6, <1>7

\* The commits on their way that are left once item k was committed.
Left(L, k) ==
    IF L.items[k].vadEnd = Unknown /\ L.intents # << >> THEN Tail(L.intents) ELSE L.intents

\* M is L with the commit of item k, which owns own; is are the commits on their way.
Entered(L, M, k, own, is) ==
    /\ M \in Ledgers /\ M.intents = is /\ samples(M) = samples(L)
    /\ \A j \in Turns : j # k => M.items[j] = L.items[j]
    /\ M.items[k].vadEnd = L.items[k].vadEnd /\ M.items[k].acked
    /\ M.items[k].completion = L.items[k].completion
    /\ M.items[k].emitted = L.items[k].emitted
    /\ M.items[k].delivered = L.items[k].delivered
    /\ M.items[k].start = own.start /\ M.items[k].end = own.end
    /\ M.allocated = IF L.allocated >= own.end THEN L.allocated ELSE own.end

\* A commit is entered with the range that the item owns, whatever that is.
LEMMA CommitEntered ==
    ASSUME NEW L \in Ledgers, NEW k \in Turns, ~L.items[k].acked,
           NEW own, own = Owned(L, k), own.start \in Int, own.end \in Int,
           own.reason \in {"unknown", "vad", "commit"},
           NEW is \in IntentLists, is = Left(L, k),
           NEW M, M = ObserveCommitted(L, k)
    PROVE  Entered(L, M, k, own, is)
<1>1. PICK b, e, why : b = own.start /\ e = own.end /\ why = own.reason
    OBVIOUS
<1>2. b \in Int /\ e \in Int /\ why \in {"unknown", "vad", "commit"}
    BY <1>1
<1>3. PICK x : x = [L.items[k] EXCEPT !.acked = TRUE, !.start = b, !.end = e, !.reason = why]
    OBVIOUS
<1>4. PICK m : m = Max({L.allocated, e})
    OBVIOUS
<1>5. M = [L EXCEPT !.items[k] = x, !.intents = is, !.allocated = m]
    BY <1>1, <1>3, <1>4 DEF ObserveCommitted, Left
<1>6. L.items[k] \in ItemRows /\ L.allocated \in Nat
    BY LedgerFields
<1>7. /\ x \in ItemRows /\ x.vadEnd = L.items[k].vadEnd /\ x.acked /\ x.start = b /\ x.end = e
      /\ x.completion = L.items[k].completion /\ x.emitted = L.items[k].emitted
      /\ x.delivered = L.items[k].delivered
    BY <1>2, <1>3, <1>6 DEF ItemRows
<1>8. m = IF L.allocated >= e THEN L.allocated ELSE e
    BY <1>2, <1>4, <1>6, MaxOfTwo
<1>9. m \in Nat
    BY <1>2, <1>6, <1>8
<1>10. /\ M \in Ledgers /\ M.allocated = m /\ M.intents = is /\ M.frames = L.frames
       /\ \A j \in Turns : M.items[j] = IF j = k THEN x ELSE L.items[j]
    <2>1. PICK its : its = [L.items EXCEPT ![k] = x]
        OBVIOUS
    <2>2. M = [L EXCEPT !.items = its, !.intents = is, !.allocated = m]
        BY <1>5, <2>1
    <2>3. L.items \in [Turns -> ItemRows]
        BY LedgerFields
    <2>4. its \in [Turns -> ItemRows] /\ \A j \in Turns : its[j] = IF j = k THEN x ELSE L.items[j]
        BY <1>7, <2>1, <2>3
    <2>5. /\ M \in Ledgers /\ M.allocated = m /\ M.intents = is /\ M.frames = L.frames
          /\ M.items = its
        BY <1>9, <2>2, <2>4 DEF Ledgers
    <2> QED BY <2>4, <2>5
<1>11. M.items[k] = x /\ \A j \in Turns : j # k => M.items[j] = L.items[j]
    BY <1>10
<1>12. samples(M) = samples(L)
    BY <1>10 DEF samples
<1> QED BY <1>1, <1>7, <1>8, <1>10, <1>11, <1>12 DEF Entered

\* A commit of an item whose speech was heard to stop.
LEMMA SpeechCommitted ==
    ASSUME NEW L \in Ledgers, NEW k \in Turns, ~L.items[k].acked,
           L.items[k].vadEnd \in Nat, NEW M, M = ObserveCommitted(L, k)
    PROVE  \E own : /\ Entered(L, M, k, own, L.intents)
                    /\ own.start = L.allocated /\ own.end = L.items[k].vadEnd
<1>1. L.items[k].vadEnd # Unknown /\ L.items[k].vadEnd \in Int
    BY DEF Unknown
<1>2. L.allocated \in Int /\ L.intents \in IntentLists
    BY LedgerFields
<1>3. PICK own : own = Owned(L, k)
    OBVIOUS
<1>4. own.start = L.allocated /\ own.end = L.items[k].vadEnd /\ own.reason = "vad"
    BY <1>1, <1>3 DEF Owned
<1>5. L.intents = Left(L, k)
    BY <1>1 DEF Left
<1>6. Entered(L, M, k, own, L.intents)
    BY <1>1, <1>2, <1>3, <1>4, <1>5, CommitEntered
<1> QED BY <1>4, <1>6

\* A commit of an item that was asked for.
LEMMA RequestCommitted ==
    ASSUME NEW L \in Ledgers, NEW k \in Turns, ~L.items[k].acked,
           L.items[k].vadEnd = Unknown, L.intents # << >>, NEW M, M = ObserveCommitted(L, k)
    PROVE  \E own : /\ Entered(L, M, k, own, << >>)
                    /\ L.intents[1].start < L.allocated => own.start = Unknown /\ own.end = Unknown
                    /\ ~(L.intents[1].start < L.allocated) =>
                           own.start = L.intents[1].start /\ own.end = L.intents[1].end
<1>1. L.intents[1].start \in Nat /\ L.intents[1].end \in Nat /\ Tail(L.intents) = << >>
      /\ << >> \in IntentLists /\ L.allocated \in Nat
    BY LedgerFields, IntentFields
<1>2. PICK b : b = IF L.intents[1].start < L.allocated THEN Unknown ELSE L.intents[1].start
    OBVIOUS
<1>3. PICK e : e = IF L.intents[1].start < L.allocated THEN Unknown ELSE L.intents[1].end
    OBVIOUS
<1>4. b \in Int /\ e \in Int
    BY <1>1, <1>2, <1>3 DEF Unknown
<1>5. PICK own : own = Owned(L, k)
    OBVIOUS
<1>6. own.start = b /\ own.end = e /\ own.reason = "commit"
    <2>1. CASE L.intents[1].start < L.allocated
        <3>1. own = [start |-> Unknown, end |-> Unknown, reason |-> "commit"]
            BY <1>5, <2>1 DEF Owned
        <3> QED BY <1>2, <1>3, <2>1, <3>1
    <2>2. CASE ~(L.intents[1].start < L.allocated)
        <3>1. own = [start |-> L.intents[1].start, end |-> L.intents[1].end, reason |-> "commit"]
            BY <1>5, <2>2 DEF Owned
        <3> QED BY <1>2, <1>3, <2>2, <3>1
    <2> QED BY <2>1, <2>2
<1>7. PICK is : is = Left(L, k)
    OBVIOUS
<1>8. is = << >> /\ is \in IntentLists
    BY <1>1, <1>7 DEF Left
<1>9. own.start \in Int /\ own.end \in Int /\ own.reason \in {"unknown", "vad", "commit"}
    BY <1>4, <1>6
<1>10. Entered(L, M, k, own, is)
    BY <1>5, <1>7, <1>8, <1>9, CommitEntered
<1> QED BY <1>2, <1>3, <1>6, <1>8, <1>10

-----------------------------------------------------------------------------
(* Which audio is whose.                                                   *)

SameRange(x, y) == /\ y.acked = x.acked /\ y.vadEnd = x.vadEnd /\ y.start = x.start
                   /\ y.end = x.end

\* Nothing that Owns speaks of has changed, or the provider has more items.
LEMMA OwnsStays ==
    ASSUME NEW L, NEW P, Hears(P), NEW a, Owns(L, P, a), NEW M \in Ledgers,
           NEW Q, Extends(P, Q),
           M.allocated = L.allocated,
           M.intents # << >> => M.intents[1].start <= M.allocated,
           \A k \in Turns : SameRange(L.items[k], M.items[k]),
           \A k \in Turns : /\ M.items[k].completion \in Transcripts => M.items[k].start # Unknown
                            /\ ~M.items[k].acked => M.items[k].completion = "none"
    PROVE  Owns(M, Q, a)
<1>1. a \in 0 .. Len(P.ranges) /\ a \in 0 .. Len(Q.ranges) /\ a \in Nat
      /\ Len(P.ranges) \in Nat
    BY DEF Owns, Extends
<1>2. \A k \in 0 .. Len(P.ranges) : EndOf(Q, k) = EndOf(P, k)
    BY <1>1 DEF EndOf, Extends
<1>3. ASSUME NEW k \in Turns PROVE OwnsItem(M.items[k], Q, k, a, M.allocated)
    <2>1. OwnsItem(L.items[k], P, k, a, L.allocated)
        BY DEF Owns
    <2>2. k <= Len(P.ranges) => Q.ranges[k] = P.ranges[k] /\ k <= Len(Q.ranges)
        BY <1>1, TurnLedgerAssumption DEF Extends, Turns
    <2>3. k <= a => k <= Len(P.ranges)
        BY <1>1, TurnLedgerAssumption DEF Turns
    <2>4. SameRange(L.items[k], M.items[k])
        OBVIOUS
    <2>5. L.items[k].start # Unknown => k <= Len(P.ranges)
        BY <2>1, <2>3 DEF OwnsItem
    <2> QED BY <2>1, <2>2, <2>4, <2>5 DEF OwnsItem, SameRange
<1>4. \A j, k \in Turns : j < k /\ M.items[j].start # Unknown /\ M.items[k].start # Unknown =>
          M.items[j].end <= M.items[k].start
    BY DEF SameRange, Owns
<1>5. \A k \in 1 .. a : k \in Turns /\ k \in 0 .. Len(P.ranges) /\ k - 1 \in 0 .. Len(P.ranges)
    <2> SUFFICES ASSUME NEW k \in 1 .. a
                 PROVE  k \in Turns /\ k \in 0 .. Len(P.ranges) /\ k - 1 \in 0 .. Len(P.ranges)
        OBVIOUS
    <2> QED BY <1>1, ProviderFields DEF Turns
<1>6. \A k \in 0 .. a : AllKnown(M, k) => AllKnown(L, k)
    BY <1>1, <1>5 DEF AllKnown, SameRange
<1>7. M.allocated <= EndOf(Q, a) /\ (AllKnown(M, a) => M.allocated = EndOf(Q, a))
    BY <1>1, <1>2, <1>6 DEF Owns
<1>8. \A k \in 1 .. a : AllKnown(M, k) => M.items[k].start = EndOf(Q, k - 1)
    BY <1>1, <1>2, <1>5, <1>6 DEF Owns, SameRange
<1> QED BY <1>1, <1>3, <1>4, <1>7, <1>8 DEF Owns

LEMMA OwnsSeen ==
    ASSUME NEW L, NEW P, Hears(P), NEW a, Owns(L, P, a), NEW Q, Extends(P, Q)
    PROVE  Owns(L, Q, a)
<1>1. /\ L \in Ledgers
      /\ L.intents # << >> => L.intents[1].start <= L.allocated
      /\ \A k \in Turns : SameRange(L.items[k], L.items[k])
    BY DEF Owns, SameRange
<1>2. \A k \in Turns : OwnsItem(L.items[k], P, k, a, L.allocated)
    BY DEF Owns
<1>3. \A k \in Turns : /\ L.items[k].completion \in Transcripts => L.items[k].start # Unknown
                       /\ ~L.items[k].acked => L.items[k].completion = "none"
    BY <1>2 DEF OwnsItem
<1> QED BY <1>1, <1>3, OwnsStays

LEMMA KnownItems ==
    ASSUME NEW L, NEW P, NEW a, Hears(P), Owns(L, P, a)
    PROVE  /\ a \in Nat /\ a <= Len(P.ranges) /\ Len(P.ranges) \in Nat
           /\ L \in Ledgers /\ L.allocated \in Nat /\ L.allocated <= EndOf(P, a)
           /\ EndOf(P, a) \in Nat
           /\ \A k \in 1 .. a : k \in Turns
           /\ \A k \in Turns :
                 /\ L.items[k].acked <=> k <= a
                 /\ L.items[k].start # Unknown => k <= a /\ L.items[k].end <= L.allocated
                                                  /\ L.items[k].end \in Nat
                 /\ k > a => L.items[k].start = Unknown /\ L.items[k].completion = "none"
                 /\ k > a + 1 => L.items[k].vadEnd = Unknown
<1>1. /\ a \in Nat /\ a <= Len(P.ranges) /\ Len(P.ranges) \in Nat
      /\ L \in Ledgers /\ L.allocated <= EndOf(P, a) /\ EndOf(P, a) \in Nat
    BY ProviderFields DEF Owns
<1>2. \A k \in 1 .. a : k \in Turns
    BY <1>1, ProviderFields
<1>3. ASSUME NEW k \in Turns
      PROVE  /\ L.items[k].acked <=> k <= a
             /\ L.items[k].start # Unknown => k <= a /\ L.items[k].end <= L.allocated
                                              /\ L.items[k].end \in Nat
             /\ k > a => L.items[k].start = Unknown /\ L.items[k].completion = "none"
             /\ k > a + 1 => L.items[k].vadEnd = Unknown
    <2>1. OwnsItem(L.items[k], P, k, a, L.allocated)
        BY DEF Owns
    <2>2. k \in Nat
        BY TurnLedgerAssumption DEF Turns
    <2>3. L.items[k] \in ItemRows
        BY <1>1, LedgerFields
    <2>4. L.items[k].end \in Int
        BY <2>3 DEF ItemRows
    <2>5. k > a => ~(k <= a)
        BY <1>1, <2>2
    <2>6. k > a + 1 => ~(k <= a + 1)
        BY <1>1, <2>2
    <2>7. L.items[k].start # Unknown => L.items[k].end \in Nat
        BY <2>1, <2>4 DEF OwnsItem
    <2> QED BY <2>1, <2>5, <2>6, <2>7 DEF OwnsItem
<1> QED BY <1>1, <1>2, <1>3, LedgerFields

\* The speech of the next item was heard to stop.
LEMMA OwnsStopped ==
    ASSUME NEW L, NEW P, NEW a, Hears(P), Owns(L, P, a), a + 1 <= Len(P.ranges),
           NEW M, M = ObserveStopped(L, a + 1, EndOf(P, a + 1))
    PROVE  /\ Owns(M, P, a) /\ M.items[a + 1].vadEnd # Unknown
           /\ M.intents = L.intents /\ samples(M) = samples(L)
           /\ \A k \in Turns : k # a + 1 => M.items[k] = L.items[k]
           /\ \A k \in Turns : /\ M.items[k].emitted = L.items[k].emitted
                               /\ M.items[k].delivered = L.items[k].delivered
                               /\ M.items[k].completion = L.items[k].completion
<1>1. /\ a \in Nat /\ Len(P.ranges) \in Nat /\ L \in Ledgers
      /\ a + 1 \in 1 .. Len(P.ranges)
    BY KnownItems
<1>2. a + 1 \in Turns /\ EndOf(P, a + 1) \in Nat /\ EndOf(P, a + 1) = P.ranges[a + 1].end
    BY <1>1, ProviderFields
<1>3. /\ M \in Ledgers /\ M.allocated = L.allocated
      /\ M.intents = L.intents /\ samples(M) = samples(L)
      /\ \A k \in Turns : k # a + 1 => M.items[k] = L.items[k]
      /\ M.items[a + 1].vadEnd = EndOf(P, a + 1) /\ M.items[a + 1].acked = L.items[a + 1].acked
      /\ M.items[a + 1].start = L.items[a + 1].start /\ M.items[a + 1].end = L.items[a + 1].end
      /\ M.items[a + 1].completion = L.items[a + 1].completion
      /\ M.items[a + 1].emitted = L.items[a + 1].emitted
      /\ M.items[a + 1].delivered = L.items[a + 1].delivered
    <2>1. PICK k, end : k = a + 1 /\ end = EndOf(P, a + 1)
        OBVIOUS
    <2>2. L \in Ledgers /\ k \in Turns /\ end \in Nat /\ M = ObserveStopped(L, k, end)
        BY <1>1, <1>2, <2>1
    <2>3. /\ M \in Ledgers /\ M.allocated = L.allocated
          /\ M.intents = L.intents /\ samples(M) = samples(L)
          /\ \A j \in Turns : j # k => M.items[j] = L.items[j]
          /\ M.items[k].vadEnd = end /\ M.items[k].acked = L.items[k].acked
          /\ M.items[k].start = L.items[k].start /\ M.items[k].end = L.items[k].end
          /\ M.items[k].completion = L.items[k].completion
          /\ M.items[k].emitted = L.items[k].emitted
          /\ M.items[k].delivered = L.items[k].delivered
        BY <2>2, SpeechStopped
    <2> QED BY <2>1, <2>3
<1>4. \A k \in Turns : /\ M.items[k].start = L.items[k].start /\ M.items[k].end = L.items[k].end
                       /\ M.items[k].emitted = L.items[k].emitted
                       /\ M.items[k].delivered = L.items[k].delivered
                       /\ M.items[k].completion = L.items[k].completion
    BY <1>3
<1>5. ASSUME NEW k \in Turns PROVE OwnsItem(M.items[k], P, k, a, M.allocated)
    <2>1. OwnsItem(L.items[k], P, k, a, L.allocated)
        BY DEF Owns
    <2>2. CASE k = a + 1
        <3>1. /\ M.items[k].vadEnd = EndOf(P, a + 1) /\ M.items[k].acked = L.items[k].acked
              /\ M.items[k].start = L.items[k].start /\ M.items[k].end = L.items[k].end
              /\ M.items[k].completion = L.items[k].completion /\ M.allocated = L.allocated
            BY <1>3, <2>2
        <3>2. k <= a + 1 /\ k <= Len(P.ranges) /\ EndOf(P, a + 1) = P.ranges[k].end
            BY <1>1, <1>2, <2>2
        <3> QED BY <2>1, <3>1, <3>2 DEF OwnsItem
    <2>3. CASE k # a + 1
        BY <1>3, <2>1, <2>3
    <2> QED BY <2>2, <2>3
<1>6. \A k \in 0 .. a : AllKnown(M, k) => AllKnown(L, k)
    BY <1>1, <1>4, KnownItems DEF AllKnown
<1>7. \A k \in 1 .. a : k \in 0 .. a /\ k \in Turns
    BY <1>1, KnownItems
<1>8. a \in 0 .. a
    BY <1>1
<1>9. M.allocated <= EndOf(P, a) /\ (AllKnown(M, a) => M.allocated = EndOf(P, a))
    BY <1>3, <1>6, <1>8 DEF Owns
<1>10. \A k \in 1 .. a : AllKnown(M, k) => M.items[k].start = EndOf(P, k - 1)
    BY <1>4, <1>6, <1>7 DEF Owns
<1>11. Owns(M, P, a)
    <2>1. \A j, k \in Turns : j < k /\ M.items[j].start # Unknown /\ M.items[k].start # Unknown =>
              M.items[j].end <= M.items[k].start
        BY <1>4 DEF Owns
    <2>2. M.intents # << >> => M.intents[1].start <= M.allocated
        BY <1>3 DEF Owns
    <2>3. M \in Ledgers /\ a \in 0 .. Len(P.ranges)
        BY <1>3 DEF Owns
    <2> QED BY <1>5, <1>9, <1>10, <2>1, <2>2, <2>3 DEF Owns
<1>12. M.items[a + 1].vadEnd # Unknown
    BY <1>2, <1>3 DEF Unknown
<1> QED BY <1>3, <1>4, <1>11, <1>12

\* The next item is acknowledged: it begins where the last known one ends, or its range is lost.
LEMMA OwnsNext ==
    ASSUME NEW L, NEW P, NEW a, Hears(P), Owns(L, P, a), NEW k, k = a + 1, k <= Len(P.ranges),
           NEW M \in Ledgers, \A j \in Turns : j # k => M.items[j] = L.items[j],
           M.items[k].acked, M.items[k].completion = "none",
           M.items[k].vadEnd = L.items[k].vadEnd,
           \/ M.items[k].start = Unknown /\ M.allocated = L.allocated
           \/ /\ M.items[k].start = L.allocated /\ M.items[k].end = EndOf(P, k)
              /\ M.allocated = EndOf(P, k),
           M.intents # << >> => M.intents[1].start <= M.allocated
    PROVE  Owns(M, P, k)
<1>1. /\ a \in Nat /\ k \in Nat /\ Len(P.ranges) \in Nat /\ L \in Ledgers /\ k \in 1 .. Len(P.ranges)
      /\ L.allocated \in Nat /\ L.allocated <= EndOf(P, a) /\ EndOf(P, a) \in Nat
    BY KnownItems
<1>2. /\ k \in Turns /\ EndOf(P, k) \in Nat /\ EndOf(P, k) = P.ranges[k].end
      /\ EndOf(P, a) < EndOf(P, k)
    <2>1. k - 1 = a
        BY <1>1
    <2> QED BY <1>1, <2>1, ProviderFields
<1>3. L.allocated <= M.allocated /\ M.allocated \in Nat /\ M.allocated <= EndOf(P, k)
    BY <1>1, <1>2
<1>4. ASSUME NEW j \in Turns PROVE OwnsItem(M.items[j], P, j, k, M.allocated)
    <2>1. OwnsItem(L.items[j], P, j, a, L.allocated)
        BY DEF Owns
    <2>2. j \in Nat
        BY TurnLedgerAssumption DEF Turns
    <2>3. CASE j = k
        <3>1. M.items[j].vadEnd # Unknown => M.items[j].vadEnd = P.ranges[j].end
            BY <2>1, <2>3 DEF OwnsItem
        <3>2. M.items[j].start # Unknown =>
                  /\ M.items[j].start \in Nat /\ M.items[j].start <= M.items[j].end
                  /\ M.items[j].end <= M.allocated /\ M.items[j].end = P.ranges[j].end
            BY <1>1, <1>2, <2>3
        <3>3. M.items[j].completion \notin Transcripts
            BY <2>3 DEF Transcripts
        <3>4. j <= k /\ j <= k + 1 /\ j <= Len(P.ranges)
            BY <1>1, <2>3
        <3> QED BY <2>3, <3>1, <3>2, <3>3, <3>4 DEF OwnsItem
    <2>4. CASE j # k
        <3>1. M.items[j] = L.items[j] /\ (j <= a <=> j <= k) /\ (j <= a + 1 => j <= k + 1)
            BY <1>1, <2>2, <2>4
        <3>2. L.items[j].start # Unknown => L.items[j].end <= M.allocated
            BY <1>1, <1>3, KnownItems
        <3> QED BY <2>1, <3>1, <3>2 DEF OwnsItem
    <2> QED BY <2>3, <2>4
<1>5. \A i, j \in Turns : i < j /\ M.items[i].start # Unknown /\ M.items[j].start # Unknown =>
          M.items[i].end <= M.items[j].start
    <2> SUFFICES ASSUME NEW i \in Turns, NEW j \in Turns, i < j,
                        M.items[i].start # Unknown, M.items[j].start # Unknown
                 PROVE  M.items[i].end <= M.items[j].start
        OBVIOUS
    <2>1. i \in Nat /\ j \in Nat
        BY TurnLedgerAssumption DEF Turns
    <2>2. j <= k
        BY <1>4 DEF OwnsItem
    <2>3. i # k /\ M.items[i] = L.items[i]
        BY <1>1, <2>1, <2>2
    <2>4. CASE j = k
        <3>1. L.items[i].end <= L.allocated
            BY <2>3, KnownItems
        <3> QED BY <2>3, <2>4, <3>1
    <2>5. CASE j # k
        <3>1. M.items[j] = L.items[j]
            BY <2>5
        <3> QED BY <2>3, <3>1 DEF Owns
    <2> QED BY <2>4, <2>5
<1>6. \A j \in 0 .. a : AllKnown(M, j) <=> AllKnown(L, j)
    <2>1. \A j \in 1 .. a : M.items[j] = L.items[j]
        BY <1>1, KnownItems
    <2> QED BY <1>1, <2>1 DEF AllKnown
<1>7. AllKnown(M, k) => AllKnown(M, a) /\ M.items[k].start # Unknown
    BY <1>1 DEF AllKnown
<1>8. AllKnown(M, k) => M.allocated = EndOf(P, k) /\ M.items[k].start = EndOf(P, k - 1)
    <2> SUFFICES ASSUME AllKnown(M, k)
                 PROVE  M.allocated = EndOf(P, k) /\ M.items[k].start = EndOf(P, k - 1)
        OBVIOUS
    <2>1. M.items[k].start = L.allocated /\ M.allocated = EndOf(P, k) /\ AllKnown(L, a)
        BY <1>1, <1>6, <1>7
    <2>2. L.allocated = EndOf(P, a) /\ a = k - 1
        BY <1>1, <2>1 DEF Owns
    <2> QED BY <2>1, <2>2
<1>9. \A j \in 1 .. k : AllKnown(M, j) => M.items[j].start = EndOf(P, j - 1)
    <2> SUFFICES ASSUME NEW j \in 1 .. k, AllKnown(M, j) PROVE M.items[j].start = EndOf(P, j - 1)
        OBVIOUS
    <2>1. CASE j = k
        BY <1>8, <2>1
    <2>2. CASE j # k
        <3>1. j \in 1 .. a /\ j \in 0 .. a
            BY <1>1, <2>2
        <3>2. AllKnown(L, j) /\ M.items[j] = L.items[j]
            BY <1>6, <2>2, <3>1, KnownItems
        <3> QED BY <3>1, <3>2 DEF Owns
    <2> QED BY <2>1, <2>2
<1> QED BY <1>1, <1>3, <1>4, <1>5, <1>8, <1>9 DEF Owns

\* M is L with item k acknowledged.
Acks(L, P, k, M) ==
    /\ Owns(M, P, k) /\ samples(M) = samples(L)
    /\ M.intents = IF L.items[k].vadEnd = Unknown THEN << >> ELSE L.intents
    /\ \A j \in Turns : /\ M.items[j].vadEnd = L.items[j].vadEnd
                        /\ M.items[j].completion = L.items[j].completion
                        /\ M.items[j].emitted = L.items[j].emitted
                        /\ M.items[j].delivered = L.items[j].delivered

LEMMA OwnsCommitted ==
    ASSUME NEW L, NEW P, NEW a, Hears(P), Owns(L, P, a), NEW k, k = a + 1, k <= Len(P.ranges),
           L.items[k].vadEnd = Unknown => L.intents # << >> /\ L.intents[1].end = EndOf(P, k),
           NEW M, M = ObserveCommitted(L, k)
    PROVE  Acks(L, P, k, M)
<1>1. /\ a \in Nat /\ k \in Nat /\ Len(P.ranges) \in Nat /\ L \in Ledgers /\ k \in 1 .. Len(P.ranges)
      /\ L.allocated \in Nat /\ L.allocated <= EndOf(P, a) /\ EndOf(P, a) \in Nat
    BY KnownItems
<1>2. /\ k \in Turns /\ EndOf(P, k) \in Nat /\ EndOf(P, k) = P.ranges[k].end
      /\ EndOf(P, a) < EndOf(P, k)
    <2>1. k - 1 = a
        BY <1>1
    <2> QED BY <1>1, <2>1, ProviderFields
<1>3. ~L.items[k].acked /\ L.items[k].completion = "none"
      /\ (L.items[k].vadEnd # Unknown => L.items[k].vadEnd = EndOf(P, k))
    <2>1. k > a /\ ~(k <= a)
        BY <1>1
    <2>2. OwnsItem(L.items[k], P, k, a, L.allocated)
        BY <1>2 DEF Owns
    <2> QED BY <1>2, <2>1, <2>2 DEF OwnsItem
<1>4. L.intents # << >> => L.intents[1].start <= L.allocated /\ L.intents[1].start \in Nat
    BY <1>1, LedgerFields, IntentFields DEF Owns
<1>5. CASE L.items[k].vadEnd # Unknown
    <2>1. L.items[k].vadEnd \in Nat
        BY <1>2, <1>3, <1>5
    <2>2. PICK own : /\ Entered(L, M, k, own, L.intents)
                     /\ own.start = L.allocated /\ own.end = L.items[k].vadEnd
        BY <1>1, <1>2, <1>3, <2>1, SpeechCommitted
    <2>3. own.end = EndOf(P, k)
        BY <1>3, <1>5, <2>2
    <2>4. /\ M \in Ledgers /\ M.intents = L.intents /\ samples(M) = samples(L)
          /\ \A j \in Turns : j # k => M.items[j] = L.items[j]
          /\ M.items[k].vadEnd = L.items[k].vadEnd /\ M.items[k].acked
          /\ M.items[k].completion = L.items[k].completion
          /\ M.items[k].emitted = L.items[k].emitted
          /\ M.items[k].delivered = L.items[k].delivered
          /\ M.items[k].start = L.allocated /\ M.items[k].end = EndOf(P, k)
          /\ M.allocated = IF L.allocated >= EndOf(P, k) THEN L.allocated ELSE EndOf(P, k)
        BY <2>2, <2>3 DEF Entered
    <2>5. M.allocated = EndOf(P, k)
        BY <1>1, <1>2, <2>4
    <2>6. M.intents # << >> => M.intents[1].start <= M.allocated
        BY <1>1, <1>2, <1>4, <2>4, <2>5
    <2>7. Owns(M, P, k)
        BY <1>3, <2>4, <2>5, <2>6, OwnsNext
    <2> QED BY <1>5, <2>4, <2>7 DEF Acks
<1>6. CASE L.items[k].vadEnd = Unknown
    <2>1. L.intents # << >> /\ L.intents[1].end = EndOf(P, k)
        BY <1>6
    <2>2. PICK own : /\ Entered(L, M, k, own, << >>)
                     /\ L.intents[1].start < L.allocated => own.start = Unknown /\ own.end = Unknown
                     /\ ~(L.intents[1].start < L.allocated) =>
                            own.start = L.intents[1].start /\ own.end = L.intents[1].end
        BY <1>1, <1>2, <1>3, <1>6, <2>1, RequestCommitted
    <2>3. /\ M \in Ledgers /\ M.intents = << >> /\ samples(M) = samples(L)
          /\ \A j \in Turns : j # k => M.items[j] = L.items[j]
          /\ M.items[k].vadEnd = L.items[k].vadEnd /\ M.items[k].acked
          /\ M.items[k].completion = L.items[k].completion
          /\ M.items[k].emitted = L.items[k].emitted
          /\ M.items[k].delivered = L.items[k].delivered
          /\ M.items[k].start = own.start /\ M.items[k].end = own.end
          /\ M.allocated = IF L.allocated >= own.end THEN L.allocated ELSE own.end
        BY <2>2 DEF Entered
    <2>4. \/ M.items[k].start = Unknown /\ M.allocated = L.allocated
          \/ /\ M.items[k].start = L.allocated /\ M.items[k].end = EndOf(P, k)
             /\ M.allocated = EndOf(P, k)
        <3>1. CASE L.intents[1].start < L.allocated
            BY <1>1, <2>2, <2>3, <3>1 DEF Unknown
        <3>2. CASE ~(L.intents[1].start < L.allocated)
            <4>1. L.intents[1].start = L.allocated
                BY <1>1, <1>4, <2>1, <3>2
            <4>2. own.start = L.allocated /\ own.end = EndOf(P, k)
                BY <2>1, <2>2, <3>2, <4>1
            <4> QED BY <1>1, <1>2, <2>3, <4>2
        <3> QED BY <3>1, <3>2
    <2>5. Owns(M, P, k)
        BY <1>3, <2>3, <2>4, OwnsNext
    <2> QED BY <1>6, <2>3, <2>5 DEF Acks
<1> QED BY <1>5, <1>6

-----------------------------------------------------------------------------
(* What the provider told.                                                 *)

LEMMA MessageFields ==
    ASSUME NEW m \in Messages
    PROVE  /\ m.type \in {"committed", "stopped", "completed"} => m.item \in Turns
           /\ m.type = "completed" => m.text \in BOOLEAN
BY DEF Messages

LEMMA ToldSizes ==
    ASSUME NEW L, NEW P, NEW D, NEW a, Hears(P), Owns(L, P, a), Told(L, P, D, a)
    PROVE  /\ Len(D) \in Nat /\ a \in Nat /\ Len(P.ranges) \in Nat /\ a <= Len(P.ranges)
           /\ \A k \in a + 1 .. Len(P.ranges) : k \in Turns /\ k \in Nat
           /\ \A n \in 1 .. Len(D) : D[n].type \in {"committed", "stopped", "completed"} =>
                  D[n].item \in Turns /\ D[n].item \in Nat
<1>1. Len(D) \in Nat /\ \A n \in 1 .. Len(D) : D[n] \in Messages
    BY LenProperties, ElementOfSeq DEF Told
<1>2. a \in Nat /\ Len(P.ranges) \in Nat /\ a <= Len(P.ranges)
    BY KnownItems
<1>3. \A k \in a + 1 .. Len(P.ranges) : k \in Turns /\ k \in Nat
    <2> SUFFICES ASSUME NEW k \in a + 1 .. Len(P.ranges) PROVE k \in Turns /\ k \in Nat
        OBVIOUS
    <2>1. k \in 1 .. Len(P.ranges)
        BY <1>2
    <2> QED BY <2>1, ProviderFields
<1>4. \A k \in Turns : k \in Nat
    BY TurnLedgerAssumption DEF Turns
<1> QED BY <1>1, <1>2, <1>3, <1>4, MessageFields

\* The parts of Told.
LEMMA ToldIs ==
    ASSUME NEW L, NEW P, NEW D, NEW a, Told(L, P, D, a)
    PROVE  /\ D \in Seq(Messages)
           /\ \A n \in 1 .. Len(D) :
                 /\ D[n].type = "committed" => D[n].item \in a + 1 .. Len(P.ranges)
                 /\ D[n].type = "stopped" =>
                        /\ D[n].end = EndOf(P, D[n].item)
                        /\ L.items[D[n].item].vadEnd = Unknown
                        /\ \E m \in 1 .. Len(D) : Follows(D, n, m)
                 /\ D[n].type = "completed" =>
                        \/ D[n].item <= a
                        \/ \E m \in 1 .. n - 1 :
                               D[m].type = "committed" /\ D[m].item = D[n].item
           /\ \A m, n \in 1 .. Len(D) :
                  m < n /\ D[m].type = "committed" /\ D[n].type = "committed" =>
                      D[m].item < D[n].item
           /\ \A k \in a + 1 .. Len(P.ranges) :
                  \E n \in 1 .. Len(D) : D[n].type = "committed" /\ D[n].item = k
BY DEF Told, Fits

\* A commit comes behind that of every item before it.
LEMMA CommitsInOrder ==
    ASSUME NEW L, NEW P, NEW D, NEW a, Hears(P), Owns(L, P, a), Told(L, P, D, a),
           NEW m \in 1 .. Len(D), D[m].type = "committed",
           NEW n \in 1 .. Len(D), D[n].type = "committed"
    PROVE  /\ D[m].item < D[n].item => m < n
           /\ D[m].item = D[n].item => m = n
<1>1. Len(D) \in Nat /\ D[m].item \in Nat /\ D[n].item \in Nat
    BY ToldSizes
<1>2. m < n => D[m].item < D[n].item
    BY ToldIs
<1>3. n < m => D[n].item < D[m].item
    BY ToldIs
<1> QED BY <1>1, <1>2, <1>3

\* Of every item it is said once that speech stopped.
LEMMA StopsOnce ==
    ASSUME NEW L, NEW P, NEW D, NEW a, Hears(P), Owns(L, P, a), Told(L, P, D, a),
           NEW m \in 1 .. Len(D), D[m].type = "stopped",
           NEW n \in 1 .. Len(D), D[n].type = "stopped", m < n
    PROVE  D[m].item # D[n].item
<1> SUFFICES ASSUME D[m].item = D[n].item PROVE FALSE
    OBVIOUS
<1>1. Len(D) \in Nat /\ m \in Nat /\ n \in Nat
    BY ToldSizes
<1>2. PICK i \in 1 .. Len(D) : Follows(D, m, i)
    BY ToldIs
<1>3. PICK j \in 1 .. Len(D) : Follows(D, n, j)
    BY ToldIs
<1>4. /\ D[i].type = "committed" /\ D[i].item = D[m].item /\ i \in Nat
      /\ D[j].type = "committed" /\ D[j].item = D[n].item /\ j \in Nat
      /\ n < j /\ \A x \in m + 1 .. i - 1 : D[x].type \notin {"committed", "stopped"}
    BY <1>1, <1>2, <1>3 DEF Follows
<1>5. i = j
    BY <1>4, CommitsInOrder
<1>6. n \in m + 1 .. i - 1
    BY <1>1, <1>4, <1>5
<1> QED BY <1>4, <1>6

\* The first commit and the first speech_stopped are of the next item, and what is completed
\* was acknowledged.
LEMMA FirstTold ==
    ASSUME NEW L, NEW P, NEW D, NEW a, Hears(P), Owns(L, P, a), Told(L, P, D, a), Len(D) # 0
    PROVE  /\ D[1].type = "committed" => D[1].item = a + 1 /\ a + 1 <= Len(P.ranges)
           /\ D[1].type = "stopped" =>
                  /\ D[1].item = a + 1 /\ a + 1 <= Len(P.ranges) /\ D[1].end = EndOf(P, a + 1)
                  /\ L.items[a + 1].vadEnd = Unknown
           /\ D[1].type = "completed" => D[1].item <= a
<1>1. /\ Len(D) \in Nat /\ a \in Nat /\ Len(P.ranges) \in Nat /\ 1 \in 1 .. Len(D)
      /\ a <= Len(P.ranges)
    BY ToldSizes
<1>2. ASSUME NEW m \in 1 .. Len(D), D[m].type = "committed", D[m].item # a + 1
      PROVE  \E n \in 1 .. Len(D) : n < m /\ D[n].type = "committed" /\ D[n].item = a + 1
    <2>1. D[m].item \in a + 1 .. Len(P.ranges)
        BY <1>2, ToldIs
    <2>2. a + 1 \in a + 1 .. Len(P.ranges) /\ a + 1 < D[m].item
        BY <1>1, <1>2, <2>1
    <2>3. PICK n \in 1 .. Len(D) : D[n].type = "committed" /\ D[n].item = a + 1
        BY <2>2, ToldIs
    <2>4. D[n].item < D[m].item
        BY <2>2, <2>3
    <2>5. n < m
        BY <1>2, <2>3, <2>4, CommitsInOrder
    <2> QED BY <2>3, <2>5
<1>3. CASE D[1].type = "committed"
    <2>1. D[1].item \in a + 1 .. Len(P.ranges)
        BY <1>1, <1>3, ToldIs
    <2>2. D[1].item = a + 1
        <3>1. \A n \in 1 .. Len(D) : ~(n < 1)
            BY <1>1
        <3> QED BY <1>1, <1>2, <1>3, <3>1
    <2>3. a + 1 <= Len(P.ranges)
        BY <1>1, <2>1, <2>2
    <2> QED BY <1>3, <2>2, <2>3
<1>4. CASE D[1].type = "stopped"
    <2>1. /\ D[1].end = EndOf(P, D[1].item) /\ L.items[D[1].item].vadEnd = Unknown
          /\ \E m \in 1 .. Len(D) : Follows(D, 1, m)
        BY <1>1, <1>4, ToldIs
    <2>2. PICK m \in 1 .. Len(D) : Follows(D, 1, m)
        BY <2>1
    <2>3. /\ D[m].type = "committed" /\ D[m].item = D[1].item
          /\ \A i \in 1 + 1 .. m - 1 : D[i].type \notin {"committed", "stopped"}
        BY <2>2 DEF Follows
    <2>4. D[m].item = a + 1
        <3> SUFFICES ASSUME D[m].item # a + 1 PROVE FALSE
            OBVIOUS
        <3>1. PICK n \in 1 .. Len(D) : n < m /\ D[n].type = "committed"
            BY <1>2, <2>3
        <3>2. n # 1
            BY <1>4, <3>1
        <3>3. n \in 1 + 1 .. m - 1
            BY <1>1, <3>1, <3>2
        <3> QED BY <2>3, <3>1, <3>3
    <2>5. D[m].item \in a + 1 .. Len(P.ranges)
        BY <2>3, ToldIs
    <2>6. a + 1 <= Len(P.ranges)
        BY <1>1, <2>4, <2>5
    <2> QED BY <1>4, <2>1, <2>3, <2>4, <2>6
<1>5. CASE D[1].type = "completed"
    <2>1. \/ D[1].item <= a
          \/ \E m \in 1 .. 1 - 1 : D[m].type = "committed" /\ D[m].item = D[1].item
        BY <1>1, <1>5, ToldIs
    <2> QED BY <1>5, <2>1
<1> QED BY <1>3, <1>4, <1>5

\* Only where speech stopped counts of the ledger, and only the ranges of the provider.
LEMMA ToldSame ==
    ASSUME NEW L, NEW P, NEW D, NEW a, Told(L, P, D, a),
           NEW M, \A k \in Turns : M.items[k].vadEnd = L.items[k].vadEnd,
           NEW Q, Q.ranges = P.ranges
    PROVE  Told(M, Q, D, a)
<1>1. \A k : EndOf(Q, k) = EndOf(P, k)
    BY DEF EndOf
<1>2. \A n \in 1 .. Len(D) : D[n].type = "stopped" => D[n].item \in Turns
    <2>1. \A n \in 1 .. Len(D) : D[n] \in Messages
        BY LenProperties, ElementOfSeq DEF Told
    <2> QED BY <2>1, MessageFields
<1>3. \A n \in 1 .. Len(D) : Fits(M, Q, D, a, n)
    BY <1>1, <1>2 DEF Told, Fits
<1> QED BY <1>3 DEF Told

\* Where the n-th of a list is once one was put in at p, and where the i-th of that was before.
To(p, n) == IF n < p THEN n ELSE n + 1
Fro(p, i) == IF i < p THEN i ELSE i - 1

\* E is D with m put in at p.
Inserted(D, E, p, m) ==
    /\ Len(D) \in Nat /\ Len(E) = Len(D) + 1 /\ p \in 1 .. Len(E) /\ E[p] = m
    /\ \A n \in 1 .. Len(D) : E[To(p, n)] = D[n]

LEMMA InsertedIs ==
    ASSUME NEW D, NEW E, NEW p, NEW m, Inserted(D, E, p, m)
    PROVE  /\ Len(D) \in Nat /\ Len(E) = Len(D) + 1 /\ p \in 1 .. Len(E) /\ p \in Nat /\ E[p] = m
           /\ \A n \in 1 .. Len(D) : To(p, n) \in 1 .. Len(E) /\ To(p, n) # p
                                     /\ E[To(p, n)] = D[n]
           /\ \A i \in 1 .. Len(E) : i # p =>
                  Fro(p, i) \in 1 .. Len(D) /\ To(p, Fro(p, i)) = i /\ E[i] = D[Fro(p, i)]
<1>1. /\ Len(D) \in Nat /\ Len(E) = Len(D) + 1 /\ p \in 1 .. Len(E) /\ p \in Nat /\ E[p] = m
      /\ \A n \in 1 .. Len(D) : E[To(p, n)] = D[n]
    BY DEF Inserted
<1>2. \A n \in 1 .. Len(D) : To(p, n) \in 1 .. Len(E) /\ To(p, n) # p
    BY <1>1 DEF To
<1>3. \A i \in 1 .. Len(E) : i # p => Fro(p, i) \in 1 .. Len(D) /\ To(p, Fro(p, i)) = i
    BY <1>1 DEF To, Fro
<1> QED BY <1>1, <1>2, <1>3

\* What was put in does not change which comes first.
LEMMA OrderKept ==
    ASSUME NEW p \in Nat, NEW i \in Nat, NEW j \in Nat
    PROVE  /\ i < j => To(p, i) < To(p, j)
           /\ i < j /\ i # p /\ j # p => Fro(p, i) < Fro(p, j)
           /\ Fro(p, i) \in Int /\ To(p, i) \in Nat
<1>1. i < j => To(p, i) < To(p, j)
    BY DEF To
<1>2. i < j /\ i # p /\ j # p => Fro(p, i) < Fro(p, j)
    BY DEF Fro
<1>3. Fro(p, i) \in Int /\ To(p, i) \in Nat
    BY DEF To, Fro
<1> QED BY <1>1, <1>2, <1>3

LEMMA FollowsKept ==
    ASSUME NEW D, NEW E, NEW p, NEW m, Inserted(D, E, p, m), m.type \notin {"committed", "stopped"},
           NEW n \in 1 .. Len(D), NEW j \in 1 .. Len(D), Follows(D, n, j)
    PROVE  Follows(E, To(p, n), To(p, j))
<1>1. /\ Len(D) \in Nat /\ Len(E) = Len(D) + 1 /\ p \in 1 .. Len(E) /\ p \in Nat /\ E[p] = m
      /\ \A i \in 1 .. Len(D) : To(p, i) \in 1 .. Len(E) /\ E[To(p, i)] = D[i]
      /\ \A i \in 1 .. Len(E) : i # p =>
             Fro(p, i) \in 1 .. Len(D) /\ To(p, Fro(p, i)) = i /\ E[i] = D[Fro(p, i)]
    BY InsertedIs
<1>2. /\ n < j /\ D[j].type = "committed" /\ D[j].item = D[n].item
      /\ \A i \in n + 1 .. j - 1 : D[i].type \notin {"committed", "stopped"}
    BY DEF Follows
<1>3. n \in Nat /\ j \in Nat
    BY <1>1
<1>4. To(p, n) < To(p, j)
    BY <1>1, <1>2, <1>3, OrderKept
<1>5. ASSUME NEW i \in To(p, n) + 1 .. To(p, j) - 1
      PROVE  E[i].type \notin {"committed", "stopped"}
    <2>1. CASE i = p
        BY <1>1, <2>1
    <2>2. CASE i # p
        <3>1. i \in 1 .. Len(E) /\ i \in Nat /\ To(p, n) < i /\ i < To(p, j)
            <4>1. To(p, n) \in 1 .. Len(E) /\ To(p, j) \in 1 .. Len(E)
                BY <1>1
            <4> QED BY <1>1, <4>1
        <3>2. Fro(p, i) \in 1 .. Len(D) /\ To(p, Fro(p, i)) = i /\ E[i] = D[Fro(p, i)]
            BY <1>1, <2>2, <3>1
        <3>3. PICK x \in 1 .. Len(D) : x = Fro(p, i)
            BY <3>2
        <3>4. To(p, n) < To(p, x) /\ To(p, x) < To(p, j) /\ E[i] = D[x] /\ x \in Nat
            BY <1>1, <3>1, <3>2, <3>3
        <3>5. n < x /\ x < j
            BY <1>1, <1>3, <3>4 DEF To
        <3>6. x \in n + 1 .. j - 1
            BY <1>3, <3>4, <3>5
        <3> QED BY <1>2, <3>4, <3>6
    <2> QED BY <2>1, <2>2
<1>6. E[To(p, j)].type = "committed" /\ E[To(p, j)].item = E[To(p, n)].item
    BY <1>1, <1>2
<1> QED BY <1>4, <1>5, <1>6 DEF Follows

\* A message more, at p, that announces no item; a completion comes behind the commit.
LEMMA ToldMore ==
    ASSUME NEW L, NEW P, NEW D, NEW a, Hears(P), Owns(L, P, a), Told(L, P, D, a),
           NEW E \in Seq(Messages), NEW p, NEW m, Inserted(D, E, p, m),
           m.type \notin {"committed", "stopped"},
           m.type = "completed" =>
               /\ m.item \in 1 .. Len(P.ranges)
               /\ \A n \in p .. Len(D) : ~(D[n].type = "committed" /\ D[n].item = m.item)
    PROVE  Told(L, P, E, a)
<1>1. /\ Len(D) \in Nat /\ Len(E) = Len(D) + 1 /\ p \in 1 .. Len(E) /\ p \in Nat /\ E[p] = m
      /\ \A i \in 1 .. Len(D) : To(p, i) \in 1 .. Len(E) /\ E[To(p, i)] = D[i]
      /\ \A i \in 1 .. Len(E) : i # p =>
             Fro(p, i) \in 1 .. Len(D) /\ To(p, Fro(p, i)) = i /\ E[i] = D[Fro(p, i)]
    BY InsertedIs
<1>2. a \in Nat /\ Len(P.ranges) \in Nat
    BY ToldSizes
<1>3. ASSUME NEW i \in 1 .. Len(E) PROVE Fits(L, P, E, a, i)
    <2>1. CASE i = p
        <3>1. ASSUME m.type = "completed", ~(m.item <= a)
              PROVE  \E n \in 1 .. p - 1 : E[n].type = "committed" /\ E[n].item = m.item
            <4>1. m.item \in a + 1 .. Len(P.ranges)
                BY <1>2, <3>1
            <4>2. PICK n \in 1 .. Len(D) : D[n].type = "committed" /\ D[n].item = m.item
                BY <4>1, ToldIs
            <4>3. n \notin p .. Len(D)
                BY <3>1, <4>2
            <4>4. n \in 1 .. p - 1 /\ n < p
                BY <1>1, <4>3
            <4>5. E[n] = D[n]
                BY <1>1, <4>4 DEF To
            <4> QED BY <4>2, <4>4, <4>5
        <3>2. E[i] = m
            BY <1>1, <2>1
        <3> QED BY <2>1, <3>1, <3>2 DEF Fits
    <2>2. CASE i # p
        <3>1. PICK n \in 1 .. Len(D) : n = Fro(p, i)
            BY <1>1, <2>2
        <3>2. To(p, n) = i /\ E[i] = D[n]
            BY <1>1, <2>2, <3>1
        <3>3. D[n].type = "stopped" => \E j \in 1 .. Len(E) : Follows(E, i, j)
            <4> SUFFICES ASSUME D[n].type = "stopped" PROVE \E j \in 1 .. Len(E) : Follows(E, i, j)
                OBVIOUS
            <4>1. PICK j \in 1 .. Len(D) : Follows(D, n, j)
                BY ToldIs
            <4>2. Follows(E, To(p, n), To(p, j))
                BY <4>1, FollowsKept
            <4> QED BY <1>1, <3>2, <4>2
        <3>4. ASSUME D[n].type = "completed", ~(D[n].item <= a)
              PROVE  \E x \in 1 .. i - 1 : E[x].type = "committed" /\ E[x].item = D[n].item
            <4>1. PICK x \in 1 .. n - 1 : D[x].type = "committed" /\ D[x].item = D[n].item
                BY <3>4, ToldIs
            <4>2. x \in 1 .. Len(D) /\ x \in Nat /\ n \in Nat /\ x < n /\ i \in Nat
                BY <1>1
            <4>3. To(p, x) < To(p, n) /\ To(p, x) \in 1 .. Len(E) /\ E[To(p, x)] = D[x]
                BY <1>1, <4>2, OrderKept
            <4>4. To(p, x) \in 1 .. i - 1
                BY <1>1, <3>2, <4>2, <4>3
            <4> QED BY <4>1, <4>3, <4>4
        <3>5. /\ D[n].type = "committed" => D[n].item \in a + 1 .. Len(P.ranges)
              /\ D[n].type = "stopped" =>
                     /\ D[n].end = EndOf(P, D[n].item) /\ L.items[D[n].item].vadEnd = Unknown
            BY ToldIs
        <3> QED BY <3>2, <3>3, <3>4, <3>5 DEF Fits
    <2> QED BY <2>1, <2>2
<1>4. ASSUME NEW i \in 1 .. Len(E), NEW j \in 1 .. Len(E), i < j,
             E[i].type = "committed", E[j].type = "committed"
      PROVE  E[i].item < E[j].item
    <2>1. i # p /\ j # p /\ i \in Nat /\ j \in Nat
        BY <1>1, <1>4
    <2>2. PICK x \in 1 .. Len(D), y \in 1 .. Len(D) : x = Fro(p, i) /\ y = Fro(p, j)
        BY <1>1, <2>1
    <2>3. x < y /\ E[i] = D[x] /\ E[j] = D[y]
        BY <1>1, <1>4, <2>1, <2>2, OrderKept
    <2> QED BY <1>4, <2>3, ToldIs
<1>5. ASSUME NEW k \in a + 1 .. Len(P.ranges)
      PROVE  \E n \in 1 .. Len(E) : E[n].type = "committed" /\ E[n].item = k
    <2>1. PICK n \in 1 .. Len(D) : D[n].type = "committed" /\ D[n].item = k
        BY ToldIs
    <2> QED BY <1>1, <2>1
<1> QED BY <1>3, <1>4, <1>5 DEF Told

\* At the end.
LEMMA PutLast ==
    ASSUME NEW D, NEW E, NEW m, Longer(D, E, m)
    PROVE  /\ Inserted(D, E, Len(E), m) /\ Len(E) .. Len(D) = {}
<1>1. Len(D) \in Nat /\ Len(E) = Len(D) + 1 /\ E[Len(E)] = m /\ Len(E) \in 1 .. Len(E)
      /\ \A n \in 1 .. Len(D) : E[n] = D[n]
    BY LongerIs
<1>2. \A n \in 1 .. Len(D) : To(Len(E), n) = n
    BY <1>1 DEF To
<1>3. Len(E) .. Len(D) = {}
    BY <1>1
<1> QED BY <1>1, <1>2, <1>3 DEF Inserted

\* E is D with the commit of item k behind it, and before that its speech_stopped, if any.
Announces(D, E, k, end) ==
    /\ Len(D) \in Nat /\ Len(E) \in Nat
    /\ \A n \in 1 .. Len(D) : E[n] = D[n]
    /\ E[Len(E)].type = "committed" /\ E[Len(E)].item = k
    /\ \/ Len(E) = Len(D) + 1
       \/ /\ Len(E) = Len(D) + 2 /\ E[Len(D) + 1].type = "stopped"
          /\ E[Len(D) + 1].item = k /\ E[Len(D) + 1].end = end

\* The provider announces its next item.
LEMMA ToldItem ==
    ASSUME NEW L, NEW P, NEW D, NEW a, Hears(P), Owns(L, P, a), Told(L, P, D, a),
           NEW Q, Extends(P, Q), Len(Q.ranges) = Len(P.ranges) + 1, NEW k, k = Len(P.ranges) + 1,
           k \in Turns, NEW E \in Seq(Messages), Announces(D, E, k, EndOf(Q, k))
    PROVE  Told(L, Q, E, a)
<1>1. /\ Len(D) \in Nat /\ a \in Nat /\ Len(P.ranges) \in Nat /\ Len(E) \in Nat
      /\ a <= Len(P.ranges) /\ k \in Nat /\ a < k /\ Len(Q.ranges) = k
    BY ToldSizes DEF Announces
<1>2. /\ \A n \in 1 .. Len(D) : E[n] = D[n] /\ n \in 1 .. Len(E) /\ n < Len(E)
      /\ E[Len(E)].type = "committed" /\ E[Len(E)].item = k /\ Len(E) \in 1 .. Len(E)
    BY <1>1 DEF Announces
<1>3. \A n \in 1 .. Len(E) : n \notin 1 .. Len(D) /\ n # Len(E) =>
          /\ n + 1 = Len(E) /\ E[n].type = "stopped"
          /\ E[n].item = k /\ E[n].end = EndOf(Q, k)
    BY <1>1 DEF Announces
<1>4. \A j \in 0 .. Len(P.ranges) : EndOf(Q, j) = EndOf(P, j)
    BY <1>1 DEF EndOf, Extends
<1>5. L.items[k].vadEnd = Unknown
    <2>1. OwnsItem(L.items[k], P, k, a, L.allocated)
        BY DEF Owns
    <2> QED BY <1>1, <2>1 DEF OwnsItem
<1>6. ASSUME NEW n \in 1 .. Len(E) PROVE Fits(L, Q, E, a, n)
    <2>1. CASE n = Len(E)
        BY <1>1, <1>2, <2>1 DEF Fits
    <2>2. CASE n \notin 1 .. Len(D) /\ n # Len(E)
        <3>1. /\ n + 1 = Len(E) /\ E[n].type = "stopped"
              /\ E[n].item = k /\ E[n].end = EndOf(Q, k) /\ n \in Nat
            BY <1>1, <1>3, <2>2
        <3>2. n < Len(E) /\ n + 1 .. Len(E) - 1 = {}
            BY <1>1, <3>1
        <3>3. Follows(E, n, Len(E))
            BY <1>2, <3>1, <3>2 DEF Follows
        <3> QED BY <1>2, <1>5, <3>1, <3>3 DEF Fits
    <2>3. CASE n \in 1 .. Len(D)
        <3>1. E[n] = D[n]
            BY <1>2, <2>3
        <3>2. D[n].type = "stopped" => \E m \in 1 .. Len(E) : Follows(E, n, m)
            <4> SUFFICES ASSUME D[n].type = "stopped" PROVE \E m \in 1 .. Len(E) : Follows(E, n, m)
                OBVIOUS
            <4>1. PICK m \in 1 .. Len(D) : Follows(D, n, m)
                BY <2>3, ToldIs
            <4>2. \A i \in n + 1 .. m - 1 : i \in 1 .. Len(D)
                BY <1>1, <2>3
            <4>3. Follows(E, n, m) /\ m \in 1 .. Len(E)
                BY <1>2, <2>3, <4>1, <4>2 DEF Follows
            <4> QED BY <4>3
        <3>3. D[n].type = "completed" =>
                    \/ D[n].item <= a
                    \/ \E i \in 1 .. n - 1 : D[i].type = "committed" /\ D[i].item = D[n].item
            BY <2>3, ToldIs
        <3>4. \A i \in 1 .. n - 1 : E[i] = D[i]
            BY <1>1, <1>2, <2>3
        <3>5. D[n].type = "committed" => D[n].item \in a + 1 .. Len(Q.ranges)
            <4>1. D[n].type = "committed" => D[n].item \in a + 1 .. Len(P.ranges)
                BY <2>3, ToldIs
            <4> QED BY <1>1, <4>1
        <3>6. D[n].type = "stopped" =>
                  D[n].end = EndOf(Q, D[n].item) /\ L.items[D[n].item].vadEnd = Unknown
            <4> SUFFICES ASSUME D[n].type = "stopped"
                         PROVE  D[n].end = EndOf(Q, D[n].item) /\ L.items[D[n].item].vadEnd = Unknown
                OBVIOUS
            <4>1. D[n].end = EndOf(P, D[n].item) /\ L.items[D[n].item].vadEnd = Unknown
                BY <2>3, ToldIs
            <4>2. PICK m \in 1 .. Len(D) : Follows(D, n, m)
                BY <2>3, ToldIs
            <4>3. D[m].item = D[n].item /\ D[m].item \in a + 1 .. Len(P.ranges)
                BY <4>2, ToldIs DEF Follows
            <4>4. D[n].item \in 0 .. Len(P.ranges)
                BY <1>1, <4>3
            <4> QED BY <1>4, <4>1, <4>4
        <3> QED BY <3>1, <3>2, <3>3, <3>4, <3>5, <3>6 DEF Fits
    <2> QED BY <2>1, <2>2, <2>3
<1>7. ASSUME NEW i \in 1 .. Len(E), NEW n \in 1 .. Len(E), i < n,
             E[i].type = "committed", E[n].type = "committed"
      PROVE  E[i].item < E[n].item
    <2>1. i # Len(E)
        BY <1>1, <1>7
    <2>2. i \in 1 .. Len(D) /\ E[i] = D[i]
        BY <1>2, <1>3, <1>7, <2>1
    <2>3. CASE n = Len(E)
        <3>1. D[i].item \in a + 1 .. Len(P.ranges)
            BY <1>7, <2>2, ToldIs
        <3> QED BY <1>1, <1>2, <2>2, <2>3, <3>1
    <2>4. CASE n # Len(E)
        <3>1. n \in 1 .. Len(D) /\ E[n] = D[n]
            BY <1>2, <1>3, <1>7, <2>4
        <3> QED BY <1>7, <2>2, <3>1, ToldIs
    <2> QED BY <2>3, <2>4
<1>8. ASSUME NEW j \in a + 1 .. Len(Q.ranges)
      PROVE  \E n \in 1 .. Len(E) : E[n].type = "committed" /\ E[n].item = j
    <2>1. CASE j = k
        BY <1>2, <2>1
    <2>2. CASE j # k
        <3>1. j \in a + 1 .. Len(P.ranges)
            BY <1>1, <2>2
        <3>2. PICK n \in 1 .. Len(D) : D[n].type = "committed" /\ D[n].item = j
            BY <3>1, ToldIs
        <3> QED BY <1>2, <3>2
    <2> QED BY <2>1, <2>2
<1> QED BY <1>6, <1>7, <1>8 DEF Told

\* Where the messages are once the first is read.
LEMMA ShorterIs ==
    ASSUME NEW D, NEW E, Shorter(D, E)
    PROVE  /\ Len(D) \in Nat /\ Len(E) \in Nat /\ Len(E) = Len(D) - 1 /\ Len(D) # 0
           /\ \A n \in 1 .. Len(E) : E[n] = D[n + 1] /\ n + 1 \in 1 .. Len(D)
           /\ \A n \in 1 .. Len(D) : n # 1 =>
                  n - 1 \in 1 .. Len(E) /\ E[n - 1] = D[n] /\ (n - 1) + 1 = n
<1>1. /\ Len(D) \in Nat /\ Len(E) \in Nat /\ Len(E) = Len(D) - 1 /\ Len(D) # 0
      /\ \A n \in 1 .. Len(E) : E[n] = D[n + 1]
    BY DEF Shorter
<1>2. \A n \in 1 .. Len(E) : n + 1 \in 1 .. Len(D)
    BY <1>1
<1>3. \A n \in 1 .. Len(D) : n # 1 => n - 1 \in 1 .. Len(E) /\ (n - 1) + 1 = n
    BY <1>1
<1>4. ASSUME NEW n \in 1 .. Len(D), n # 1 PROVE E[n - 1] = D[n]
    BY <1>1, <1>3, <1>4
<1> QED BY <1>1, <1>2, <1>3, <1>4

LEMMA FollowsLess ==
    ASSUME NEW D, NEW E, Shorter(D, E), NEW n \in 1 .. Len(E), NEW j \in 1 .. Len(D),
           Follows(D, n + 1, j)
    PROVE  \E i \in 1 .. Len(E) : Follows(E, n, i)
<1>1. /\ Len(D) \in Nat /\ Len(E) \in Nat /\ Len(E) = Len(D) - 1
      /\ \A i \in 1 .. Len(E) : E[i] = D[i + 1] /\ i + 1 \in 1 .. Len(D)
    BY ShorterIs
<1>2. /\ n + 1 < j /\ D[j].type = "committed" /\ D[j].item = D[n + 1].item
      /\ \A i \in (n + 1) + 1 .. j - 1 : D[i].type \notin {"committed", "stopped"}
    BY DEF Follows
<1>3. PICK x : x = j - 1
    OBVIOUS
<1>4. x \in 1 .. Len(E) /\ x + 1 = j /\ n < x /\ n \in Nat /\ x \in Nat
    BY <1>1, <1>2, <1>3
<1>5. ASSUME NEW i \in n + 1 .. x - 1 PROVE E[i].type \notin {"committed", "stopped"}
    <2>1. i \in 1 .. Len(E) /\ i + 1 \in (n + 1) + 1 .. j - 1
        BY <1>1, <1>4
    <2> QED BY <1>1, <1>2, <2>1
<1>6. E[x].type = "committed" /\ E[x].item = E[n].item
    BY <1>1, <1>2, <1>4
<1>7. Follows(E, n, x)
    BY <1>4, <1>5, <1>6 DEF Follows
<1> QED BY <1>4, <1>7

\* The first message is read, and it is no commit.
LEMMA ToldLess ==
    ASSUME NEW L, NEW P, NEW D, NEW a, Hears(P), Owns(L, P, a), Told(L, P, D, a),
           NEW E \in Seq(Messages), Shorter(D, E), D[1].type # "committed",
           NEW M, \A k \in Turns : M.items[k].vadEnd # L.items[k].vadEnd =>
                      D[1].type = "stopped" /\ k = a + 1
    PROVE  Told(M, P, E, a)
<1>1. /\ Len(D) \in Nat /\ Len(E) \in Nat /\ Len(E) = Len(D) - 1 /\ Len(D) # 0
      /\ \A n \in 1 .. Len(E) : E[n] = D[n + 1] /\ n + 1 \in 1 .. Len(D)
      /\ \A n \in 1 .. Len(D) : n # 1 =>
             n - 1 \in 1 .. Len(E) /\ E[n - 1] = D[n] /\ (n - 1) + 1 = n
    BY ShorterIs
<1>2. a \in Nat /\ Len(P.ranges) \in Nat
    BY ToldSizes
<1>3. ASSUME NEW n \in 1 .. Len(E) PROVE Fits(M, P, E, a, n)
    <2>1. PICK d \in 1 .. Len(D) : d = n + 1 /\ E[n] = D[d] /\ d # 1 /\ 1 < d
        BY <1>1
    <2>2. ASSUME D[d].type = "stopped"
          PROVE  /\ D[d].end = EndOf(P, D[d].item) /\ M.items[D[d].item].vadEnd = Unknown
                 /\ \E m \in 1 .. Len(E) : Follows(E, n, m)
        <3>1. /\ D[d].end = EndOf(P, D[d].item) /\ L.items[D[d].item].vadEnd = Unknown
              /\ D[d].item \in Turns
            BY <2>2, ToldIs, ToldSizes
        <3>2. PICK j \in 1 .. Len(D) : Follows(D, d, j)
            BY <2>2, ToldIs
        <3>3. \E m \in 1 .. Len(E) : Follows(E, n, m)
            BY <2>1, <3>2, FollowsLess
        <3>4. D[1].type = "stopped" => D[d].item # a + 1
            <4> SUFFICES ASSUME D[1].type = "stopped" PROVE D[d].item # a + 1
                OBVIOUS
            <4>1. D[1].item = a + 1
                BY <1>1, FirstTold
            <4>2. 1 \in 1 .. Len(D)
                BY <1>1
            <4> QED BY <2>1, <2>2, <4>1, <4>2, StopsOnce
        <3>5. M.items[D[d].item].vadEnd = L.items[D[d].item].vadEnd
            BY <3>1, <3>4
        <3> QED BY <3>1, <3>3, <3>5
    <2>3. ASSUME D[d].type = "completed", ~(D[d].item <= a)
          PROVE  \E i \in 1 .. n - 1 : E[i].type = "committed" /\ E[i].item = D[d].item
        <3>1. PICK i \in 1 .. d - 1 : D[i].type = "committed" /\ D[i].item = D[d].item
            BY <2>3, ToldIs
        <3>2. i # 1 /\ i \in 1 .. Len(D)
            BY <1>1, <2>1, <3>1
        <3>3. E[i - 1] = D[i] /\ i - 1 \in 1 .. Len(E)
            BY <1>1, <3>2
        <3>4. i - 1 \in 1 .. n - 1
            BY <1>1, <2>1, <3>2, <3>3
        <3> QED BY <3>1, <3>3, <3>4
    <2>4. D[d].type = "committed" => D[d].item \in a + 1 .. Len(P.ranges)
        BY ToldIs
    <2> QED BY <2>1, <2>2, <2>3, <2>4 DEF Fits
<1>4. ASSUME NEW i \in 1 .. Len(E), NEW n \in 1 .. Len(E), i < n,
             E[i].type = "committed", E[n].type = "committed"
      PROVE  E[i].item < E[n].item
    <2>1. i + 1 \in 1 .. Len(D) /\ n + 1 \in 1 .. Len(D) /\ i + 1 < n + 1
        BY <1>1, <1>4
    <2>2. E[i] = D[i + 1] /\ E[n] = D[n + 1]
        BY <1>1
    <2> QED BY <1>4, <2>1, <2>2, ToldIs
<1>5. ASSUME NEW k \in a + 1 .. Len(P.ranges)
      PROVE  \E n \in 1 .. Len(E) : E[n].type = "committed" /\ E[n].item = k
    <2>1. PICK n \in 1 .. Len(D) : D[n].type = "committed" /\ D[n].item = k
        BY ToldIs
    <2>2. n # 1
        BY <2>1
    <2> QED BY <1>1, <2>1, <2>2
<1> QED BY <1>3, <1>4, <1>5 DEF Told

\* The commit of the next item is read.
LEMMA ToldCommit ==
    ASSUME NEW L, NEW P, NEW D, NEW a, Hears(P), Owns(L, P, a), Told(L, P, D, a),
           NEW E \in Seq(Messages), Shorter(D, E), D[1].type = "committed", NEW k, k = a + 1,
           NEW M, \A j \in Turns : M.items[j].vadEnd = L.items[j].vadEnd
    PROVE  Told(M, P, E, k)
<1>1. /\ Len(D) \in Nat /\ Len(E) \in Nat /\ Len(E) = Len(D) - 1 /\ Len(D) # 0
      /\ \A n \in 1 .. Len(E) : E[n] = D[n + 1] /\ n + 1 \in 1 .. Len(D)
      /\ \A n \in 1 .. Len(D) : n # 1 =>
             n - 1 \in 1 .. Len(E) /\ E[n - 1] = D[n] /\ (n - 1) + 1 = n
    BY ShorterIs
<1>2. a \in Nat /\ k \in Nat /\ Len(P.ranges) \in Nat /\ D[1].item = k
    BY <1>1, ToldSizes, FirstTold
<1>3. ASSUME NEW n \in 1 .. Len(D), n # 1, D[n].type = "committed"
      PROVE  D[n].item \in k + 1 .. Len(P.ranges)
    <2>1. 1 \in 1 .. Len(D) /\ 1 < n
        BY <1>1, <1>3
    <2>2. D[1].item < D[n].item
        BY <1>3, <2>1, ToldIs
    <2>3. D[n].item \in a + 1 .. Len(P.ranges)
        BY <1>3, ToldIs
    <2> QED BY <1>2, <2>2, <2>3
<1>4. ASSUME NEW n \in 1 .. Len(E) PROVE Fits(M, P, E, k, n)
    <2>1. PICK d \in 1 .. Len(D) : d = n + 1 /\ E[n] = D[d] /\ d # 1 /\ 1 < d
        BY <1>1
    <2>2. ASSUME D[d].type = "stopped"
          PROVE  /\ D[d].end = EndOf(P, D[d].item) /\ M.items[D[d].item].vadEnd = Unknown
                 /\ \E m \in 1 .. Len(E) : Follows(E, n, m)
        <3>1. /\ D[d].end = EndOf(P, D[d].item) /\ L.items[D[d].item].vadEnd = Unknown
              /\ D[d].item \in Turns
            BY <2>2, ToldIs, ToldSizes
        <3>2. PICK j \in 1 .. Len(D) : Follows(D, d, j)
            BY <2>2, ToldIs
        <3>3. \E m \in 1 .. Len(E) : Follows(E, n, m)
            BY <2>1, <3>2, FollowsLess
        <3> QED BY <3>1, <3>3
    <2>3. ASSUME D[d].type = "completed", ~(D[d].item <= k)
          PROVE  \E i \in 1 .. n - 1 : E[i].type = "committed" /\ E[i].item = D[d].item
        <3>1. D[d].item \in Nat
            BY <2>3, ToldSizes
        <3>2. ~(D[d].item <= a)
            BY <1>2, <2>3, <3>1
        <3>3. PICK i \in 1 .. d - 1 : D[i].type = "committed" /\ D[i].item = D[d].item
            BY <2>3, <3>2, ToldIs
        <3>4. i # 1
            BY <1>2, <2>3, <3>1, <3>3
        <3>5. i \in 1 .. Len(D)
            BY <1>1, <2>1, <3>3
        <3>6. E[i - 1] = D[i] /\ i - 1 \in 1 .. Len(E)
            BY <1>1, <3>4, <3>5
        <3>7. i - 1 \in 1 .. n - 1
            BY <1>1, <2>1, <3>5, <3>6
        <3> QED BY <3>3, <3>6, <3>7
    <2>4. D[d].type = "committed" => D[d].item \in k + 1 .. Len(P.ranges)
        BY <1>3, <2>1
    <2> QED BY <2>1, <2>2, <2>3, <2>4 DEF Fits
<1>5. ASSUME NEW i \in 1 .. Len(E), NEW n \in 1 .. Len(E), i < n,
             E[i].type = "committed", E[n].type = "committed"
      PROVE  E[i].item < E[n].item
    <2>1. i + 1 \in 1 .. Len(D) /\ n + 1 \in 1 .. Len(D) /\ i + 1 < n + 1
        BY <1>1, <1>5
    <2>2. E[i] = D[i + 1] /\ E[n] = D[n + 1]
        BY <1>1
    <2> QED BY <1>5, <2>1, <2>2, ToldIs
<1>6. ASSUME NEW j \in k + 1 .. Len(P.ranges)
      PROVE  \E n \in 1 .. Len(E) : E[n].type = "committed" /\ E[n].item = j
    <2>1. j \in a + 1 .. Len(P.ranges) /\ j # k
        BY <1>2
    <2>2. PICK n \in 1 .. Len(D) : D[n].type = "committed" /\ D[n].item = j
        BY <2>1, ToldIs
    <2>3. n # 1
        BY <1>2, <2>1, <2>2
    <2> QED BY <1>1, <2>2, <2>3
<1> QED BY <1>4, <1>5, <1>6 DEF Told

-----------------------------------------------------------------------------
(* The commits that were asked for.                                        *)

\* No commit that was asked for has an answer on its way.
LEMMA AnswersNone ==
    ASSUME NEW M, NEW Q, NEW V, NEW E, NEW b, ~Refuses(E),
           \A k \in b + 1 .. Len(Q.ranges) : ~ByHand(M, E, k)
    PROVE  Answers(M, Q, V, E, b)
BY DEF Answers, Refuses

\* No answer more, and no request.
Settles(L, P, U, D, a, M, Q, V, E, b) ==
    /\ M.intents = L.intents
    /\ Asks(V) => Asks(U)
    /\ Refuses(E) => Refuses(D)
    /\ \A m, n \in 1 .. Len(E) :
           E[m].type = "commit empty" /\ E[n].type = "commit empty" => m = n
    /\ \A k \in b + 1 .. Len(Q.ranges) : ByHand(M, E, k) =>
           k \in a + 1 .. Len(P.ranges) /\ ByHand(L, D, k) /\ EndOf(Q, k) = EndOf(P, k)

LEMMA AnswersStay ==
    ASSUME NEW L, NEW P, NEW U, NEW D, NEW a, Answers(L, P, U, D, a),
           NEW M, NEW Q, NEW V, NEW E, NEW b, Settles(L, P, U, D, a, M, Q, V, E, b)
    PROVE  Answers(M, Q, V, E, b)
<1>1. Refuses(E) => M.intents # << >> /\ ~Asks(V)
    BY DEF Answers, Settles
<1>2. ASSUME NEW k \in b + 1 .. Len(Q.ranges), ByHand(M, E, k)
      PROVE  /\ M.intents # << >> /\ M.intents[1].end = EndOf(Q, k) /\ ~Asks(V) /\ ~Refuses(E)
             /\ \A j \in b + 1 .. Len(Q.ranges) : ByHand(M, E, j) => j = k
    BY <1>2 DEF Answers, Settles
<1> QED BY <1>1, <1>2 DEF Answers, Settles

LEMMA Shift ==
    \A d \in Nat : d # 0 =>
        /\ 1 \in 1 .. d
        /\ \A n \in 1 .. d - 1 : n + 1 \in 1 .. d /\ n + 1 # 1
        /\ \A m, n \in 1 .. d - 1 : m + 1 = n + 1 => m = n
<1> SUFFICES ASSUME NEW d \in Nat, d # 0
             PROVE  /\ 1 \in 1 .. d
                    /\ \A n \in 1 .. d - 1 : n + 1 \in 1 .. d /\ n + 1 # 1
                    /\ \A m, n \in 1 .. d - 1 : m + 1 = n + 1 => m = n
    OBVIOUS
<1>1. 1 \in 1 .. d
    OBVIOUS
<1>2. \A n \in 1 .. d - 1 : n + 1 \in 1 .. d /\ n + 1 # 1
    OBVIOUS
<1>3. \A m, n \in 1 .. d - 1 : m + 1 = n + 1 => m = n
    OBVIOUS
<1> QED BY <1>1, <1>2, <1>3

\* Messages that are read.
LEMMA FewerRefuse ==
    ASSUME NEW D, NEW E, Shorter(D, E),
           \A m, n \in 1 .. Len(D) :
               D[m].type = "commit empty" /\ D[n].type = "commit empty" => m = n
    PROVE  /\ Refuses(E) => Refuses(D)
           /\ \A m, n \in 1 .. Len(E) :
                  E[m].type = "commit empty" /\ E[n].type = "commit empty" => m = n
           /\ D[1].type = "commit empty" => Refuses(D) /\ ~Refuses(E)
<1>1. Len(D) \in Nat /\ Len(D) # 0 /\ Len(E) = Len(D) - 1
      /\ \A n \in 1 .. Len(E) : E[n] = D[n + 1]
    BY DEF Shorter
<1>2. /\ 1 \in 1 .. Len(D)
      /\ \A n \in 1 .. Len(E) : n + 1 \in 1 .. Len(D) /\ n + 1 # 1
      /\ \A m, n \in 1 .. Len(E) : m + 1 = n + 1 => m = n
    BY <1>1, Shift, Zenon
<1> QED BY <1>1, <1>2 DEF Refuses

LEMMA FewerByHand ==
    ASSUME NEW L, NEW M, NEW D, NEW E, NEW k, Shorter(D, E), ByHand(M, E, k),
           L.items[k].vadEnd = M.items[k].vadEnd,
           ~(D[1].type = "stopped" /\ D[1].item = k)
    PROVE  ByHand(L, D, k)
<1>1. \A n \in 1 .. Len(D) : n = 1 \/ (n - 1 \in 1 .. Len(E) /\ E[n - 1] = D[n])
    <2> SUFFICES ASSUME NEW n \in 1 .. Len(D), n # 1
                 PROVE  n - 1 \in 1 .. Len(E) /\ E[n - 1] = D[n]
        OBVIOUS
    <2>1. n - 1 \in 1 .. Len(E) /\ (n - 1) + 1 = n
        BY DEF Shorter
    <2> QED BY <2>1 DEF Shorter
<1> QED BY <1>1 DEF ByHand

\* Messages that are said.
Begins(D, E) == \A n \in 1 .. Len(D) : n \in 1 .. Len(E) /\ E[n] = D[n]

LEMMA MoreRefuse ==
    ASSUME NEW D, NEW E, Begins(D, E),
           \A m, n \in 1 .. Len(D) :
               D[m].type = "commit empty" /\ D[n].type = "commit empty" => m = n,
           \A n \in 1 .. Len(E) : E[n].type = "commit empty" => n \in 1 .. Len(D)
    PROVE  /\ Refuses(E) => Refuses(D)
           /\ \A m, n \in 1 .. Len(E) :
                  E[m].type = "commit empty" /\ E[n].type = "commit empty" => m = n
BY DEF Refuses, Begins

LEMMA MoreByHand ==
    ASSUME NEW L, NEW M, NEW D, NEW E, NEW k, Begins(D, E), ByHand(M, E, k),
           L.items[k].vadEnd = M.items[k].vadEnd
    PROVE  ByHand(L, D, k)
BY DEF ByHand, Begins

\* A commit that is asked for is the only one.
LEMMA FewerAsk ==
    ASSUME NEW U, NEW V, Shorter(U, V)
    PROVE  /\ Asks(V) => Asks(U)
           /\ U[1].type # "commit" /\ Asks(U) => Asks(V)
           /\ U[1].type = "commit" => Asks(U)
<1>1. Len(U) \in Nat /\ Len(U) # 0 /\ Len(V) = Len(U) - 1
      /\ \A n \in 1 .. Len(V) : V[n] = U[n + 1]
    BY DEF Shorter
<1>2. /\ 1 \in 1 .. Len(U)
      /\ \A n \in 1 .. Len(V) : n + 1 \in 1 .. Len(U)
    BY <1>1, Shift, Zenon
<1>3. ASSUME NEW n \in 1 .. Len(U), n # 1 PROVE n - 1 \in 1 .. Len(V) /\ V[n - 1] = U[n]
    <2>1. n - 1 \in 1 .. Len(V) /\ (n - 1) + 1 = n
        BY <1>1, <1>3
    <2> QED BY <1>1, <2>1
<1> QED BY <1>1, <1>2, <1>3 DEF Asks

\* What is sent counts the frames, whoever has them.
LEMMA SendsStay ==
    ASSUME NEW L, NEW P, NEW U, NEW sent, Sends(L, P, U, sent),
           NEW M, M.intents = L.intents, NEW Q, Q.heard = P.heard
    PROVE  Sends(M, Q, U, sent)
BY DEF Sends, Asks

LEMMA SendsIdle ==
    ASSUME NEW L, NEW P, NEW U, NEW sent, Sends(L, P, U, sent), ~Asks(U),
           NEW M, NEW Q, Q.heard = P.heard
    PROVE  Sends(M, Q, U, sent)
BY DEF Sends, Asks

\* The provider hears a frame.
LEMMA SendsHeard ==
    ASSUME NEW L, NEW P, P.heard \in Nat, NEW U, NEW sent, Sends(L, P, U, sent),
           NEW V \in Seq(Requests), Shorter(U, V), U[1].type # "commit",
           NEW Q, Q.heard = P.heard + 1
    PROVE  Sends(L, Q, V, sent)
<1>1. Len(U) \in Nat /\ Len(U) # 0 /\ Len(V) = Len(U) - 1
      /\ \A n \in 1 .. Len(V) : V[n] = U[n + 1]
    BY DEF Shorter
<1>2. /\ \A n \in 1 .. Len(V) : n + 1 \in 1 .. Len(U)
      /\ \A m, n \in 1 .. Len(V) : m + 1 = n + 1 => m = n
    BY <1>1, Shift, Zenon
<1>3. ASSUME NEW m \in 1 .. Len(V), NEW n \in 1 .. Len(V),
             V[m].type = "commit", V[n].type = "commit"
      PROVE  m = n
    <2>1. PICK i, j : i = m + 1 /\ j = n + 1
        OBVIOUS
    <2>2. i \in 1 .. Len(U) /\ j \in 1 .. Len(U) /\ U[i] = V[m] /\ U[j] = V[n]
        BY <1>1, <1>2, <2>1
    <2>3. i = j
        BY <1>3, <2>2 DEF Sends
    <2> QED BY <1>2, <2>1, <2>3
<1>4. ASSUME NEW n \in 1 .. Len(V), V[n].type = "commit"
      PROVE  /\ Q.heard + Len(V) - 1 = sent
             /\ L.intents # << >> /\ L.intents[1].end = Q.heard + n - 1
    <2>1. /\ P.heard + Len(U) - 1 = sent
          /\ L.intents # << >> /\ L.intents[1].end = P.heard + (n + 1) - 1
        BY <1>1, <1>2, <1>4 DEF Sends
    <2>2. n \in Nat /\ sent \in Nat
        BY <1>1 DEF Sends
    <2> QED BY <1>1, <2>1, <2>2
<1>5. ~Asks(V) => Q.heard + Len(V) = sent
    <2>1. ~Asks(V) => P.heard + Len(U) = sent
        BY FewerAsk DEF Sends
    <2>2. sent \in Nat
        BY DEF Sends
    <2> QED BY <1>1, <2>1, <2>2
<1>6. sent \in Nat
    BY DEF Sends
<1> QED BY <1>3, <1>4, <1>5, <1>6 DEF Sends

\* The provider hears the commit.
LEMMA SendsAnswered ==
    ASSUME NEW L, NEW P, P.heard \in Nat, NEW U, NEW sent, Sends(L, P, U, sent),
           NEW V \in Seq(Requests), Shorter(U, V), U[1].type = "commit",
           NEW Q, Q.heard = P.heard
    PROVE  /\ Sends(L, Q, V, sent) /\ ~Asks(V) /\ Asks(U)
           /\ L.intents # << >> /\ L.intents[1].end = P.heard
<1>1. Len(U) \in Nat /\ Len(U) # 0 /\ Len(V) = Len(U) - 1 /\ sent \in Nat
      /\ \A n \in 1 .. Len(V) : V[n] = U[n + 1]
    BY DEF Shorter, Sends
<1>2. /\ 1 \in 1 .. Len(U)
      /\ \A n \in 1 .. Len(V) : n + 1 \in 1 .. Len(U) /\ n + 1 # 1
    BY <1>1, Shift, Zenon
<1>3. P.heard + Len(U) - 1 = sent /\ L.intents # << >> /\ L.intents[1].end = P.heard + 1 - 1
    BY <1>2 DEF Sends
<1>4. ~Asks(V)
    BY <1>1, <1>2 DEF Asks, Sends
<1>5. Asks(U)
    BY <1>2 DEF Asks
<1>6. Q.heard + Len(V) = sent /\ L.intents[1].end = P.heard
    BY <1>1, <1>3
<1> QED BY <1>1, <1>3, <1>4, <1>5, <1>6 DEF Sends, Asks

\* A frame is sent.
LEMMA SendsFrame ==
    ASSUME NEW L, NEW P, P.heard \in Nat, NEW U, NEW sent, Sends(L, P, U, sent),
           NEW V \in Seq(Requests), NEW m, Longer(U, V, m), m.type # "commit"
    PROVE  Sends(L, P, V, sent + 1) /\ (Asks(V) => Asks(U))
<1>1. /\ Len(U) \in Nat /\ sent \in Nat /\ Len(V) = Len(U) + 1 /\ V[Len(V)] = m
      /\ \A n \in 1 .. Len(U) : V[n] = U[n] /\ n \in 1 .. Len(V)
      /\ \A n \in 1 .. Len(V) : n # Len(V) => n \in 1 .. Len(U)
    <2>1. /\ Len(U) \in Nat /\ sent \in Nat /\ Len(V) = Len(U) + 1 /\ V[Len(U) + 1] = m
          /\ \A n \in 1 .. Len(U) : V[n] = U[n]
        BY DEF Longer, Sends
    <2>2. /\ \A n \in 1 .. Len(U) : n \in 1 .. Len(V)
          /\ \A n \in 1 .. Len(V) : n # Len(V) => n \in 1 .. Len(U)
        BY <2>1
    <2> QED BY <2>1, <2>2
<1>2. \A n \in 1 .. Len(V) : V[n].type = "commit" => n \in 1 .. Len(U) /\ U[n].type = "commit"
    BY <1>1
<1>3. ASSUME NEW n \in 1 .. Len(V), V[n].type = "commit"
      PROVE  /\ P.heard + Len(V) - 1 = sent + 1
             /\ L.intents # << >> /\ L.intents[1].end = P.heard + n - 1
    <2>1. n \in 1 .. Len(U) /\ U[n].type = "commit"
        BY <1>2, <1>3
    <2>2. /\ P.heard + Len(U) - 1 = sent
          /\ L.intents # << >> /\ L.intents[1].end = P.heard + n - 1
        BY <2>1 DEF Sends
    <2>3. Len(U) \in Nat /\ sent \in Nat /\ Len(V) = Len(U) + 1
        BY <1>1
    <2>4. P.heard + Len(V) - 1 = sent + 1
        BY <2>2, <2>3
    <2> QED BY <2>2, <2>4
<1>4. Asks(U) <=> Asks(V)
    BY <1>1, <1>2 DEF Asks
<1>5. ~Asks(V) => P.heard + Len(V) = sent + 1
    <2>1. ~Asks(V) => P.heard + Len(U) = sent
        BY <1>4 DEF Sends
    <2> QED BY <1>1, <2>1
<1>6. \A i, n \in 1 .. Len(V) : V[i].type = "commit" /\ V[n].type = "commit" => i = n
    BY <1>2 DEF Sends
<1> QED BY <1>1, <1>3, <1>4, <1>5, <1>6 DEF Sends

\* A commit is asked for.
LEMMA SendsCommit ==
    ASSUME NEW L, NEW P, P.heard \in Nat, NEW U, NEW sent, Sends(L, P, U, sent), ~Asks(U),
           NEW V \in Seq(Requests), NEW m, Longer(U, V, m), m.type = "commit",
           NEW M, M.intents # << >>, M.intents[1].end = sent
    PROVE  Sends(M, P, V, sent)
<1>1. /\ Len(U) \in Nat /\ sent \in Nat /\ Len(V) = Len(U) + 1 /\ V[Len(V)] = m
      /\ P.heard + Len(U) = sent
      /\ \A n \in 1 .. Len(U) : V[n] = U[n]
      /\ Len(V) \in 1 .. Len(V)
    BY DEF Longer, Sends
<1>2. ASSUME NEW n \in 1 .. Len(V), V[n].type = "commit" PROVE n = Len(V)
    <2>1. SUFFICES ASSUME n # Len(V) PROVE FALSE
        OBVIOUS
    <2>2. n \in 1 .. Len(U)
        BY <1>1, <2>1
    <2> QED BY <1>1, <1>2, <2>2 DEF Asks
<1>3. Asks(V)
    BY <1>1 DEF Asks
<1>4. P.heard + Len(V) - 1 = sent
    BY <1>1
<1>5. M.intents[1].end = P.heard + Len(V) - 1
    BY <1>4
<1>6. \A i, n \in 1 .. Len(V) : V[i].type = "commit" /\ V[n].type = "commit" => i = n
    BY <1>2
<1>7. \A n \in 1 .. Len(V) : V[n].type = "commit" =>
          P.heard + Len(V) - 1 = sent /\ M.intents # << >> /\ M.intents[1].end = P.heard + n - 1
    BY <1>2, <1>4, <1>5
<1> QED BY <1>1, <1>3, <1>6, <1>7 DEF Sends

-----------------------------------------------------------------------------
(* What was emitted.                                                       *)

LEMMA OutStay ==
    ASSUME NEW L, NEW E, Out(L, E), NEW M,
           \A k \in Turns : /\ M.items[k].emitted = L.items[k].emitted
                            /\ M.items[k].delivered = L.items[k].delivered
                            /\ M.items[k].completion = L.items[k].completion
    PROVE  Out(M, E)
<1>1. /\ E \in Seq(EventRows)
      /\ \A n \in 1 .. Len(E) : E[n] \in EventRows
    BY ElementOfSeq DEF Out
<1>2. \A n \in 1 .. Len(E) : E[n].item # 0 => E[n].item \in Turns
    <2>1. \A i \in 0 .. MaxTurns : i # 0 => i \in Turns
        BY TurnLedgerAssumption DEF Turns
    <2> QED BY <1>1, <2>1 DEF EventRows
<1> QED BY <1>1, <1>2 DEF Out

LEMMA HeardStay ==
    ASSUME NEW L, NEW F, Heard(L, F), NEW M,
           \A k \in Turns : L.items[k].delivered => M.items[k].delivered
    PROVE  Heard(M, F)
<1>1. \A n \in 1 .. Len(F) : F[n] \in Turns
    BY ElementOfSeq DEF Heard
<1> QED BY <1>1 DEF Heard

\* The fields of an event.
LEMMA EventFields ==
    ASSUME NEW L, NEW E, Out(L, E)
    PROVE  /\ E \in Seq(EventRows) /\ Len(E) \in Nat
           /\ \A n \in 1 .. Len(E) :
                 /\ E[n] \in EventRows /\ E[n].item \in Nat
                 /\ E[n].item # 0 => E[n].item \in Turns
                 /\ E[n].type \in {"error"} \cup Transcripts
           /\ \A k \in Turns : k \in Nat /\ k # 0
<1>1. E \in Seq(EventRows) /\ Len(E) \in Nat /\ \A n \in 1 .. Len(E) : E[n] \in EventRows
    BY ElementOfSeq, LenProperties DEF Out
<1>2. \A i \in 0 .. MaxTurns : i \in Nat /\ (i # 0 => i \in Turns)
    BY TurnLedgerAssumption DEF Turns
<1>3. \A k \in Turns : k \in Nat /\ k # 0
    BY TurnLedgerAssumption DEF Turns
<1>4. \A x \in EventRows : x.item \in 0 .. MaxTurns /\ x.type \in {"error"} \cup Transcripts
    BY DEF EventRows
<1> QED BY <1>1, <1>2, <1>3, <1>4

\* An error of the connection is emitted.
LEMMA OutError ==
    ASSUME NEW L, NEW E, Out(L, E), NEW F \in Seq(EventRows), NEW x, Longer(E, F, x),
           x.type = "error", x.item = 0
    PROVE  Out(L, F)
<1>1. /\ Len(E) \in Nat /\ Len(F) = Len(E) + 1 /\ F[Len(F)] = x
      /\ \A n \in 1 .. Len(E) : F[n] = E[n] /\ n \in 1 .. Len(F)
      /\ \A n \in 1 .. Len(F) : n # Len(F) => n \in 1 .. Len(E)
    <2>1. Len(E) \in Nat /\ Len(F) = Len(E) + 1 /\ F[Len(F)] = x
          /\ \A n \in 1 .. Len(E) : F[n] = E[n]
        BY DEF Longer
    <2> QED BY <2>1
<1>2. \A n \in 1 .. Len(F) : F[n].item # 0 => n \in 1 .. Len(E) /\ F[n] = E[n]
    BY <1>1
<1>3. \A n \in 1 .. Len(F) : F[n].item = 0 => F[n].type = "error"
    BY <1>1 DEF Out
<1>4. \A n \in 1 .. Len(F) :
          F[n].item # 0 => /\ L.items[F[n].item].emitted /\ ~L.items[F[n].item].delivered
                           /\ L.items[F[n].item].completion = F[n].type
    BY <1>2 DEF Out
<1>5. \A m, n \in 1 .. Len(F) :
          m < n /\ F[m].item # 0 /\ F[n].item # 0 => F[m].item < F[n].item
    BY <1>2 DEF Out
<1>6. \A k \in Turns : L.items[k].emitted /\ ~L.items[k].delivered =>
          \E n \in 1 .. Len(F) : F[n].item = k
    BY <1>1 DEF Out
<1> QED BY <1>3, <1>4, <1>5, <1>6 DEF Out

\* The loop takes the first event, which is a completion, and acknowledges its item.
Acknowledges(L, E, F, k, M) ==
    /\ E # << >> /\ E[1].type \in Transcripts /\ k = E[1].item
    /\ F \in Seq(EventRows) /\ Shorter(E, F) /\ M = acknowledge(L, k)

LEMMA OutHeard ==
    ASSUME NEW L \in Ledgers, NEW E, Out(L, E), NEW F, NEW k, NEW M, Acknowledges(L, E, F, k, M)
    PROVE  /\ Out(M, F) /\ k \in Turns /\ ~L.items[k].delivered
           /\ L.items[k].completion \in Transcripts
           /\ \A j \in Turns : j < k => L.items[j].delivered
           /\ \A j \in Turns : L.items[j].delivered => j < k
<1>1. /\ E # << >> /\ E[1].type \in Transcripts /\ k = E[1].item
      /\ F \in Seq(EventRows) /\ Shorter(E, F) /\ M = acknowledge(L, k)
    BY DEF Acknowledges
<1>2. /\ Len(E) \in Nat /\ Len(E) # 0 /\ Len(F) = Len(E) - 1 /\ 1 \in 1 .. Len(E)
      /\ \A n \in 1 .. Len(F) : F[n] = E[n + 1] /\ n + 1 \in 1 .. Len(E) /\ 1 < n + 1
    <2>1. /\ Len(E) \in Nat /\ Len(E) # 0 /\ Len(F) = Len(E) - 1
          /\ \A n \in 1 .. Len(F) : F[n] = E[n + 1]
        BY <1>1 DEF Shorter
    <2>2. 1 \in 1 .. Len(E)
        BY <2>1
    <2>3. \A n \in 1 .. Len(F) : n + 1 \in 1 .. Len(E) /\ 1 < n + 1
        BY <2>1
    <2> QED BY <2>1, <2>2, <2>3
<1>3. \A n \in 1 .. Len(E) : n # 1 => n - 1 \in 1 .. Len(F) /\ F[n - 1] = E[n]
    <2> SUFFICES ASSUME NEW n \in 1 .. Len(E), n # 1
                 PROVE  n - 1 \in 1 .. Len(F) /\ F[n - 1] = E[n]
        OBVIOUS
    <2>1. n - 1 \in 1 .. Len(F) /\ (n - 1) + 1 = n
        BY <1>2
    <2> QED BY <1>2, <2>1
<1>4. k # 0 /\ k \in Turns
    <2>1. E[1].type # "error"
        BY <1>1 DEF Transcripts
    <2>2. E[1].item # 0
        BY <1>2, <2>1 DEF Out
    <2> QED BY <1>1, <1>2, <2>2, EventFields
<1>5. L.items[k].emitted /\ ~L.items[k].delivered /\ L.items[k].completion \in Transcripts
    BY <1>1, <1>2, <1>4 DEF Out
<1>6. \A j \in Turns : j < k => L.items[j].delivered
    <2> SUFFICES ASSUME NEW j \in Turns, j < k, ~L.items[j].delivered PROVE FALSE
        OBVIOUS
    <2>1. L.items[j].emitted
        BY <1>4, <1>5 DEF Out
    <2>2. PICK n \in 1 .. Len(E) : E[n].item = j
        BY <2>1 DEF Out
    <2>3. j \in Nat /\ k \in Nat /\ j # 0
        BY <1>4, EventFields
    <2>4. n # 1 /\ 1 < n
        BY <1>1, <1>2, <2>2, <2>3
    <2>5. E[1].item < E[n].item
        BY <1>1, <1>2, <1>4, <2>2, <2>3, <2>4 DEF Out
    <2> QED BY <1>1, <2>2, <2>3, <2>5
<1>7. \A j \in Turns : L.items[j].delivered => j < k
    <2> SUFFICES ASSUME NEW j \in Turns, L.items[j].delivered, ~(j < k) PROVE FALSE
        OBVIOUS
    <2>1. j \in Nat /\ k \in Nat
        BY <1>4, EventFields
    <2>2. j # k
        BY <1>5
    <2>3. k < j
        BY <2>1, <2>2
    <2> QED BY <1>4, <1>5, <2>3 DEF Out
<1>8. /\ \A j \in Turns : j # k => M.items[j] = L.items[j]
      /\ M.items[k].completion = L.items[k].completion
      /\ M.items[k].emitted = L.items[k].emitted /\ M.items[k].delivered
    BY <1>1, <1>4, TurnAcknowledged
<1>9. ASSUME NEW n \in 1 .. Len(F)
      PROVE  /\ F[n].item = 0 => F[n].type = "error"
             /\ F[n].item # 0 => /\ M.items[F[n].item].emitted /\ ~M.items[F[n].item].delivered
                                 /\ M.items[F[n].item].completion = F[n].type
    <2>1. F[n] = E[n + 1] /\ n + 1 \in 1 .. Len(E) /\ 1 < n + 1
        BY <1>2
    <2>2. ASSUME F[n].item # 0 PROVE k < F[n].item /\ F[n].item \in Turns
        <3>1. PICK i : i = n + 1
            OBVIOUS
        <3>2. i \in 1 .. Len(E) /\ 1 < i /\ F[n] = E[i] /\ E[i].item # 0
            BY <2>1, <2>2, <3>1
        <3>3. E[i].item \in Turns
            BY <3>2, EventFields
        <3>4. E[1].item < E[i].item
            BY <1>1, <1>2, <1>4, <3>2 DEF Out
        <3> QED BY <1>1, <3>2, <3>3, <3>4
    <2>3. F[n].item # 0 => M.items[F[n].item] = L.items[F[n].item]
        BY <1>4, <1>8, <2>2, EventFields
    <2> QED BY <2>1, <2>3 DEF Out
<1>10. ASSUME NEW m \in 1 .. Len(F), NEW n \in 1 .. Len(F), m < n, F[m].item # 0, F[n].item # 0
      PROVE  F[m].item < F[n].item
    <2>1. m + 1 \in 1 .. Len(E) /\ n + 1 \in 1 .. Len(E) /\ m + 1 < n + 1
        BY <1>2, <1>10
    <2>2. F[m] = E[m + 1] /\ F[n] = E[n + 1]
        BY <1>2
    <2> QED BY <1>10, <2>1, <2>2 DEF Out
<1>11. ASSUME NEW j \in Turns, M.items[j].emitted, ~M.items[j].delivered
       PROVE  \E n \in 1 .. Len(F) : F[n].item = j
    <2>1. j # k /\ M.items[j] = L.items[j]
        BY <1>8, <1>11
    <2>2. PICK n \in 1 .. Len(E) : E[n].item = j
        BY <1>11, <2>1 DEF Out
    <2> QED BY <1>1, <1>3, <2>1, <2>2
<1>12. \A i, j \in Turns : i < j /\ M.items[j].emitted => M.items[i].emitted
    BY <1>8 DEF Out
<1>13. ASSUME NEW i \in Turns, NEW j \in Turns, i < j, M.items[j].delivered
       PROVE  M.items[i].delivered
    <2>1. CASE j = k
        BY <1>6, <1>8, <1>13, <2>1
    <2>2. CASE j # k
        <3>1. L.items[j].delivered
            BY <1>8, <1>13, <2>2
        <3>2. L.items[i].delivered
            BY <1>13, <3>1 DEF Out
        <3> QED BY <1>8, <3>2
    <2> QED BY <2>1, <2>2
<1>14. ASSUME NEW j \in Turns
       PROVE  /\ M.items[j].delivered => M.items[j].emitted /\ M.items[j].completion \in Transcripts
              /\ M.items[j].emitted => M.items[j].completion # "none"
    <2>1. CASE j = k
        BY <1>5, <1>8, <2>1 DEF Transcripts
    <2>2. CASE j # k
        <3>1. M.items[j] = L.items[j]
            BY <1>8, <2>2
        <3> QED BY <3>1 DEF Out
    <2> QED BY <2>1, <2>2
<1> QED BY <1>1, <1>4, <1>5, <1>6, <1>7, <1>9, <1>10, <1>11, <1>12, <1>13, <1>14 DEF Out

\* A transcript comes behind those that were heard.
LEMMA HeardMore ==
    ASSUME NEW L, NEW F, Heard(L, F), NEW k \in Turns,
           \A j \in Turns : L.items[j].delivered => j < k,
           NEW M, \A j \in Turns : L.items[j].delivered => M.items[j].delivered,
           M.items[k].delivered,
           NEW G \in Seq(Turns), Longer(F, G, k)
    PROVE  Heard(M, G)
<1>1. /\ Len(F) \in Nat /\ Len(G) = Len(F) + 1 /\ G[Len(G)] = k
      /\ \A n \in 1 .. Len(F) : G[n] = F[n]
    BY DEF Longer
<1>2. \A n \in 1 .. Len(G) : n # Len(G) => n \in 1 .. Len(F)
    BY <1>1
<1>3. \A n \in 1 .. Len(F) : F[n] \in Turns /\ F[n] < k
    <2>1. \A n \in 1 .. Len(F) : F[n] \in Turns
        BY ElementOfSeq DEF Heard
    <2> QED BY <2>1 DEF Heard
<1>4. \A n \in 1 .. Len(G) : M.items[G[n]].delivered
    BY <1>1, <1>2, <1>3 DEF Heard
<1>5. ASSUME NEW m \in 1 .. Len(G), NEW n \in 1 .. Len(G), m < n PROVE G[m] < G[n]
    <2>1. m # Len(G)
        BY <1>1, <1>5
    <2>2. m \in 1 .. Len(F) /\ G[m] = F[m]
        BY <1>1, <1>2, <2>1
    <2>3. CASE n = Len(G)
        BY <1>1, <1>3, <2>2, <2>3
    <2>4. CASE n # Len(G)
        <3>1. n \in 1 .. Len(F) /\ G[n] = F[n]
            BY <1>1, <1>2, <2>4
        <3> QED BY <1>5, <2>2, <3>1 DEF Heard
    <2> QED BY <2>3, <2>4
<1> QED BY <1>4, <1>5 DEF Heard

\* What is finite can be put in order: the smallest bound for which it could not is not 0,
\* and a set below the next bound has at most one element more.
Increasing(S) ==
    \E s \in [1 .. Cardinality(S) -> S] : \A i, j \in DOMAIN s : i < j => s[i] < s[j]

LEMMA CanBeCounted == \A n \in Nat : \A S \in SUBSET (1 .. n) : Increasing(S)
<1> DEFINE Bad == {n \in Nat : \E S \in SUBSET (1 .. n) : ~Increasing(S)}
<1> SUFFICES ASSUME Bad # {} PROVE FALSE
    OBVIOUS
<1>1. PICK n \in Bad : \A m \in Bad : ~(m < n)
    <2>1. PICK n \in Bad : \A m \in Bad : ~(<<m, n>> \in OpToRel(<, Nat))
        <3>1. Bad \subseteq Nat
            OBVIOUS
        <3> HIDE DEF Bad
        <3> QED BY <3>1, WFMin, NatLessThanWellFounded
    <2> QED BY <2>1 DEF OpToRel
<1>2. PICK S \in SUBSET (1 .. n) : ~Increasing(S)
    OBVIOUS
<1>3. n # 0
    <2>1. SUFFICES ASSUME n = 0 PROVE FALSE
        OBVIOUS
    <2>2. S = {}
        BY <2>1
    <2>3. Cardinality(S) = 0
        BY <2>2, FS_EmptySet
    <2> DEFINE s == [k \in 1 .. 0 |-> k]
    <2>4. s \in [1 .. Cardinality(S) -> S] /\ \A i, j \in DOMAIN s : i < j => s[i] < s[j]
        BY <2>2, <2>3
    <2> QED BY <1>2, <2>4 DEF Increasing
<1>4. \A T \in SUBSET (1 .. n - 1) : Increasing(T)
    BY <1>1, <1>3
<1>5. n \in S
    BY <1>2, <1>4
<1> DEFINE T == S \ {n}
           c == Cardinality(T)
<1>6. IsFiniteSet(S) /\ c \in Nat /\ Cardinality(S) = c + 1
    <2>1. IsFiniteSet(1 .. n)
        BY FS_Interval
    <2>2. IsFiniteSet(S)
        BY <2>1, FS_Subset
    <2>3. Cardinality(T) = Cardinality(S) - 1 /\ Cardinality(S) \in Nat /\ IsFiniteSet(T)
        BY <1>5, <2>2, FS_RemoveElement, FS_CardinalityType
    <2>4. Cardinality(T) \in Nat
        BY <2>3, FS_CardinalityType
    <2> QED BY <2>2, <2>3, <2>4
<1>7. T \in SUBSET (1 .. n - 1)
    OBVIOUS
<1>8. PICK s \in [1 .. c -> T] : \A i, j \in DOMAIN s : i < j => s[i] < s[j]
    <2>1. Increasing(T)
        BY <1>4, <1>7
    <2> QED BY <2>1 DEF Increasing
<1> HIDE DEF c
<1> DEFINE t == [i \in 1 .. c + 1 |-> IF i = c + 1 THEN n ELSE s[i]]
<1>9. t \in [1 .. Cardinality(S) -> S]
    BY <1>5, <1>6
<1>10. \A i, j \in DOMAIN t : i < j => t[i] < t[j]
    <2>1. \A k \in 1 .. c : s[k] \in 1 .. n - 1
        BY <1>7
    <2>2. \A k \in 1 .. c : s[k] < n
        BY <2>1
    <2> QED BY <1>6, <1>8, <2>2
<1> QED BY <1>2, <1>9, <1>10 DEF Increasing

\* What is released together comes in order, and every item of it once.
LEMMA ReadyIs ==
    ASSUME NEW L
    PROVE  /\ ready(L) \in Seq(Released(L)) /\ Len(ready(L)) \in Nat
           /\ \A m, n \in 1 .. Len(ready(L)) : m < n => ready(L)[m] < ready(L)[n]
           /\ \A k \in Released(L) : \E n \in 1 .. Len(ready(L)) : ready(L)[n] = k
<1> DEFINE S == Released(L)
           c == Cardinality(S)
           s == ready(L)
<1>1. S \in SUBSET (1 .. MaxTurns)
    BY DEF Released, Turns
<1>2. Increasing(S)
    BY <1>1, CanBeCounted, TurnLedgerAssumption
<1>3. c \in Nat /\ IsFiniteSet(S)
    <2>1. IsFiniteSet(1 .. MaxTurns)
        BY FS_Interval, TurnLedgerAssumption
    <2>2. IsFiniteSet(S)
        BY <1>1, <2>1, FS_Subset
    <2> QED BY <2>2, FS_CardinalityType
<1>4. s \in [1 .. c -> S] /\ \A i, j \in DOMAIN s : i < j => s[i] < s[j]
    BY <1>2 DEF ready, Increasing
<1>5. \A k \in S : k \in Int
    BY <1>1, TurnLedgerAssumption
<1> HIDE DEF S, s
<1>6. s \in Seq(S) /\ Len(s) = c
    BY <1>3, <1>4
<1>7. s \in Injection(1 .. c, S)
    <2>1. \A i, j \in 1 .. c : s[i] \in S /\ (i < j => s[i] < s[j])
        BY <1>4
    <2>2. ASSUME NEW i \in 1 .. c, NEW j \in 1 .. c, i # j PROVE s[i] # s[j]
        <3>1. i < j \/ j < i
            BY <1>3, <2>2
        <3>2. s[i] < s[j] \/ s[j] < s[i]
            BY <2>1, <3>1
        <3>3. s[i] \in Int /\ s[j] \in Int
            BY <1>5, <2>1
        <3> QED BY <3>2, <3>3
    <2> QED BY <1>4, <2>2 DEF Injection, IsInjective
<1>8. s \in Surjection(1 .. c, S)
    <2>1. Cardinality(1 .. c) = c
        <3>1. Cardinality(1 .. c) = IF 1 > c THEN 0 ELSE c - 1 + 1
            BY <1>3, FS_Interval
        <3> QED BY <1>3, <3>1
    <2>2. Cardinality(S) = c
        OBVIOUS
    <2> QED BY <1>3, <1>7, <2>1, <2>2, FS_Injection
<1>9. \A k \in S : \E n \in 1 .. c : s[n] = k
    BY <1>8 DEF Surjection
<1>10. \A m, n \in 1 .. Len(s) : m < n => s[m] < s[n]
    BY <1>4, <1>6
<1> QED BY <1>3, <1>6, <1>9, <1>10 DEF S, s

\* What is released follows what was emitted, without a gap.
LEMMA ReleasedIs ==
    ASSUME NEW X,
           \A j \in Turns : X.items[j].completion # "none" => X.items[j].acked,
           \A i, j \in Turns : i < j /\ X.items[j].emitted => X.items[i].emitted
    PROVE  \A j \in Released(X) :
               /\ j \in Turns /\ X.items[j].completion # "none" /\ ~X.items[j].emitted
               /\ \A i \in Turns : /\ X.items[i].emitted => i < j
                                   /\ i < j => X.items[i].emitted \/ i \in Released(X)
<1> SUFFICES ASSUME NEW j \in Released(X)
             PROVE  /\ j \in Turns /\ X.items[j].completion # "none" /\ ~X.items[j].emitted
                    /\ \A i \in Turns : /\ X.items[i].emitted => i < j
                                        /\ i < j => X.items[i].emitted \/ i \in Released(X)
    OBVIOUS
<1>1. j \in Turns /\ X.items[j].completion # "none" /\ ~X.items[j].emitted
    BY DEF Released
<1>2. PICK first \in 1 .. j :
          /\ first = 1 \/ X.items[first - 1].emitted \/ ~X.items[first].acked
          /\ \A i \in first .. j : X.items[i].completion # "none"
          /\ \A i \in first + 1 .. j : X.items[i].acked
    BY DEF Released
<1>3. \A i \in Turns : i \in Nat /\ i # 0 /\ \A n \in 1 .. i : n \in Turns
    BY TurnLedgerAssumption DEF Turns
<1>4. j \in Nat /\ first \in Turns /\ first \in Nat /\ first \in first .. j
    BY <1>1, <1>3
<1>5. first = 1 \/ X.items[first - 1].emitted
    BY <1>2, <1>4
<1>6. ASSUME NEW i \in Turns, X.items[i].emitted PROVE i < j
    <2>1. i \in Nat /\ i # j
        BY <1>1, <1>3, <1>6
    <2>2. CASE j < i
        BY <1>1, <1>6, <2>2
    <2> QED BY <1>4, <2>1, <2>2
<1>7. ASSUME NEW i \in Turns, i < j, ~X.items[i].emitted PROVE i \in Released(X)
    <2>1. i \in Nat
        BY <1>3
    <2>2. CASE i < first
        <3>1. PICK n : n = first - 1
            OBVIOUS
        <3>2. first # 1 /\ n \in 1 .. first /\ i <= n
            BY <1>3, <1>4, <2>1, <2>2, <3>1
        <3>3. n \in Turns /\ X.items[n].emitted /\ n \in Nat
            BY <1>3, <1>4, <1>5, <3>1, <3>2
        <3>4. i = n \/ i < n
            BY <2>1, <3>2, <3>3
        <3> QED BY <1>7, <3>3, <3>4
    <2>3. CASE ~(i < first)
        <3>1. first \in 1 .. i /\ i \in first .. j
            BY <1>2, <1>4, <1>7, <2>1, <2>3
        <3>2. \A m \in first .. i : m \in first .. j
            BY <1>4, <1>7, <2>1
        <3>3. \A m \in first + 1 .. i : m \in first + 1 .. j
            BY <1>4, <1>7, <2>1
        <3>4. /\ \A m \in first .. i : X.items[m].completion # "none"
              /\ \A m \in first + 1 .. i : X.items[m].acked
              /\ X.items[i].completion # "none"
            BY <1>2, <3>1, <3>2, <3>3
        <3> QED BY <1>2, <1>7, <3>1, <3>4 DEF Released
    <2> QED BY <2>2, <2>3
<1> QED BY <1>1, <1>6, <1>7

\* The events that go with it.
EventsOf(X) == [n \in DOMAIN ready(X) |-> [type |-> X.items[ready(X)[n]].completion,
                                           item |-> ready(X)[n]]]

Follow(X, E, F) ==
    /\ F \in Seq(EventRows) /\ Len(E) \in Nat /\ Len(ready(X)) \in Nat
    /\ Len(F) = Len(E) + Len(ready(X))
    /\ \A n \in 1 .. Len(E) : F[n] = E[n]
    /\ \A n \in 1 .. Len(ready(X)) :
           /\ F[Len(E) + n].item = ready(X)[n]
           /\ F[Len(E) + n].type = X.items[ready(X)[n]].completion

LEMMA EventsAre ==
    ASSUME NEW X, X \in Ledgers, NEW E \in Seq(EventRows),
           \A j \in Released(X) : j \in Turns /\ X.items[j].completion # "none",
           NEW F, F = E \o EventsOf(X)
    PROVE  Follow(X, E, F)
<1> DEFINE s == ready(X)
           c == Len(s)
           T == EventsOf(X)
<1>1. s \in Seq(Released(X)) /\ c \in Nat
    BY ReadyIs
<1>2. DOMAIN s = 1 .. c /\ \A n \in 1 .. c : s[n] \in Released(X)
    BY <1>1
<1>3. T = [n \in 1 .. c |-> [type |-> X.items[s[n]].completion, item |-> s[n]]]
    BY <1>2 DEF EventsOf
<1>4. ASSUME NEW n \in 1 .. c
      PROVE  [type |-> X.items[s[n]].completion, item |-> s[n]] \in EventRows
    <2>1. s[n] \in Turns /\ X.items[s[n]].completion # "none"
        BY <1>2
    <2>2. X.items[s[n]] \in ItemRows
        BY <2>1, LedgerFields
    <2>3. X.items[s[n]].completion \in {"error"} \cup Transcripts
        BY <2>1, <2>2 DEF ItemRows
    <2>4. s[n] \in 0 .. MaxTurns
        BY <2>1, TurnLedgerAssumption DEF Turns
    <2> QED BY <2>3, <2>4 DEF EventRows
<1> HIDE DEF s
<1>5. T \in Seq(EventRows) /\ Len(T) = c
    BY <1>1, <1>3, <1>4
<1>6. \A n \in 1 .. c : T[n].item = s[n] /\ T[n].type = X.items[s[n]].completion
    BY <1>3
<1> HIDE DEF T
<1>7. Len(E) \in Nat
    BY LenProperties
<1>8. F = E \o T
    BY DEF T
<1>9. F \in Seq(EventRows) /\ Len(F) = Len(E) + Len(T)
      /\ \A i \in 1 .. Len(E) + Len(T) : F[i] = IF i <= Len(E) THEN E[i] ELSE T[i - Len(E)]
    <2>1. E \in Seq(EventRows) /\ T \in Seq(EventRows)
        BY <1>5
    <2>2. /\ E \o T \in Seq(EventRows) /\ Len(E \o T) = Len(E) + Len(T)
          /\ \A i \in 1 .. Len(E) + Len(T) :
                 (E \o T)[i] = IF i <= Len(E) THEN E[i] ELSE T[i - Len(E)]
        BY <2>1, ConcatProperties
    <2> QED BY <1>8, <2>2
<1>10. ASSUME NEW n \in 1 .. c PROVE F[Len(E) + n] = T[n]
    <2>1. PICK i : i = Len(E) + n
        OBVIOUS
    <2>2. i \in 1 .. Len(E) + Len(T) /\ ~(i <= Len(E)) /\ i - Len(E) = n
        BY <1>1, <1>5, <1>7, <2>1
    <2> QED BY <1>9, <2>1, <2>2
<1>11. \A n \in 1 .. Len(E) : F[n] = E[n]
    BY <1>1, <1>5, <1>7, <1>9
<1> QED BY <1>1, <1>5, <1>6, <1>7, <1>9, <1>10, <1>11 DEF s, Follow

\* M is L with the completion of item k, by way of X, which still has to release.
Completes(L, k, said, X, M) ==
    /\ X \in Ledgers /\ M \in Ledgers /\ M.allocated = L.allocated
    /\ M.intents = L.intents /\ samples(M) = samples(L)
    /\ \A j \in Turns :
          /\ SameRange(L.items[j], M.items[j])
          /\ M.items[j].delivered = L.items[j].delivered
          /\ M.items[j].completion = X.items[j].completion
          /\ M.items[j].emitted <=> L.items[j].emitted \/ j \in Released(X)
          /\ X.items[j].acked = L.items[j].acked
          /\ X.items[j].emitted = L.items[j].emitted
          /\ j # k => X.items[j].completion = L.items[j].completion
    /\ X.items[k].completion = said

\* A completion is entered, and what it releases is emitted.
LEMMA ItemCompleted ==
    ASSUME NEW L \in Ledgers, NEW k \in Turns, NEW said \in {"error"} \cup Transcripts,
           NEW X, X = Completed(L, k, said), NEW M, M = Emitted(X)
    PROVE  Completes(L, k, said, X, M)
<1>1. /\ X \in Ledgers /\ X.allocated = L.allocated
      /\ X.intents = L.intents /\ samples(X) = samples(L)
      /\ \A j \in Turns : j # k => X.items[j] = L.items[j]
      /\ SameRange(L.items[k], X.items[k])
      /\ X.items[k].completion = said
      /\ X.items[k].emitted = L.items[k].emitted
      /\ X.items[k].delivered = L.items[k].delivered
    BY TurnCompleted DEF SameRange
<1>2. \A j \in Turns : /\ SameRange(L.items[j], X.items[j])
                       /\ X.items[j].emitted = L.items[j].emitted
                       /\ X.items[j].delivered = L.items[j].delivered
    BY <1>1 DEF SameRange
<1>3. /\ M \in Ledgers /\ M.allocated = X.allocated
      /\ M.intents = X.intents /\ samples(M) = samples(X)
      /\ \A j \in Turns :
            /\ SameRange(X.items[j], M.items[j])
            /\ M.items[j].completion = X.items[j].completion
            /\ M.items[j].delivered = X.items[j].delivered
            /\ M.items[j].emitted <=> X.items[j].emitted \/ j \in Released(X)
    BY <1>1, TurnsEmitted DEF SameRange
<1>4. \A j \in Turns : /\ SameRange(L.items[j], M.items[j])
                       /\ X.items[j].acked = L.items[j].acked
    BY <1>2, <1>3 DEF SameRange
<1> QED BY <1>1, <1>2, <1>3, <1>4 DEF Completes

LEMMA OutCompleted ==
    ASSUME NEW L \in Ledgers, NEW E, Out(L, E), NEW k \in Turns, L.items[k].acked,
           L.items[k].completion = "none", NEW said \in {"error"} \cup Transcripts,
           \A j \in Turns : ~L.items[j].acked => L.items[j].completion = "none",
           NEW X, NEW M, Completes(L, k, said, X, M), NEW F, F = E \o EventsOf(X)
    PROVE  Out(M, F)
<1> DEFINE s == ready(X)
           c == Len(s)
           e == Len(E)
           R == Released(X)
<1>1. /\ X \in Ledgers
      /\ \A j \in Turns :
             /\ M.items[j].delivered = L.items[j].delivered
             /\ M.items[j].completion = X.items[j].completion
             /\ M.items[j].emitted <=> L.items[j].emitted \/ j \in R
             /\ X.items[j].acked = L.items[j].acked
             /\ X.items[j].emitted = L.items[j].emitted
             /\ j # k => X.items[j].completion = L.items[j].completion
      /\ X.items[k].completion = said
    BY DEF Completes
<1>2. ~L.items[k].emitted /\ ~L.items[k].delivered /\ said # "none"
    <2>1. said # "none"
        BY DEF Transcripts
    <2> QED BY <2>1 DEF Out
<1>3. \A j \in R : /\ j \in Turns /\ X.items[j].completion # "none" /\ ~L.items[j].emitted
                   /\ \A i \in Turns : /\ L.items[i].emitted => i < j
                                       /\ i < j => L.items[i].emitted \/ i \in R
    <2>1. \A j \in Turns : X.items[j].completion # "none" => X.items[j].acked
        BY <1>1
    <2>2. \A i, j \in Turns : i < j /\ X.items[j].emitted => X.items[i].emitted
        BY <1>1 DEF Out
    <2>3. \A j \in R :
               /\ j \in Turns /\ X.items[j].completion # "none" /\ ~X.items[j].emitted
               /\ \A i \in Turns : /\ X.items[i].emitted => i < j
                                   /\ i < j => X.items[i].emitted \/ i \in R
        BY <2>1, <2>2, ReleasedIs
    <2> QED BY <1>1, <2>3
<1>4. /\ c \in Nat /\ \A n \in 1 .. c : s[n] \in R
      /\ \A m, n \in 1 .. c : m < n => s[m] < s[n]
      /\ \A j \in R : \E n \in 1 .. c : s[n] = j
    <2>1. /\ s \in Seq(R) /\ c \in Nat
          /\ \A m, n \in 1 .. c : m < n => s[m] < s[n]
          /\ \A j \in R : \E n \in 1 .. c : s[n] = j
        BY ReadyIs
    <2>2. \A n \in 1 .. c : s[n] \in R
        BY <2>1, ElementOfSeq
    <2> QED BY <2>1, <2>2
<1>5. E \in Seq(EventRows)
    BY DEF Out
<1>6. /\ F \in Seq(EventRows) /\ e \in Nat /\ Len(F) = e + c
      /\ \A n \in 1 .. e : F[n] = E[n]
      /\ \A n \in 1 .. c : F[e + n].item = s[n] /\ F[e + n].type = X.items[s[n]].completion
    <2>1. Follow(X, E, F)
        BY <1>1, <1>3, <1>5, EventsAre
    <2> QED BY <2>1 DEF Follow
<1> HIDE DEF s, c, e, R
<1>7. \A n \in 1 .. Len(F) : n \in 1 .. e \/ (n - e \in 1 .. c /\ F[n].item = s[n - e]
                                               /\ F[n].type = X.items[s[n - e]].completion)
    <2> SUFFICES ASSUME NEW n \in 1 .. Len(F), n \notin 1 .. e
                 PROVE  /\ n - e \in 1 .. c /\ F[n].item = s[n - e]
                        /\ F[n].type = X.items[s[n - e]].completion
        OBVIOUS
    <2>1. PICK i : i = n - e
        OBVIOUS
    <2>2. i \in 1 .. c /\ n = e + i
        BY <1>4, <1>6, <2>1
    <2> QED BY <1>6, <2>1, <2>2
<1>8. \A n \in 1 .. e : /\ F[n] = E[n] /\ n \in 1 .. Len(F) /\ n \in 1 .. Len(E)
    BY <1>4, <1>6 DEF e
<1>9. \A n \in 1 .. c : e + n \in 1 .. Len(F)
    BY <1>4, <1>6
<1>10. \A n \in 1 .. e : F[n].item # 0 => F[n].item \in Turns
    BY <1>8, EventFields
<1>11. \A n \in 1 .. c : s[n] \in Turns /\ s[n] # 0 /\ s[n] \in Nat
    BY <1>3, <1>4, EventFields
<1>12. ASSUME NEW n \in 1 .. Len(F)
       PROVE  /\ F[n].item = 0 => F[n].type = "error"
              /\ F[n].item # 0 => /\ M.items[F[n].item].emitted /\ ~M.items[F[n].item].delivered
                                  /\ M.items[F[n].item].completion = F[n].type
    <2>1. CASE n \in 1 .. e
        <3>1. F[n] = E[n] /\ n \in 1 .. Len(E)
            BY <1>8, <2>1
        <3>2. /\ E[n].item = 0 => E[n].type = "error"
              /\ E[n].item # 0 => /\ L.items[E[n].item].emitted /\ ~L.items[E[n].item].delivered
                                  /\ L.items[E[n].item].completion = E[n].type
            BY <3>1 DEF Out
        <3>3. E[n].item # 0 => E[n].item \in Turns /\ E[n].item # k
            BY <1>2, <1>10, <2>1, <3>1, <3>2
        <3> QED BY <1>1, <3>1, <3>2, <3>3
    <2>2. CASE n \notin 1 .. e
        <3>1. PICK i \in 1 .. c : F[n].item = s[i] /\ F[n].type = X.items[s[i]].completion
            BY <1>7, <2>2
        <3>2. s[i] \in R /\ s[i] \in Turns /\ s[i] # 0
            BY <1>4, <1>11
        <3>3. M.items[s[i]].emitted /\ M.items[s[i]].completion = X.items[s[i]].completion
            BY <1>1, <3>2
        <3>4. ~M.items[s[i]].delivered
            BY <1>1, <1>3, <3>2 DEF Out
        <3> QED BY <3>1, <3>2, <3>3, <3>4
    <2> QED BY <2>1, <2>2
<1>13. ASSUME NEW m \in 1 .. Len(F), NEW n \in 1 .. Len(F), m < n, F[m].item # 0, F[n].item # 0
       PROVE  F[m].item < F[n].item
    <2>1. CASE n \in 1 .. e
        <3>1. m \in 1 .. e
            BY <1>6, <1>13, <2>1
        <3> QED BY <1>8, <1>13, <2>1, <3>1 DEF Out
    <2>2. CASE m \in 1 .. e /\ n \notin 1 .. e
        <3>1. F[n].item \in R
            BY <1>4, <1>7, <2>2
        <3>2. F[m] = E[m] /\ m \in 1 .. Len(E) /\ F[m].item \in Turns
            BY <1>8, <1>10, <1>13, <2>2
        <3>3. L.items[F[m].item].emitted
            BY <1>13, <3>2 DEF Out
        <3> QED BY <1>3, <3>1, <3>2, <3>3
    <2>3. CASE m \notin 1 .. e /\ n \notin 1 .. e
        <3>1. /\ m - e \in 1 .. c /\ F[m].item = s[m - e]
              /\ n - e \in 1 .. c /\ F[n].item = s[n - e]
            BY <1>7, <2>3
        <3>2. m - e < n - e
            BY <1>4, <1>6, <1>13
        <3> QED BY <1>4, <3>1, <3>2
    <2> QED BY <2>1, <2>2, <2>3
<1>14. ASSUME NEW j \in Turns, M.items[j].emitted, ~M.items[j].delivered
       PROVE  \E n \in 1 .. Len(F) : F[n].item = j
    <2>1. CASE L.items[j].emitted
        <3>1. ~L.items[j].delivered
            BY <1>1, <1>14
        <3>2. PICK n \in 1 .. Len(E) : E[n].item = j
            BY <2>1, <3>1 DEF Out
        <3>3. n \in 1 .. e
            BY DEF e
        <3> QED BY <1>8, <3>2, <3>3
    <2>2. CASE ~L.items[j].emitted
        <3>1. j \in R
            BY <1>1, <1>14, <2>2
        <3>2. PICK n \in 1 .. c : s[n] = j
            BY <1>4, <3>1
        <3>3. e + n \in 1 .. Len(F) /\ F[e + n].item = j
            BY <1>6, <1>9, <3>2
        <3> QED BY <3>3
    <2> QED BY <2>1, <2>2
<1>15. ASSUME NEW i \in Turns, NEW j \in Turns, i < j, M.items[j].emitted
       PROVE  M.items[i].emitted
    <2>1. CASE L.items[j].emitted
        <3>1. L.items[i].emitted
            BY <1>15, <2>1 DEF Out
        <3> QED BY <1>1, <3>1
    <2>2. CASE ~L.items[j].emitted
        <3>1. j \in R
            BY <1>1, <1>15, <2>2
        <3> QED BY <1>1, <1>3, <1>15, <3>1
    <2> QED BY <2>1, <2>2
<1>16. \A i, j \in Turns : i < j /\ M.items[j].delivered => M.items[i].delivered
    BY <1>1 DEF Out
<1>17. ASSUME NEW j \in Turns
       PROVE  /\ M.items[j].delivered => M.items[j].emitted /\ M.items[j].completion \in Transcripts
              /\ M.items[j].emitted => M.items[j].completion # "none"
    <2>1. CASE j = k
        BY <1>1, <1>2, <2>1
    <2>2. CASE j # k
        <3>1. M.items[j].completion = L.items[j].completion
            BY <1>1, <2>2
        <3>2. j \in R => L.items[j].completion # "none"
            BY <1>1, <1>3, <2>2
        <3>3. /\ L.items[j].delivered => L.items[j].emitted /\ L.items[j].completion \in Transcripts
              /\ L.items[j].emitted => L.items[j].completion # "none"
            BY DEF Out
        <3> QED BY <1>1, <3>1, <3>2, <3>3
    <2> QED BY <2>1, <2>2
<1> QED BY <1>6, <1>12, <1>13, <1>14, <1>15, <1>16, <1>17 DEF Out

-----------------------------------------------------------------------------
(* What the provider does.                                                 *)

LEMMA AgreeFrameHeard ==
    ASSUME NEW L, NEW P, NEW D, NEW U, NEW C, NEW sent, NEW a, Agree(L, P, D, U, C, sent, a),
           U # << >>, U[1].type # "commit", NEW V, V = Tail(U),
           NEW Q \in Providers, Q.heard = P.heard + 1, Q.from = P.from,
           Q.ranges = P.ranges, Q.owing = P.owing
    PROVE  Agree(L, Q, D, V, C, sent, a)
<1>1. /\ Hears(P) /\ Owns(L, P, a) /\ Told(L, P, D, a) /\ Sends(L, P, U, sent)
      /\ Answers(L, P, U, D, a) /\ Owing(C, L, a)
    BY DEF Agree
<1>2. Hears(Q) /\ Extends(P, Q)
    BY <1>1, FrameReaches
<1>3. V \in Seq(Requests) /\ Shorter(U, V)
    BY <1>1, TailIs DEF Sends
<1>4. P.heard \in Nat
    BY <1>1, ProviderFields
<1>5. Sends(L, Q, V, sent)
    BY <1>1, <1>2, <1>3, <1>4, SendsHeard
<1>6. Told(L, Q, D, a)
    BY <1>1, <1>2, ToldSame
<1>7. Owns(L, Q, a)
    BY <1>1, <1>2, OwnsSeen
<1>8. Answers(L, Q, V, D, a)
    <2>1. \A k : EndOf(Q, k) = EndOf(P, k)
        BY <1>2 DEF EndOf
    <2>2. Asks(V) => Asks(U)
        BY <1>3, FewerAsk
    <2>3. \A m, n \in 1 .. Len(D) :
              D[m].type = "commit empty" /\ D[n].type = "commit empty" => m = n
        BY <1>1 DEF Answers
    <2>4. Settles(L, P, U, D, a, L, Q, V, D, a)
        BY <1>2, <2>1, <2>2, <2>3 DEF Settles
    <2> QED BY <1>1, <2>4, AnswersStay
<1> QED BY <1>1, <1>2, <1>5, <1>6, <1>7, <1>8 DEF Agree

\* A commit that finds nothing to commit.
LEMMA AgreeRefused ==
    ASSUME NEW L, NEW P, NEW D, NEW U, NEW C, NEW sent, NEW a, Agree(L, P, D, U, C, sent, a),
           U # << >>, U[1].type = "commit", NEW V, V = Tail(U),
           NEW m \in Messages, m.type = "commit empty",
           NEW E \in Seq(Messages), Longer(D, E, m)
    PROVE  Agree(L, P, E, V, C, sent, a)
<1>1. /\ Hears(P) /\ Owns(L, P, a) /\ Told(L, P, D, a) /\ Sends(L, P, U, sent)
      /\ Answers(L, P, U, D, a) /\ Owing(C, L, a)
    BY DEF Agree
<1>2. V \in Seq(Requests) /\ Shorter(U, V)
    BY <1>1, TailIs DEF Sends
<1>3. /\ Sends(L, P, V, sent) /\ ~Asks(V) /\ Asks(U) /\ L.intents # << >>
    <2>1. P.heard \in Nat
        BY <1>1, ProviderFields
    <2> QED BY <1>1, <1>2, <2>1, SendsAnswered
<1>4. Told(L, P, E, a)
    BY <1>1, PutLast, ToldMore
<1>5. /\ Len(D) \in Nat /\ Len(E) = Len(D) + 1 /\ E[Len(E)] = m
      /\ \A n \in 1 .. Len(D) : E[n] = D[n] /\ n \in 1 .. Len(E)
      /\ \A n \in 1 .. Len(E) : n # Len(E) => n \in 1 .. Len(D)
    BY LongerIs
<1>6. Answers(L, P, V, E, a)
    <2>1. ~Refuses(D) /\ \A k \in a + 1 .. Len(P.ranges) : ~ByHand(L, D, k)
        BY <1>1, <1>3 DEF Answers
    <2>2. \A k \in a + 1 .. Len(P.ranges) : ~ByHand(L, E, k)
        BY <1>5, <2>1, MoreByHand DEF Begins
    <2>3. \A n \in 1 .. Len(E) : E[n].type = "commit empty" => n = Len(E)
        BY <1>5, <2>1 DEF Refuses
    <2> QED BY <1>3, <2>2, <2>3 DEF Answers
<1> QED BY <1>1, <1>3, <1>4, <1>6 DEF Agree

\* A message that is no answer and announces nothing.
Quiet(m) == m.type \notin {"committed", "stopped", "commit empty"}

\* What was put in is no answer, and leaves those that there are.
LEMMA AnswersMore ==
    ASSUME NEW L, NEW P, NEW U, NEW D, NEW a, Answers(L, P, U, D, a),
           NEW E, NEW p, NEW m, Inserted(D, E, p, m), Quiet(m),
           NEW Q, Q.ranges = P.ranges
    PROVE  Answers(L, Q, U, E, a)
<1>1. /\ Len(D) \in Nat /\ Len(E) = Len(D) + 1 /\ p \in 1 .. Len(E) /\ p \in Nat /\ E[p] = m
      /\ \A n \in 1 .. Len(D) : To(p, n) \in 1 .. Len(E) /\ To(p, n) # p
                                /\ E[To(p, n)] = D[n]
      /\ \A i \in 1 .. Len(E) : i # p =>
             Fro(p, i) \in 1 .. Len(D) /\ To(p, Fro(p, i)) = i /\ E[i] = D[Fro(p, i)]
    BY InsertedIs
<1>2. \A i, n \in 1 .. Len(D) :
          D[i].type = "commit empty" /\ D[n].type = "commit empty" => i = n
    BY DEF Answers
<1>3. ASSUME NEW i \in 1 .. Len(E), NEW n \in 1 .. Len(E),
             E[i].type = "commit empty", E[n].type = "commit empty"
      PROVE  i = n
    <2>1. i # p /\ n # p
        BY <1>1, <1>3 DEF Quiet
    <2>2. PICK x \in 1 .. Len(D), y \in 1 .. Len(D) : x = Fro(p, i) /\ y = Fro(p, n)
        BY <1>1, <2>1
    <2>3. D[x] = E[i] /\ D[y] = E[n] /\ To(p, x) = i /\ To(p, y) = n
        BY <1>1, <2>1, <2>2
    <2>4. x = y
        BY <1>2, <1>3, <2>3
    <2> QED BY <2>3, <2>4
<1>4. Refuses(E) => Refuses(D)
    BY <1>1 DEF Refuses, Quiet
<1>5. \A k : ByHand(L, E, k) => ByHand(L, D, k)
    BY <1>1 DEF ByHand
<1>6. \A k : EndOf(Q, k) = EndOf(P, k)
    BY DEF EndOf
<1>7. Settles(L, P, U, D, a, L, Q, U, E, a)
    BY <1>3, <1>4, <1>5, <1>6 DEF Settles
<1> QED BY <1>7, AnswersStay

\* A message that announces nothing; a completion comes behind the commit of its item.
LEMMA AgreeSaid ==
    ASSUME NEW L, NEW P, NEW D, NEW U, NEW C, NEW sent, NEW a, Agree(L, P, D, U, C, sent, a),
           NEW m, m.type \notin {"committed", "stopped", "commit empty"},
           NEW E \in Seq(Messages), NEW p, Inserted(D, E, p, m),
           m.type = "completed" =>
               /\ m.item \in 1 .. Len(P.ranges)
               /\ \A n \in p .. Len(D) : ~(D[n].type = "committed" /\ D[n].item = m.item),
           NEW Q, Hears(Q), Q.ranges = P.ranges, Q.heard = P.heard
    PROVE  Agree(L, Q, E, U, C, sent, a)
<1>1. /\ Hears(P) /\ Owns(L, P, a) /\ Told(L, P, D, a) /\ Sends(L, P, U, sent)
      /\ Answers(L, P, U, D, a) /\ Owing(C, L, a)
    BY DEF Agree
<1>2. Told(L, P, E, a)
    BY <1>1, ToldMore
<1>3. Told(L, Q, E, a)
    BY <1>2, ToldSame
<1>4. Extends(P, Q)
    BY <1>1, SameItems, Zenon
<1>5. Owns(L, Q, a)
    BY <1>1, <1>4, OwnsSeen
<1>6. Sends(L, Q, U, sent)
    BY <1>1, SendsStay
<1>7. Answers(L, Q, U, E, a)
    <2>1. Quiet(m)
        BY DEF Quiet
    <2> QED BY <1>1, <2>1, AnswersMore
<1> QED BY <1>1, <1>3, <1>5, <1>6, <1>7 DEF Agree

\* Q is the provider P with one item more, k, up to end.
Makes(P, Q, k, end) ==
    /\ Hears(Q) /\ Extends(P, Q) /\ Q.heard = P.heard
    /\ k = Len(P.ranges) + 1 /\ Len(Q.ranges) = k /\ k \in Turns /\ EndOf(Q, k) = end

\* A commit that makes an item.
LEMMA AgreeAsked ==
    ASSUME NEW L, NEW P, NEW D, NEW U, NEW C, NEW sent, NEW a, Agree(L, P, D, U, C, sent, a),
           U # << >>, U[1].type = "commit", NEW V, V = Tail(U),
           NEW Q, NEW k, Makes(P, Q, k, P.heard),
           NEW m, m.type = "committed", m.item = k, NEW E \in Seq(Messages), Longer(D, E, m)
    PROVE  Agree(L, Q, E, V, C, sent, a)
<1>1. /\ Hears(P) /\ Owns(L, P, a) /\ Told(L, P, D, a) /\ Sends(L, P, U, sent)
      /\ Answers(L, P, U, D, a) /\ Owing(C, L, a)
    BY DEF Agree
<1>2. V \in Seq(Requests) /\ Shorter(U, V)
    BY <1>1, TailIs DEF Sends
<1>3. /\ Hears(Q) /\ Extends(P, Q) /\ Q.heard = P.heard
      /\ k = Len(P.ranges) + 1 /\ Len(Q.ranges) = k /\ k \in Turns /\ EndOf(Q, k) = P.heard
    BY DEF Makes
<1>4. /\ Sends(L, Q, V, sent) /\ ~Asks(V) /\ Asks(U)
      /\ L.intents # << >> /\ L.intents[1].end = P.heard
    <2>1. P.heard \in Nat
        BY <1>1, ProviderFields
    <2> QED BY <1>1, <1>2, <1>3, <2>1, SendsAnswered
<1>5. /\ Len(D) \in Nat /\ Len(E) = Len(D) + 1 /\ E[Len(E)] = m
      /\ \A n \in 1 .. Len(D) : E[n] = D[n] /\ n \in 1 .. Len(E)
      /\ \A n \in 1 .. Len(E) : n # Len(E) => n \in 1 .. Len(D)
    BY LongerIs
<1>6. Told(L, Q, E, a)
    <2>1. Len(E) \in Nat
        BY <1>5
    <2>2. Announces(D, E, k, EndOf(Q, k))
        BY <1>5, <2>1 DEF Announces
    <2> QED BY <1>1, <1>3, <2>2, ToldItem
<1>7. Owns(L, Q, a)
    BY <1>1, <1>3, OwnsSeen
<1>8. Answers(L, Q, V, E, a)
    <2>1. ~Refuses(D) /\ \A j \in a + 1 .. Len(P.ranges) : ~ByHand(L, D, j)
        BY <1>1, <1>4 DEF Answers
    <2>2. ~Refuses(E)
        BY <1>5, <2>1 DEF Refuses
    <2>3. \A j \in a + 1 .. Len(Q.ranges) : j # k => j \in a + 1 .. Len(P.ranges)
        <3>1. a \in Nat /\ Len(P.ranges) \in Nat
            BY <1>1, KnownItems
        <3> QED BY <1>3, <3>1
    <2>4. \A j \in a + 1 .. Len(Q.ranges) : ByHand(L, E, j) => j = k
        <3>1. Begins(D, E)
            BY <1>5 DEF Begins
        <3> QED BY <2>1, <2>3, <3>1, MoreByHand
    <2> QED BY <1>3, <1>4, <2>2, <2>4 DEF Answers, Refuses
<1> QED BY <1>1, <1>3, <1>4, <1>6, <1>7, <1>8 DEF Agree

\* Speech that stops makes an item.
LEMMA AgreeStopped ==
    ASSUME NEW L, NEW P, NEW D, NEW U, NEW C, NEW sent, NEW a, Agree(L, P, D, U, C, sent, a),
           NEW Q, NEW k, NEW end, Makes(P, Q, k, end),
           NEW m, m.type = "stopped", m.item = k, m.end = end,
           NEW n, n.type = "committed", n.item = k,
           NEW T \in Seq(Messages), Longer(D, T, m),
           NEW E \in Seq(Messages), Longer(T, E, n)
    PROVE  Agree(L, Q, E, U, C, sent, a)
<1>1. /\ Hears(P) /\ Owns(L, P, a) /\ Told(L, P, D, a) /\ Sends(L, P, U, sent)
      /\ Answers(L, P, U, D, a) /\ Owing(C, L, a)
    BY DEF Agree
<1>2. /\ Hears(Q) /\ Extends(P, Q) /\ Q.heard = P.heard
      /\ k = Len(P.ranges) + 1 /\ Len(Q.ranges) = k /\ k \in Turns /\ EndOf(Q, k) = end
    BY DEF Makes
<1>3. /\ Len(D) \in Nat /\ Len(T) = Len(D) + 1 /\ T[Len(T)] = m /\ Len(T) \in 1 .. Len(T)
      /\ \A i \in 1 .. Len(D) : T[i] = D[i] /\ i \in 1 .. Len(T)
      /\ \A i \in 1 .. Len(T) : i # Len(T) => i \in 1 .. Len(D)
    BY LongerIs
<1>4. /\ Len(E) = Len(T) + 1 /\ E[Len(E)] = n
      /\ \A i \in 1 .. Len(T) : E[i] = T[i] /\ i \in 1 .. Len(E)
      /\ \A i \in 1 .. Len(E) : i # Len(E) => i \in 1 .. Len(T)
    BY LongerIs
<1>5. Len(E) = Len(D) + 2 /\ Len(E) \in Nat /\ E[Len(D) + 1] = m /\ Len(D) + 1 \in 1 .. Len(E)
    <2>1. E[Len(T)] = m /\ Len(T) \in 1 .. Len(E)
        BY <1>3, <1>4
    <2>2. Len(E) = Len(D) + 2 /\ Len(E) \in Nat
        BY <1>3, <1>4
    <2> QED BY <1>3, <2>1, <2>2
<1>6. Begins(D, E)
    BY <1>3, <1>4 DEF Begins
<1>7. Told(L, Q, E, a)
    <2>1. Announces(D, E, k, EndOf(Q, k))
        BY <1>2, <1>3, <1>4, <1>5, <1>6 DEF Announces, Begins
    <2> QED BY <1>1, <1>2, <2>1, ToldItem
<1>8. Owns(L, Q, a)
    BY <1>1, <1>2, OwnsSeen
<1>9. Sends(L, Q, U, sent)
    BY <1>1, <1>2, SendsStay
<1>10. Answers(L, Q, U, E, a)
    <2>1. \A i \in 1 .. Len(E) : E[i].type = "commit empty" => i \in 1 .. Len(D)
        BY <1>3, <1>4
    <2>2. \A i, j \in 1 .. Len(D) :
              D[i].type = "commit empty" /\ D[j].type = "commit empty" => i = j
        BY <1>1 DEF Answers
    <2>3. /\ Refuses(E) => Refuses(D)
          /\ \A i, j \in 1 .. Len(E) :
                 E[i].type = "commit empty" /\ E[j].type = "commit empty" => i = j
        BY <1>6, <2>1, <2>2, MoreRefuse
    <2>4. ASSUME NEW j \in a + 1 .. Len(Q.ranges), ByHand(L, E, j)
          PROVE  j \in a + 1 .. Len(P.ranges) /\ ByHand(L, D, j) /\ EndOf(Q, j) = EndOf(P, j)
        <3>1. a \in Nat /\ Len(P.ranges) \in Nat
            BY <1>1, KnownItems
        <3>2. j # k
            BY <1>5, <2>4 DEF ByHand
        <3>3. j \in a + 1 .. Len(P.ranges)
            BY <1>2, <3>1, <3>2
        <3>4. ByHand(L, D, j)
            BY <1>6, <2>4, MoreByHand
        <3>5. EndOf(Q, j) = EndOf(P, j)
            <4>1. j \in 1 .. Len(P.ranges)
                BY <3>1, <3>3
            <4> QED BY <1>2, <4>1 DEF EndOf, Extends
        <3> QED BY <3>3, <3>4, <3>5
    <2>5. Settles(L, P, U, D, a, L, Q, U, E, a)
        BY <2>3, <2>4 DEF Settles
    <2> QED BY <1>1, <2>5, AnswersStay
<1> QED BY <1>1, <1>2, <1>7, <1>8, <1>9, <1>10 DEF Agree

-----------------------------------------------------------------------------
(* What the client and the loop do.                                        *)

\* A message that announces nothing is taken.
LEMMA AgreeTaken ==
    ASSUME NEW L, NEW P, NEW D, NEW U, NEW C, NEW sent, NEW a, Agree(L, P, D, U, C, sent, a),
           D # << >>, D[1].type \notin {"committed", "stopped"}, NEW E, E = Tail(D)
    PROVE  Agree(L, P, E, U, C, sent, a)
<1>1. /\ Hears(P) /\ Owns(L, P, a) /\ Told(L, P, D, a) /\ Sends(L, P, U, sent)
      /\ Answers(L, P, U, D, a) /\ Owing(C, L, a)
    BY DEF Agree
<1>2. E \in Seq(Messages) /\ Shorter(D, E)
    BY <1>1, TailIs DEF Told
<1>3. Told(L, P, E, a)
    BY <1>1, <1>2, ToldLess
<1>4. Answers(L, P, U, E, a)
    <2>1. \A m, n \in 1 .. Len(D) :
              D[m].type = "commit empty" /\ D[n].type = "commit empty" => m = n
        BY <1>1 DEF Answers
    <2>2. /\ Refuses(E) => Refuses(D)
          /\ \A m, n \in 1 .. Len(E) :
                 E[m].type = "commit empty" /\ E[n].type = "commit empty" => m = n
        BY <1>2, <2>1, FewerRefuse
    <2>3. \A k : ByHand(L, E, k) => ByHand(L, D, k)
        BY <1>2, FewerByHand
    <2>4. Settles(L, P, U, D, a, L, P, U, E, a)
        BY <2>2, <2>3 DEF Settles
    <2> QED BY <1>1, <2>4, AnswersStay
<1> QED BY <1>1, <1>3, <1>4 DEF Agree

\* The ledger changes in what these do not speak of.
Keeps(L, M) ==
    /\ M \in Ledgers /\ M.allocated = L.allocated /\ M.intents = L.intents
    /\ \A k \in Turns :
          /\ SameRange(L.items[k], M.items[k])
          /\ M.items[k].completion \in Transcripts => M.items[k].start # Unknown
          /\ ~M.items[k].acked => M.items[k].completion = "none"

LEMMA AgreeKept ==
    ASSUME NEW L, NEW P, NEW D, NEW U, NEW C, NEW sent, NEW a, Agree(L, P, D, U, C, sent, a),
           NEW M, Keeps(L, M),
           NEW B, C.owed \in Nat, B.owed \in Nat, B.owed <= C.owed
    PROVE  Agree(M, P, D, U, B, sent, a)
<1>1. /\ Hears(P) /\ Owns(L, P, a) /\ Told(L, P, D, a) /\ Sends(L, P, U, sent)
      /\ Answers(L, P, U, D, a) /\ Owing(C, L, a)
    BY DEF Agree
<1>2. /\ M \in Ledgers /\ M.allocated = L.allocated /\ M.intents = L.intents
      /\ \A k \in Turns : SameRange(L.items[k], M.items[k])
      /\ \A k \in Turns : /\ M.items[k].completion \in Transcripts => M.items[k].start # Unknown
                          /\ ~M.items[k].acked => M.items[k].completion = "none"
    BY DEF Keeps
<1>3. \A k \in Turns : M.items[k].vadEnd = L.items[k].vadEnd
    BY <1>2 DEF SameRange
<1>4. Told(M, P, D, a)
    BY <1>1, <1>3, ToldSame
<1>5. Sends(M, P, U, sent)
    BY <1>1, <1>2, SendsStay
<1>6. Owns(M, P, a)
    <2>1. Extends(P, P)
        BY <1>1, SameItems
    <2>2. M.intents # << >> => M.intents[1].start <= M.allocated
        BY <1>1, <1>2 DEF Owns
    <2> QED BY <1>1, <1>2, <2>1, <2>2, OwnsStays
<1>7. Answers(M, P, U, D, a)
    <2>1. a \in Nat /\ Len(P.ranges) \in Nat /\ \A k \in a + 1 .. Len(P.ranges) : k \in Turns
        BY <1>1, ToldSizes
    <2>2. \A k \in a + 1 .. Len(P.ranges) : ByHand(M, D, k) => ByHand(L, D, k)
        BY <1>3, <2>1 DEF ByHand
    <2>3. \A m, n \in 1 .. Len(D) :
              D[m].type = "commit empty" /\ D[n].type = "commit empty" => m = n
        BY <1>1 DEF Answers
    <2>4. Settles(L, P, U, D, a, M, P, U, D, a)
        BY <1>2, <2>2, <2>3 DEF Settles
    <2> QED BY <1>1, <2>4, AnswersStay
<1>8. Owing(B, M, a)
    <2>1. a \in Nat
        BY <1>1, KnownItems
    <2>2. PICK x \in Nat :
              x = a + IF a + 1 \in Turns /\ L.items[a + 1].vadEnd # Unknown THEN 1 ELSE 0
        BY <2>1
    <2>3. C.owed <= x
        BY <1>1, <2>2 DEF Owing
    <2>4. x = a + IF a + 1 \in Turns /\ M.items[a + 1].vadEnd # Unknown THEN 1 ELSE 0
        BY <1>3, <2>2
    <2>5. B.owed <= x
        BY <2>2, <2>3
    <2> QED BY <2>4, <2>5 DEF Owing
<1> QED BY <1>1, <1>4, <1>5, <1>6, <1>7, <1>8 DEF Agree

\* Ledger M is ledger L after the message of this type that comes first in D.
Takes(L, D, E, type, M) ==
    /\ D # << >> /\ D[1].type = type /\ E = Tail(D)
    /\ type = "stopped" => M = ObserveStopped(L, D[1].item, D[1].end)
    /\ type = "committed" => M = ObserveCommitted(L, D[1].item)
    /\ type = "commit empty" => M = reconcile_empty_commit(L)

\* Nothing was said, emitted or acknowledged.
SaysNothing(L, M) ==
    /\ samples(M) = samples(L)
    /\ \A k \in Turns : /\ M.items[k].emitted = L.items[k].emitted
                        /\ M.items[k].delivered = L.items[k].delivered
                        /\ M.items[k].completion = L.items[k].completion

\* The speech_stopped of the next item is taken.
LEMMA AgreeStopTaken ==
    ASSUME NEW L, NEW P, NEW D, NEW U, NEW C, NEW sent, NEW a, Agree(L, P, D, U, C, sent, a),
           NEW E, NEW M, Takes(L, D, E, "stopped", M), NEW B, C.owed \in Nat, B.owed = C.owed + 1
    PROVE  Agree(M, P, E, U, B, sent, a) /\ SaysNothing(L, M)
<1>1. /\ Hears(P) /\ Owns(L, P, a) /\ Told(L, P, D, a) /\ Sends(L, P, U, sent)
      /\ Answers(L, P, U, D, a) /\ Owing(C, L, a)
    BY DEF Agree
<1>2. D # << >> /\ D[1].type = "stopped" /\ E = Tail(D) /\ M = ObserveStopped(L, D[1].item, D[1].end)
    BY DEF Takes
<1>3. E \in Seq(Messages) /\ Shorter(D, E)
    BY <1>2, <1>1, TailIs DEF Told
<1>4. Len(D) # 0
    BY <1>3 DEF Shorter
<1>5. /\ D[1].item = a + 1 /\ a + 1 <= Len(P.ranges) /\ D[1].end = EndOf(P, a + 1)
      /\ L.items[a + 1].vadEnd = Unknown
    BY <1>2, <1>1, <1>4, FirstTold
<1>6. M = ObserveStopped(L, a + 1, EndOf(P, a + 1))
    BY <1>2, <1>5
<1>7. /\ Owns(M, P, a) /\ M.items[a + 1].vadEnd # Unknown
      /\ M.intents = L.intents /\ samples(M) = samples(L)
      /\ \A k \in Turns : k # a + 1 => M.items[k] = L.items[k]
      /\ \A k \in Turns : /\ M.items[k].emitted = L.items[k].emitted
                          /\ M.items[k].delivered = L.items[k].delivered
                          /\ M.items[k].completion = L.items[k].completion
    BY <1>1, <1>5, <1>6, OwnsStopped
<1>8. Told(M, P, E, a)
    <2>1. \A k \in Turns : M.items[k].vadEnd # L.items[k].vadEnd =>
                      D[1].type = "stopped" /\ k = a + 1
        BY <1>2, <1>7
    <2> QED BY <1>2, <1>1, <1>3, <2>1, ToldLess
<1>9. Sends(M, P, U, sent)
    BY <1>1, <1>7, SendsStay
<1>10. a \in Nat /\ Len(P.ranges) \in Nat /\ \A k \in a + 1 .. Len(P.ranges) : k \in Turns
    BY <1>1, ToldSizes
<1>11. Answers(M, P, U, E, a)
    <2>1. \A m, n \in 1 .. Len(D) :
              D[m].type = "commit empty" /\ D[n].type = "commit empty" => m = n
        BY <1>1 DEF Answers
    <2>2. /\ Refuses(E) => Refuses(D)
          /\ \A m, n \in 1 .. Len(E) :
                 E[m].type = "commit empty" /\ E[n].type = "commit empty" => m = n
        BY <1>3, <2>1, FewerRefuse
    <2>3. ASSUME NEW k \in a + 1 .. Len(P.ranges), ByHand(M, E, k) PROVE ByHand(L, D, k)
        <3>1. k # a + 1
            BY <1>7, <2>3 DEF ByHand
        <3>2. L.items[k].vadEnd = M.items[k].vadEnd
            BY <1>7, <1>10, <3>1
        <3>3. ~(D[1].type = "stopped" /\ D[1].item = k)
            BY <1>5, <3>1
        <3> QED BY <1>3, <2>3, <3>2, <3>3, FewerByHand
    <2>4. Settles(L, P, U, D, a, M, P, U, E, a)
        BY <1>7, <2>2, <2>3 DEF Settles
    <2> QED BY <1>1, <2>4, AnswersStay
<1>12. Owing(B, M, a)
    <2>1. a + 1 \in Turns
        BY <1>5, <1>10
    <2>2. C.owed <= a
        BY <1>1, <1>5, <1>10 DEF Owing
    <2>3. B.owed <= a + 1
        BY <1>10, <2>2
    <2> QED BY <1>7, <2>1, <2>3 DEF Owing
<1> QED BY <1>1, <1>7, <1>8, <1>9, <1>11, <1>12 DEF Agree, SaysNothing

\* The commit of the next item is taken.
LEMMA AgreeCommitTaken ==
    ASSUME NEW L, NEW P, NEW D, NEW U, NEW C, NEW sent, NEW a, Agree(L, P, D, U, C, sent, a),
           NEW E, NEW M, Takes(L, D, E, "committed", M), C.owed \in Nat
    PROVE  Agree(M, P, E, U, C, sent, a + 1) /\ SaysNothing(L, M)
<1>1. /\ Hears(P) /\ Owns(L, P, a) /\ Told(L, P, D, a) /\ Sends(L, P, U, sent)
      /\ Answers(L, P, U, D, a) /\ Owing(C, L, a)
    BY DEF Agree
<1>2. D # << >> /\ D[1].type = "committed" /\ E = Tail(D) /\ M = ObserveCommitted(L, D[1].item)
    BY DEF Takes
<1>3. E \in Seq(Messages) /\ Shorter(D, E)
    BY <1>2, <1>1, TailIs DEF Told
<1>4. Len(D) # 0 /\ Len(D) \in Nat
    BY <1>3 DEF Shorter
<1>5. PICK k : k = a + 1
    OBVIOUS
<1>6. D[1].item = k /\ k <= Len(P.ranges)
    BY <1>2, <1>1, <1>4, <1>5, FirstTold
<1>7. /\ a \in Nat /\ k \in Nat /\ Len(P.ranges) \in Nat /\ k \in a + 1 .. Len(P.ranges)
      /\ \A j \in a + 1 .. Len(P.ranges) : j \in Turns
      /\ 1 \in 1 .. Len(D)
    <2>1. a \in Nat /\ Len(P.ranges) \in Nat /\ \A j \in a + 1 .. Len(P.ranges) : j \in Turns
        BY <1>1, ToldSizes
    <2> QED BY <1>4, <1>5, <1>6, <2>1
<1>8. \A n \in 1 .. Len(D) : ~(D[n].type = "stopped" /\ D[n].item = k)
    <2> SUFFICES ASSUME NEW n \in 1 .. Len(D), D[n].type = "stopped", D[n].item = k PROVE FALSE
        OBVIOUS
    <2>1. PICK i \in 1 .. Len(D) : Follows(D, n, i)
        BY <1>1, ToldIs
    <2>2. n < i /\ D[i].type = "committed" /\ D[i].item = D[1].item
        BY <1>6, <2>1 DEF Follows
    <2>3. i = 1
        BY <1>1, <1>2, <1>7, <2>2, CommitsInOrder
    <2> QED BY <1>4, <2>2, <2>3
<1>9. L.items[k].vadEnd = Unknown =>
          /\ L.intents # << >> /\ L.intents[1].end = EndOf(P, k) /\ ~Asks(U) /\ ~Refuses(D)
          /\ \A j \in a + 1 .. Len(P.ranges) : ByHand(L, D, j) => j = k
    <2>1. L.items[k].vadEnd = Unknown => ByHand(L, D, k)
        BY <1>8 DEF ByHand
    <2> QED BY <1>1, <1>7, <2>1 DEF Answers
<1>10. M = ObserveCommitted(L, k)
    BY <1>2, <1>6
<1>11. /\ Owns(M, P, k) /\ samples(M) = samples(L)
       /\ M.intents = IF L.items[k].vadEnd = Unknown THEN << >> ELSE L.intents
       /\ \A j \in Turns : /\ M.items[j].vadEnd = L.items[j].vadEnd
                           /\ M.items[j].completion = L.items[j].completion
                           /\ M.items[j].emitted = L.items[j].emitted
                           /\ M.items[j].delivered = L.items[j].delivered
    <2>1. L.items[k].vadEnd = Unknown => L.intents # << >> /\ L.intents[1].end = EndOf(P, k)
        BY <1>9
    <2>2. Acks(L, P, k, M)
        BY <1>1, <1>5, <1>6, <1>10, <2>1, OwnsCommitted
    <2> QED BY <2>2 DEF Acks
<1>12. Told(M, P, E, k)
    <2>1. Hears(P) /\ Owns(L, P, a) /\ Told(L, P, D, a)
        BY <1>1
    <2>2. \A j \in Turns : M.items[j].vadEnd = L.items[j].vadEnd
        BY <1>11
    <2>3. E \in Seq(Messages) /\ Shorter(D, E) /\ D[1].type = "committed"
        BY <1>2, <1>3
    <2> QED BY <1>5, <2>1, <2>2, <2>3, ToldCommit
<1>13. Sends(M, P, U, sent)
    <2>1. CASE L.items[k].vadEnd = Unknown
        <3>1. ~Asks(U)
            BY <1>9, <2>1
        <3> QED BY <1>1, <3>1, SendsIdle
    <2>2. CASE L.items[k].vadEnd # Unknown
        <3>1. M.intents = L.intents
            BY <1>11, <2>2
        <3> QED BY <1>1, <3>1, SendsStay
    <2> QED BY <2>1, <2>2
<1>14. \A m, n \in 1 .. Len(D) :
           D[m].type = "commit empty" /\ D[n].type = "commit empty" => m = n
    BY <1>1 DEF Answers
<1>15. /\ Refuses(E) => Refuses(D)
       /\ \A m, n \in 1 .. Len(E) :
              E[m].type = "commit empty" /\ E[n].type = "commit empty" => m = n
    BY <1>3, <1>14, FewerRefuse
<1>16. ASSUME NEW j \in k + 1 .. Len(P.ranges), ByHand(M, E, j)
       PROVE  j \in a + 1 .. Len(P.ranges) /\ j # k /\ ByHand(L, D, j)
    <2>1. j \in a + 1 .. Len(P.ranges) /\ j # k
        BY <1>5, <1>7
    <2>2. L.items[j].vadEnd = M.items[j].vadEnd
        BY <1>7, <1>11, <2>1
    <2> QED BY <1>2, <1>3, <1>16, <2>1, <2>2, FewerByHand
<1>17. Answers(M, P, U, E, k)
    <2>1. CASE L.items[k].vadEnd = Unknown
        <3>1. ~Refuses(E)
            BY <1>9, <1>15, <2>1
        <3>2. \A j \in k + 1 .. Len(P.ranges) : ~ByHand(M, E, j)
            BY <1>9, <1>16, <2>1
        <3> QED BY <3>1, <3>2, AnswersNone
    <2>2. CASE L.items[k].vadEnd # Unknown
        <3>1. M.intents = L.intents
            BY <1>11, <2>2
        <3>2. Settles(L, P, U, D, a, M, P, U, E, k)
            BY <1>15, <1>16, <3>1 DEF Settles
        <3> QED BY <1>1, <3>2, AnswersStay
    <2> QED BY <2>1, <2>2
<1>18. Owing(C, M, k)
    <2>1. C.owed <= k
        BY <1>1, <1>5, <1>7 DEF Owing
    <2> QED BY <1>7, <2>1 DEF Owing
<1>19. Agree(M, P, E, U, C, sent, k)
    BY <1>1, <1>11, <1>12, <1>13, <1>17, <1>18 DEF Agree
<1> QED BY <1>5, <1>11, <1>19 DEF SaysNothing

\* Only the intents change, and the one there is begins where the ledger ends.
LEMMA OwnsAsked ==
    ASSUME NEW L, NEW P, Hears(P), NEW a, Owns(L, P, a), NEW M \in Ledgers,
           M.allocated = L.allocated, M.items = L.items,
           M.intents # << >> => M.intents[1].start = M.allocated
    PROVE  Owns(M, P, a)
<1>1. Extends(P, P)
    BY SameItems
<1>2. \A k \in Turns : SameRange(L.items[k], M.items[k])
    BY DEF SameRange
<1>3. \A k \in Turns : OwnsItem(L.items[k], P, k, a, L.allocated)
    BY DEF Owns
<1>4. \A k \in Turns : /\ M.items[k].completion \in Transcripts => M.items[k].start # Unknown
                       /\ ~M.items[k].acked => M.items[k].completion = "none"
    BY <1>3 DEF OwnsItem
<1>5. M.allocated \in Nat
    BY LedgerFields
<1>6. M.intents # << >> => M.intents[1].start <= M.allocated
    BY <1>5
<1> QED BY <1>1, <1>2, <1>4, <1>6, OwnsStays

\* The error of a commit that was not needed is taken.
LEMMA AgreeReconciled ==
    ASSUME NEW L, NEW P, NEW D, NEW U, NEW C, NEW sent, NEW a, Agree(L, P, D, U, C, sent, a),
           NEW E, NEW M, Takes(L, D, E, "commit empty", M)
    PROVE  Agree(M, P, E, U, C, sent, a) /\ SaysNothing(L, M)
<1>1. /\ Hears(P) /\ Owns(L, P, a) /\ Told(L, P, D, a) /\ Sends(L, P, U, sent)
      /\ Answers(L, P, U, D, a) /\ Owing(C, L, a)
    BY DEF Agree
<1>2. D # << >> /\ D[1].type = "commit empty" /\ E = Tail(D) /\ M = reconcile_empty_commit(L)
    BY DEF Takes
<1>3. E \in Seq(Messages) /\ Shorter(D, E)
    BY <1>2, <1>1, TailIs DEF Told
<1>4. /\ M \in Ledgers /\ M.allocated = L.allocated /\ M.items = L.items
      /\ samples(M) = samples(L) /\ M.intents = << >>
    <2>1. L \in Ledgers
        BY <1>1 DEF Owns
    <2> QED BY <1>2, <2>1, IntentDropped
<1>5. Owns(M, P, a)
    BY <1>1, <1>4, OwnsAsked
<1>6. Told(M, P, E, a)
    BY <1>2, <1>1, <1>3, <1>4, ToldLess
<1>7. \A m, n \in 1 .. Len(D) :
          D[m].type = "commit empty" /\ D[n].type = "commit empty" => m = n
    BY <1>1 DEF Answers
<1>8. Refuses(D) /\ ~Refuses(E)
    BY <1>2, <1>3, <1>7, FewerRefuse
<1>9. ~Asks(U) /\ \A k \in a + 1 .. Len(P.ranges) : ~ByHand(L, D, k)
    BY <1>1, <1>8 DEF Answers
<1>10. Sends(M, P, U, sent)
    BY <1>1, <1>9, SendsIdle
<1>11. \A k \in a + 1 .. Len(P.ranges) : ~ByHand(M, E, k)
    <2>1. \A k : ByHand(M, E, k) => ByHand(L, D, k)
        BY <1>2, <1>3, <1>4, FewerByHand
    <2> QED BY <1>9, <2>1
<1>12. Answers(M, P, U, E, a)
    BY <1>8, <1>11, AnswersNone
<1>13. Owing(C, M, a)
    BY <1>1, <1>4 DEF Owing
<1> QED BY <1>1, <1>4, <1>5, <1>6, <1>10, <1>12, <1>13 DEF Agree, SaysNothing

\* A frame is sent.
LEMMA AgreeSent ==
    ASSUME NEW L, NEW P, NEW D, NEW U, NEW C, NEW sent, NEW a, Agree(L, P, D, U, C, sent, a),
           NEW m \in Requests, m.type = "append", NEW V \in Seq(Requests), Longer(U, V, m)
    PROVE  Agree(L, P, D, V, C, sent + 1, a)
<1>1. /\ Hears(P) /\ Owns(L, P, a) /\ Told(L, P, D, a) /\ Sends(L, P, U, sent)
      /\ Answers(L, P, U, D, a) /\ Owing(C, L, a)
    BY DEF Agree
<1>2. P.heard \in Nat
    BY <1>1, ProviderFields
<1>3. Sends(L, P, V, sent + 1) /\ (Asks(V) => Asks(U))
    BY <1>1, <1>2, SendsFrame
<1>4. Answers(L, P, V, D, a)
    <2>1. \A i, n \in 1 .. Len(D) :
              D[i].type = "commit empty" /\ D[n].type = "commit empty" => i = n
        BY <1>1 DEF Answers
    <2>2. Settles(L, P, U, D, a, L, P, V, D, a)
        BY <1>3, <2>1 DEF Settles
    <2> QED BY <1>1, <2>2, AnswersStay
<1> QED BY <1>1, <1>3, <1>4 DEF Agree

\* A commit is asked for.
LEMMA AgreeRequested ==
    ASSUME NEW L, NEW P, NEW D, NEW U, NEW C, NEW sent, NEW a, Agree(L, P, D, U, C, sent, a),
           L.intents = << >>, sent = samples(L), NEW M, M = request(L),
           NEW m \in Requests, m.type = "commit", NEW V \in Seq(Requests), Longer(U, V, m)
    PROVE  Agree(M, P, D, V, C, sent, a) /\ SaysNothing(L, M)
<1>1. /\ Hears(P) /\ Owns(L, P, a) /\ Told(L, P, D, a) /\ Sends(L, P, U, sent)
      /\ Answers(L, P, U, D, a) /\ Owing(C, L, a)
    BY DEF Agree
<1>2. /\ M \in Ledgers /\ M.allocated = L.allocated /\ M.items = L.items
      /\ samples(M) = samples(L)
      /\ M.intents # << >> /\ M.intents[1].start = L.allocated
      /\ M.intents[1].end = samples(L)
    <2>1. L \in Ledgers
        BY <1>1 DEF Owns
    <2> QED BY <2>1, CommitRequested
<1>3. /\ ~Refuses(D) /\ ~Asks(U)
      /\ \A k \in a + 1 .. Len(P.ranges) : ~ByHand(L, D, k)
    BY <1>1 DEF Answers, Sends, Asks
<1>4. Sends(M, P, V, sent)
    <2>1. P.heard \in Nat
        BY <1>1, ProviderFields
    <2> QED BY <1>1, <1>2, <1>3, <2>1, SendsCommit
<1>5. Owns(M, P, a)
    BY <1>1, <1>2, OwnsAsked
<1>6. Told(M, P, D, a)
    BY <1>1, <1>2, ToldSame
<1>7. Answers(M, P, V, D, a)
    <2>1. \A k \in a + 1 .. Len(P.ranges) : ~ByHand(M, D, k)
        BY <1>2, <1>3 DEF ByHand
    <2> QED BY <1>3, <2>1, AnswersNone
<1>8. Owing(C, M, a)
    BY <1>1, <1>2 DEF Owing
<1> QED BY <1>1, <1>2, <1>4, <1>5, <1>6, <1>7, <1>8 DEF Agree, SaysNothing

-----------------------------------------------------------------------------
(* The steps of the provider.                                              *)

LEMMA MadeIs ==
    ASSUME NEW P, Hears(P), Len(P.ranges) < MaxTurns, NEW end \in P.from + 1 .. P.heard,
           NEW k, k = Len(P.ranges) + 1,
           NEW Q, Q = Made(P, end) \/ Q = [Made(P, end) EXCEPT !.stopped = 0]
    PROVE  Makes(P, Q, k, end) /\ Q.speaking = P.speaking
<1>1. /\ P \in Providers /\ P.heard \in Nat /\ P.from \in Nat
      /\ P.ranges \in Seq(Ranges) /\ P.owing \in SUBSET Turns
      /\ Len(P.ranges) \in Nat /\ MaxTurns \in Nat
    BY ProviderFields DEF Hears
<1>2. end \in Nat /\ k \in Turns
    BY <1>1 DEF Turns
<1>3. PICK x : x = [start |-> P.from, end |-> end]
    OBVIOUS
<1>4. x \in Ranges
    BY <1>1, <1>2, <1>3 DEF Ranges
<1>5. PICK rs : rs = Append(P.ranges, x)
    OBVIOUS
<1>6. rs \in Seq(Ranges)
    BY <1>1, <1>4, <1>5, AppendProperties
<1>7. PICK o : o = P.owing \cup {k}
    OBVIOUS
<1>8. o \in SUBSET Turns
    BY <1>1, <1>2, <1>7
<1>9. PICK R : R = [P EXCEPT !.ranges = rs, !.from = end, !.owing = o]
    OBVIOUS
<1>10. R = Made(P, end)
    BY <1>3, <1>5, <1>7, <1>9 DEF Made
<1>11. /\ R \in Providers /\ R.heard = P.heard /\ R.from = end /\ R.ranges = rs /\ R.owing = o
       /\ R.speaking = P.speaking
    BY <1>1, <1>2, <1>6, <1>8, <1>9 DEF Providers
<1>12. /\ Q \in Providers /\ Q.heard = P.heard /\ Q.from = end /\ Q.ranges = rs /\ Q.owing = o
       /\ Q.speaking = P.speaking
    BY <1>10, <1>11 DEF Providers
<1>13. /\ Q.ranges = Append(P.ranges, [start |-> P.from, end |-> end])
       /\ Q.owing = P.owing \cup {Len(P.ranges) + 1}
    BY <1>3, <1>5, <1>7, <1>12
<1>14. /\ Hears(Q) /\ Extends(P, Q) /\ Len(Q.ranges) = Len(P.ranges) + 1
       /\ EndOf(Q, Len(P.ranges) + 1) = end /\ Len(P.ranges) + 1 \in Turns
    BY <1>12, <1>13, ItemMade
<1> QED BY <1>12, <1>14 DEF Makes

\* The provider as it is once what it announced is made.
LEMMA SaidIs ==
    ASSUME NEW P, Hears(P), Promises(P)
    PROVE  /\ P.stopped = 0 => Said(P) = P
           /\ P.stopped # 0 => Makes(P, Said(P), Len(P.ranges) + 1, P.stopped)
           /\ Hears(Said(P)) /\ Said(P).heard = P.heard /\ Extends(P, Said(P))
<1>1. CASE P.stopped = 0
    <2>1. Said(P) = P
        BY <1>1 DEF Said
    <2> QED BY <1>1, <2>1, SameItems
<1>2. CASE P.stopped # 0
    <2>1. P.stopped \in Nat /\ P.from \in Nat /\ P.heard \in Nat
        BY ProviderFields DEF Hears, Providers
    <2>2. Len(P.ranges) < MaxTurns /\ P.stopped \in P.from + 1 .. P.heard
        BY <1>2, <2>1 DEF Promises
    <2>3. Said(P) = [Made(P, P.stopped) EXCEPT !.stopped = 0]
        BY <1>2 DEF Said
    <2>4. Makes(P, Said(P), Len(P.ranges) + 1, P.stopped)
        BY <2>2, <2>3, MadeIs
    <2> QED BY <1>2, <2>4 DEF Makes
<1> QED BY <1>1, <1>2

\* A provider that has the same items and announced the same.
LEMMA SaidSame ==
    ASSUME NEW P \in Providers, NEW Q \in Providers, Q.stopped = P.stopped,
           Q.ranges = P.ranges, Q.from = P.from
    PROVE  /\ Said(Q).ranges = Said(P).ranges /\ Said(Q).from = Said(P).from
           /\ Q.owing = P.owing => Said(Q).owing = Said(P).owing
           /\ Said(Q).heard = Q.heard /\ Said(P).heard = P.heard
<1>1. CASE P.stopped = 0
    BY <1>1 DEF Said
<1>2. CASE P.stopped # 0
    <2>1. /\ Said(P) = [Made(P, P.stopped) EXCEPT !.stopped = 0]
          /\ Said(Q) = [Made(Q, P.stopped) EXCEPT !.stopped = 0]
        BY <1>2 DEF Said
    <2>2. PICK rs, e, o, u : /\ rs = Append(P.ranges, [start |-> P.from, end |-> P.stopped])
                             /\ e = P.stopped
                             /\ o = P.owing \cup {Len(P.ranges) + 1}
                             /\ u = Q.owing \cup {Len(P.ranges) + 1}
        OBVIOUS
    <2>3. /\ Said(P) = [[P EXCEPT !.ranges = rs, !.from = e, !.owing = o] EXCEPT !.stopped = 0]
          /\ Said(Q) = [[Q EXCEPT !.ranges = rs, !.from = e, !.owing = u] EXCEPT !.stopped = 0]
        BY <2>1, <2>2 DEF Made
    <2>4. /\ Said(P).ranges = rs /\ Said(P).from = e /\ Said(P).owing = o /\ Said(P).heard = P.heard
          /\ Said(Q).ranges = rs /\ Said(Q).from = e /\ Said(Q).owing = u /\ Said(Q).heard = Q.heard
        BY <2>3 DEF Providers
    <2> QED BY <2>2, <2>4
<1> QED BY <1>1, <1>2

LEMMA CommitMessage ==
    ASSUME NEW k \in Turns, NEW m, m = [type |-> "committed", item |-> k]
    PROVE  m \in Messages /\ m.type = "committed" /\ m.item = k
BY DEF Messages

\* The messages as they are once what the provider announced is made.
LEMMA DueIs ==
    ASSUME NEW P, Hears(P), Promises(P), NEW D \in Seq(Messages)
    PROVE  /\ Due(P, D) \in Seq(Messages)
           /\ P.stopped = 0 => Due(P, D) = D
           /\ P.stopped # 0 => \E m \in Messages : /\ Longer(D, Due(P, D), m)
                                                   /\ m.type = "committed"
                                                   /\ m.item = Len(P.ranges) + 1
<1>1. CASE P.stopped = 0
    BY <1>1 DEF Due
<1>2. CASE P.stopped # 0
    <2>1. PICK m, k : k = Len(P.ranges) + 1 /\ m = [type |-> "committed", item |-> k]
        OBVIOUS
    <2>2. k \in Turns
        BY <1>2, <2>1, SaidIs DEF Makes
    <2>3. m \in Messages /\ m.type = "committed" /\ m.item = k
        BY <2>1, <2>2, CommitMessage
    <2>4. Due(P, D) = D \o <<m>>
        BY <1>2, <2>1 DEF Due
    <2>5. Due(P, D) \in Seq(Messages) /\ Longer(D, Due(P, D), m)
        BY <2>3, <2>4, OneMore
    <2> QED BY <1>2, <2>1, <2>3, <2>5
<1> QED BY <1>1, <1>2

\* A message comes before the commit that is still due.
LEMMA DueMore ==
    ASSUME NEW P, Hears(P), Promises(P), NEW D \in Seq(Messages), NEW m \in Messages,
           NEW E, E = D \o <<m>>, NEW Q, Q.stopped = P.stopped, Q.ranges = P.ranges,
           m.type = "completed" => m.item \in 1 .. Len(P.ranges)
    PROVE  /\ E \in Seq(Messages)
           /\ \E p : /\ Inserted(Due(P, D), Due(Q, E), p, m)
                     /\ Due(Q, E) \in Seq(Messages)
                     /\ m.type = "completed" =>
                            \A n \in p .. Len(Due(P, D)) :
                                ~(Due(P, D)[n].type = "committed" /\ Due(P, D)[n].item = m.item)
<1>1. E \in Seq(Messages) /\ Longer(D, E, m)
    BY OneMore
<1>2. CASE P.stopped = 0
    <2>1. Due(P, D) = D /\ Due(Q, E) = E
        BY <1>2 DEF Due
    <2>2. Inserted(D, E, Len(E), m) /\ Len(E) .. Len(D) = {}
        BY <1>1, PutLast
    <2> QED BY <1>1, <2>1, <2>2
<1>3. CASE P.stopped # 0
    <2>1. PICK c, k : k = Len(P.ranges) + 1 /\ c = [type |-> "committed", item |-> k]
        OBVIOUS
    <2>2. k \in Turns /\ Len(P.ranges) \in Nat
        BY <1>3, <2>1, SaidIs, ProviderFields DEF Makes
    <2>3. c \in Messages /\ c.type = "committed" /\ c.item = k
        BY <2>1, <2>2, CommitMessage
    <2>4. PICK V, W : V = D \o <<c>> /\ W = E \o <<c>>
        OBVIOUS
    <2>5. Due(P, D) = V /\ Due(Q, E) = W
        BY <1>3, <2>1, <2>4 DEF Due
    <2>6. Longer(D, V, c) /\ Longer(E, W, c) /\ W \in Seq(Messages)
        BY <1>1, <2>3, <2>4, OneMore
    <2>7. /\ Len(D) \in Nat /\ Len(E) = Len(D) + 1 /\ Len(V) = Len(D) + 1 /\ Len(W) = Len(D) + 2
          /\ E[Len(D) + 1] = m /\ V[Len(D) + 1] = c /\ W[Len(D) + 2] = c
          /\ \A n \in 1 .. Len(D) : E[n] = D[n] /\ V[n] = D[n]
          /\ \A n \in 1 .. Len(D) + 1 : W[n] = E[n]
        <3>1. Len(D) \in Nat /\ Len(E) = Len(D) + 1 /\ E[Len(D) + 1] = m
              /\ \A n \in 1 .. Len(D) : E[n] = D[n]
            BY <1>1 DEF Longer
        <3>2. Len(V) = Len(D) + 1 /\ V[Len(D) + 1] = c /\ \A n \in 1 .. Len(D) : V[n] = D[n]
            BY <2>6 DEF Longer
        <3>3. Len(W) = Len(E) + 1 /\ W[Len(E) + 1] = c /\ \A n \in 1 .. Len(E) : W[n] = E[n]
            BY <2>6 DEF Longer
        <3>4. Len(E) + 1 = Len(D) + 2
            BY <3>1
        <3> QED BY <3>1, <3>2, <3>3, <3>4
    <2>8. PICK p : p = Len(D) + 1
        OBVIOUS
    <2>9. ASSUME NEW n \in 1 .. Len(V) PROVE W[To(p, n)] = V[n]
        <3>1. CASE n = p
            <4>1. To(p, n) = Len(D) + 2
                BY <2>7, <2>8, <3>1 DEF To
            <4> QED BY <2>7, <2>8, <3>1, <4>1
        <3>2. CASE n # p
            <4>1. n \in 1 .. Len(D) /\ n \in 1 .. Len(D) + 1 /\ To(p, n) = n
                BY <2>7, <2>8, <3>2 DEF To
            <4>2. W[n] = E[n] /\ E[n] = D[n] /\ V[n] = D[n]
                BY <2>7, <4>1
            <4> QED BY <4>1, <4>2
        <3> QED BY <3>1, <3>2
    <2>10. /\ Len(V) \in Nat /\ Len(W) = Len(V) + 1 /\ p \in 1 .. Len(W) /\ W[p] = m
           /\ p .. Len(V) = {p}
        <3>1. p \in 1 .. Len(D) + 1
            BY <2>7, <2>8
        <3>2. W[p] = m
            BY <2>7, <2>8, <3>1
        <3> QED BY <2>7, <2>8, <3>2
    <2>11. Inserted(V, W, p, m)
        BY <2>9, <2>10 DEF Inserted
    <2>12. m.type = "completed" =>
               \A n \in p .. Len(V) : ~(V[n].type = "committed" /\ V[n].item = m.item)
        <3> SUFFICES ASSUME m.type = "completed" PROVE V[p].item # m.item
            BY <2>10
        <3>1. V[p].item = k
            BY <2>3, <2>7, <2>8
        <3> QED BY <2>1, <2>2, <3>1
    <2> QED BY <1>1, <2>5, <2>6, <2>11, <2>12
<1> QED BY <1>2, <1>3

\* The first of the messages is read before the commit that is still due.
LEMMA DueTail ==
    ASSUME NEW P, Hears(P), Promises(P), NEW D \in Seq(Messages), D # << >>
    PROVE  /\ Due(P, D) # << >> /\ Head(D) = Due(P, D)[1] /\ Due(P, D)[1] \in Messages
           /\ Tail(D) \in Seq(Messages) /\ Due(P, Tail(D)) = Tail(Due(P, D))
<1>1. /\ Head(D) = D[1] /\ D[1] \in Messages
      /\ Tail(D) \in Seq(Messages) /\ Shorter(D, Tail(D))
    BY TailIs
<1>2. CASE P.stopped = 0
    BY <1>1, <1>2 DEF Due
<1>3. CASE P.stopped # 0
    <2>1. PICK c, k : k = Len(P.ranges) + 1 /\ c = [type |-> "committed", item |-> k]
        OBVIOUS
    <2>2. k \in Turns
        BY <1>3, <2>1, SaidIs DEF Makes
    <2>3. c \in Messages
        BY <2>1, <2>2, CommitMessage
    <2>4. PICK E, V, W : E = Tail(D) /\ V = D \o <<c>> /\ W = E \o <<c>>
        OBVIOUS
    <2>5. Due(P, D) = V /\ Due(P, E) = W
        BY <1>3, <2>1, <2>4 DEF Due
    <2>6. /\ V \in Seq(Messages) /\ Longer(D, V, c)
          /\ W \in Seq(Messages) /\ Longer(E, W, c) /\ Shorter(D, E)
        BY <1>1, <2>3, <2>4, OneMore
    <2>7. /\ Len(D) \in Nat /\ Len(D) # 0 /\ Len(E) = Len(D) - 1
          /\ Len(V) = Len(D) + 1 /\ Len(W) = Len(D)
          /\ V[Len(D) + 1] = c /\ W[Len(D)] = c
          /\ \A n \in 1 .. Len(E) : E[n] = D[n + 1] /\ W[n] = E[n]
          /\ \A n \in 1 .. Len(D) : V[n] = D[n]
        <3>1. Len(D) \in Nat /\ Len(D) # 0 /\ Len(E) = Len(D) - 1
              /\ \A n \in 1 .. Len(E) : E[n] = D[n + 1]
            BY <2>6 DEF Shorter
        <3>2. Len(V) = Len(D) + 1 /\ V[Len(D) + 1] = c /\ \A n \in 1 .. Len(D) : V[n] = D[n]
            BY <2>6 DEF Longer
        <3>3. Len(W) = Len(E) + 1 /\ W[Len(E) + 1] = c /\ \A n \in 1 .. Len(E) : W[n] = E[n]
            BY <2>6 DEF Longer
        <3>4. Len(E) + 1 = Len(D)
            BY <3>1
        <3> QED BY <3>1, <3>2, <3>3, <3>4
    <2>8. V # << >>
        <3>1. Len(V) # 0
            BY <2>7
        <3> QED BY <3>1
    <2>9. /\ V[1] \in Messages /\ Tail(V) \in Seq(Messages) /\ Shorter(V, Tail(V))
        BY <2>6, <2>8, TailIs
    <2>10. PICK T : T = Tail(V)
        OBVIOUS
    <2>11. T \in Seq(Messages) /\ Len(T) = Len(D) /\ \A n \in 1 .. Len(T) : T[n] = V[n + 1]
        BY <2>7, <2>9, <2>10 DEF Shorter
    <2>12. ASSUME NEW n \in 1 .. Len(T) PROVE T[n] = W[n]
        <3>1. CASE n = Len(D)
            BY <2>7, <2>11, <3>1
        <3>2. CASE n # Len(D)
            <4>1. n \in 1 .. Len(E) /\ n + 1 \in 1 .. Len(D)
                BY <2>7, <2>11, <3>2
            <4>2. T[n] = V[n + 1] /\ V[n + 1] = D[n + 1] /\ E[n] = D[n + 1] /\ W[n] = E[n]
                BY <2>7, <2>11, <4>1
            <4> QED BY <4>2
        <3> QED BY <3>1, <3>2
    <2>13. T = W
        BY <2>6, <2>7, <2>11, <2>12, SeqEqual
    <2>14. V[1] = D[1]
        <3>1. 1 \in 1 .. Len(D)
            BY <2>7
        <3> QED BY <2>7, <3>1
    <2> QED BY <1>1, <2>4, <2>5, <2>8, <2>9, <2>10, <2>13, <2>14
<1> QED BY <1>2, <1>3

\* The provider only changes what it agrees on with the ledger.
LEMMA ProviderSteps ==
    ASSUME Live, Provider
    PROVE  Live'
<1>1. PICK a \in Nat : At(a)
    BY DEF Live
<1>2. PICK sent, P, W : /\ sent = Sent(turns, loop.at)
                        /\ P = Said(provider) /\ W = Due(provider, down)
    OBVIOUS
<1>3. ASSUME UNCHANGED <<mode, turns, client, events, loop, meeting>>,
             NEW Q, Q = provider', NEW V, V = up', NEW E, E = down',
             Hears(Q), Promises(Q), E \in Seq(Messages),
             Agree(turns, Said(Q), Due(Q, E), V, client, sent, a)
      PROVE  Live'
    <2>1. At(a)'
        BY <1>2, <1>3 DEF At
    <2>2. Values' /\ Out(turns, events)' /\ Heard(turns, meeting.finals)'
        BY <1>3 DEF Live, Values
    <2>3. Hears(provider') /\ Promises(provider') /\ down' \in Seq(Messages)
        BY <1>3
    <2> QED BY <2>1, <2>2, <2>3 DEF Live
<1>4. /\ Agree(turns, P, W, up, client, sent, a)
      /\ Sends(turns, P, up, sent) /\ up \in Seq(Requests)
    BY <1>1, <1>2 DEF At, Agree, Sends
<1>5. Hears(provider) /\ Promises(provider) /\ down \in Seq(Messages)
    BY DEF Live
<1>6. up # << >> => Head(up) = up[1] /\ up[1] \in Requests
    BY <1>4, TailIs
<1>7. /\ provider \in Providers /\ provider.heard \in Nat /\ provider.from \in Nat
      /\ provider.from <= provider.heard /\ Len(provider.ranges) \in Nat
      /\ provider.owing \in SUBSET Turns /\ provider.stopped \in Nat
      /\ \A k \in 1 .. Len(provider.ranges) : k \in Turns
    BY <1>5, ProviderFields DEF Hears, Providers
<1>8. /\ provider.stopped = 0 => P = provider /\ W = down
      /\ P.heard = provider.heard
    BY <1>2, <1>5, SaidIs, DueIs
<1>9. PICK Q, V, E : Q = provider' /\ V = up' /\ E = down'
    OBVIOUS
<1>10. ASSUME Q \in Providers, Q.stopped = 0
       PROVE  Promises(Q) /\ Said(Q) = Q /\ Due(Q, E) = E
    BY <1>10 DEF Promises, Said, Due
<1>11. ASSUME NEW m \in Messages, E = down \o <<m>>
       PROVE  E \in Seq(Messages) /\ Longer(down, E, m)
    BY <1>5, <1>11, OneMore
<1>12. CASE HearFrame
    <2>1. up # << >> /\ up[1].type # "commit" /\ V = Tail(up)
          /\ Q = [provider EXCEPT !.heard = @ + 1] /\ E = down
          /\ UNCHANGED <<mode, turns, client, events, loop, meeting>>
        BY <1>6, <1>9, <1>12 DEF HearFrame
    <2>2. PICK h : h = provider.heard + 1
        OBVIOUS
    <2>3. /\ Q \in Providers /\ Q.heard = h /\ Q.from = provider.from /\ Q.ranges = provider.ranges
          /\ Q.owing = provider.owing /\ Q.stopped = provider.stopped
          /\ Q.speaking = provider.speaking
        <3>1. h \in Nat /\ Q = [provider EXCEPT !.heard = h]
            BY <1>7, <2>1, <2>2
        <3> QED BY <1>7, <3>1 DEF Providers
    <2>4. Hears(Q)
        BY <1>5, <2>2, <2>3, FrameReaches
    <2>5. Promises(Q)
        BY <1>5, <1>7, <2>2, <2>3 DEF Promises
    <2>6. /\ Said(Q).ranges = P.ranges /\ Said(Q).from = P.from /\ Said(Q).owing = P.owing
          /\ Said(Q).heard = P.heard + 1
        BY <1>2, <1>7, <2>2, <2>3, SaidSame
    <2>7. Said(Q) \in Providers
        BY <2>4, <2>5, SaidIs DEF Hears
    <2>8. Due(Q, E) = W
        BY <1>2, <2>1, <2>3 DEF Due
    <2>9. Agree(turns, Said(Q), W, V, client, sent, a)
        BY <1>4, <2>1, <2>6, <2>7, AgreeFrameHeard
    <2> QED BY <1>3, <1>5, <1>9, <2>1, <2>4, <2>5, <2>8, <2>9
<1>13. CASE HearCommit
    <2>1. up # << >> /\ up[1].type = "commit" /\ up[1].id \in Nat
        <3>1. up # << >> /\ up[1].type = "commit"
            BY <1>6, <1>13 DEF HearCommit
        <3> QED BY <1>6, <3>1 DEF Requests
    <2>2. /\ V = Tail(up) /\ provider.stopped = 0 /\ P = provider /\ W = down
          /\ UNCHANGED <<mode, turns, client, events, loop, meeting>>
        BY <1>8, <1>9, <1>13 DEF HearCommit
    <2>3. CASE provider.heard = provider.from
        <3>1. PICK id \in {up[1].id, Unknown} : down' = down \o <<[type |-> "commit empty", id |-> id]>>
            BY <1>6, <1>13, <2>1, <2>3 DEF HearCommit, Say
        <3>2. PICK m : m = [type |-> "commit empty", id |-> id]
            OBVIOUS
        <3>3. m \in Messages /\ m.type = "commit empty"
            <4>1. id \in Int
                BY <2>1 DEF Unknown
            <4> QED BY <3>2, <4>1 DEF Messages
        <3>4. E \in Seq(Messages) /\ Longer(down, E, m)
            BY <1>9, <1>11, <3>1, <3>2, <3>3
        <3>5. Agree(turns, provider, E, V, client, sent, a)
            BY <1>4, <2>1, <2>2, <3>3, <3>4, AgreeRefused
        <3>6. Q = provider
            BY <1>9, <1>13, <2>3 DEF HearCommit
        <3>7. Promises(Q) /\ Said(Q) = Q /\ Due(Q, E) = E
            BY <1>7, <1>10, <2>2, <3>6
        <3> QED BY <1>3, <1>5, <1>9, <2>2, <3>4, <3>5, <3>6, <3>7
    <2>4. CASE provider.heard # provider.from
        <3>1. PICK k : k = Len(provider.ranges) + 1
            OBVIOUS
        <3>2. /\ Len(provider.ranges) < MaxTurns /\ Q = Made(provider, provider.heard)
              /\ down' = down \o <<[type |-> "committed", item |-> k]>>
            BY <1>9, <1>13, <2>4, <3>1 DEF HearCommit, Say, Commits, Made
        <3>3. provider.heard \in provider.from + 1 .. provider.heard
            BY <1>7, <2>4
        <3>4. Makes(provider, Q, k, provider.heard)
            BY <1>5, <3>1, <3>2, <3>3, MadeIs
        <3>5. Q.stopped = 0
            BY <1>7, <2>2, <3>2 DEF Made, Providers
        <3>6. PICK m : m = [type |-> "committed", item |-> k]
            OBVIOUS
        <3>7. m \in Messages /\ m.type = "committed" /\ m.item = k
            BY <3>4, <3>6, CommitMessage DEF Makes
        <3>8. E \in Seq(Messages) /\ Longer(down, E, m)
            BY <1>9, <1>11, <3>2, <3>6, <3>7
        <3>9. Agree(turns, Q, E, V, client, sent, a)
            BY <1>4, <2>1, <2>2, <3>4, <3>7, <3>8, AgreeAsked
        <3>10. Hears(Q)
            BY <3>4 DEF Makes
        <3>11. Promises(Q) /\ Said(Q) = Q /\ Due(Q, E) = E
            BY <1>10, <3>5, <3>10 DEF Hears
        <3> QED BY <1>3, <1>9, <2>2, <3>8, <3>9, <3>10, <3>11
    <2> QED BY <2>3, <2>4
<1>14. CASE SpeechStops
    <2>1. PICK end \in provider.from + 1 .. provider.heard :
              /\ provider' = [provider EXCEPT !.speaking = FALSE, !.stopped = end]
              /\ Say(<<[type |-> "stopped", item |-> Len(provider.ranges) + 1, end |-> end]>>)
        BY <1>14 DEF SpeechStops
    <2>2. PICK k : k = Len(provider.ranges) + 1
        OBVIOUS
    <2>3. /\ Len(provider.ranges) < MaxTurns /\ provider.speaking
          /\ UNCHANGED <<mode, turns, client, up, events, loop, meeting>>
          /\ Q = [provider EXCEPT !.speaking = FALSE, !.stopped = end]
        BY <1>9, <1>14, <2>1 DEF SpeechStops
    <2>4. provider.stopped = 0 /\ P = provider /\ W = down
        BY <1>5, <1>8, <2>3 DEF Promises
    <2>5. end \in Nat /\ end # 0 /\ end <= provider.heard /\ provider.from < end
        BY <1>7
    <2>6. /\ Q \in Providers /\ Q.heard = provider.heard /\ Q.from = provider.from
          /\ Q.ranges = provider.ranges /\ Q.owing = provider.owing /\ Q.stopped = end
          /\ ~Q.speaking
        BY <1>7, <2>3, <2>5 DEF Providers
    <2>7. Hears(Q)
        <3>1. \A j : EndOf(Q, j) = EndOf(provider, j)
            BY <2>6 DEF EndOf
        <3> QED BY <1>5, <2>6, <3>1 DEF Hears
    <2>8. Promises(Q)
        BY <2>3, <2>5, <2>6 DEF Promises
    <2>9. Makes(provider, Said(Q), k, end)
        <3>1. Makes(Q, Said(Q), k, end)
            BY <2>2, <2>5, <2>6, <2>7, <2>8, SaidIs
        <3> QED BY <2>6, <3>1 DEF Makes, Extends
    <2>10. PICK m, n : /\ m = [type |-> "stopped", item |-> k, end |-> end]
                       /\ n = [type |-> "committed", item |-> k]
        OBVIOUS
    <2>11. k \in Turns
        BY <2>9 DEF Makes
    <2>12. m \in Messages /\ m.type = "stopped" /\ m.item = k /\ m.end = end
        BY <2>5, <2>10, <2>11 DEF Messages
    <2>13. n \in Messages /\ n.type = "committed" /\ n.item = k
        BY <2>10, <2>11, CommitMessage
    <2>14. E = down \o <<m>>
        BY <1>9, <2>1, <2>2, <2>10 DEF Say
    <2>15. E \in Seq(Messages) /\ Longer(down, E, m)
        BY <1>11, <2>12, <2>14
    <2>16. Due(Q, E) = E \o <<n>>
        BY <2>2, <2>5, <2>6, <2>10 DEF Due
    <2>17. Due(Q, E) \in Seq(Messages) /\ Longer(E, Due(Q, E), n)
        BY <2>13, <2>15, <2>16, OneMore
    <2>18. Agree(turns, Said(Q), Due(Q, E), up, client, sent, a)
        BY <1>4, <2>4, <2>9, <2>12, <2>13, <2>15, <2>17, AgreeStopped
    <2> QED BY <1>3, <1>9, <2>3, <2>7, <2>8, <2>15, <2>18
<1>15. CASE VadCommits
    <2>1. /\ provider.stopped # 0
          /\ Q = [Made(provider, provider.stopped) EXCEPT !.stopped = 0]
          /\ E = down \o <<[type |-> "committed", item |-> Len(provider.ranges) + 1]>>
          /\ UNCHANGED <<mode, turns, client, up, events, loop, meeting>>
        BY <1>9, <1>15 DEF VadCommits, Say, Commits, Made
    <2>2. Q = P /\ E = W
        BY <1>2, <2>1 DEF Said, Due
    <2>3. Hears(Q) /\ E \in Seq(Messages)
        BY <1>2, <1>5, <2>2, SaidIs, DueIs
    <2>4. Q.stopped = 0
        <3>1. Made(provider, provider.stopped) = [provider EXCEPT
                  !.ranges = Append(@, [start |-> provider.from, end |-> provider.stopped]),
                  !.from = provider.stopped,
                  !.owing = @ \cup {Len(provider.ranges) + 1}]
            BY DEF Made
        <3> QED BY <1>7, <2>1, <3>1 DEF Providers
    <2>5. Promises(Q) /\ Said(Q) = Q /\ Due(Q, E) = E
        BY <1>10, <2>3, <2>4 DEF Hears
    <2>6. Agree(turns, Said(Q), Due(Q, E), up, client, sent, a)
        BY <1>4, <2>2, <2>5
    <2> QED BY <1>3, <1>9, <2>1, <2>3, <2>5, <2>6
<1>16. ASSUME NEW m \in Messages, m.type \notin {"committed", "stopped", "commit empty"},
              m.type = "completed" => m.item \in 1 .. Len(provider.ranges),
              E = down \o <<m>>, Hears(Q), Promises(Q), Q.ranges = provider.ranges,
              Q.heard = provider.heard, Q.stopped = provider.stopped, Q.from = provider.from,
              UNCHANGED <<mode, turns, client, up, events, loop, meeting>>
       PROVE  Live'
    <2>1. /\ E \in Seq(Messages)
          /\ \E p : /\ Inserted(W, Due(Q, E), p, m)
                    /\ Due(Q, E) \in Seq(Messages)
                    /\ m.type = "completed" =>
                           \A n \in p .. Len(W) : ~(W[n].type = "committed" /\ W[n].item = m.item)
        <3>1. /\ E = down \o <<m>> /\ Q.stopped = provider.stopped /\ Q.ranges = provider.ranges
              /\ m.type = "completed" => m.item \in 1 .. Len(provider.ranges)
            BY <1>16
        <3>2. /\ E \in Seq(Messages)
              /\ \E p : /\ Inserted(Due(provider, down), Due(Q, E), p, m)
                        /\ Due(Q, E) \in Seq(Messages)
                        /\ m.type = "completed" =>
                               \A n \in p .. Len(Due(provider, down)) :
                                   ~(/\ Due(provider, down)[n].type = "committed"
                                     /\ Due(provider, down)[n].item = m.item)
            BY <1>5, <3>1, DueMore
        <3> QED BY <1>2, <3>2
    <2>2. PICK p : /\ Inserted(W, Due(Q, E), p, m)
                   /\ Due(Q, E) \in Seq(Messages)
                   /\ m.type = "completed" =>
                          \A n \in p .. Len(W) : ~(W[n].type = "committed" /\ W[n].item = m.item)
        BY <2>1
    <2>3. Said(Q).ranges = P.ranges /\ Said(Q).heard = P.heard /\ Hears(Said(Q))
        BY <1>2, <1>7, <1>16, SaidSame, SaidIs DEF Hears
    <2>4. m.type = "completed" => m.item \in 1 .. Len(P.ranges)
        <3>1. Len(provider.ranges) \in Nat /\ Len(P.ranges) \in Nat
              /\ Len(provider.ranges) <= Len(P.ranges)
            BY <1>2, <1>5, SaidIs DEF Extends
        <3> QED BY <1>16, <3>1
    <2>5. Agree(turns, Said(Q), Due(Q, E), up, client, sent, a)
        BY <1>4, <1>16, <2>2, <2>3, <2>4, AgreeSaid
    <2> QED BY <1>3, <1>9, <1>16, <2>1, <2>5
<1>17. CASE SpeechStarts
    <2>1. PICK m : m = [type |-> "started"]
        OBVIOUS
    <2>2. m \in Messages /\ m.type = "started"
        BY <2>1 DEF Messages
    <2>3. /\ Q = [provider EXCEPT !.speaking = TRUE] /\ E = down \o <<m>> /\ provider.stopped = 0
          /\ UNCHANGED <<mode, turns, client, up, events, loop, meeting>>
        BY <1>9, <1>17, <2>1 DEF SpeechStarts, Say
    <2>4. /\ Q \in Providers /\ Q.ranges = provider.ranges /\ Q.heard = provider.heard
          /\ Q.from = provider.from /\ Q.owing = provider.owing /\ Q.stopped = provider.stopped
        BY <1>7, <2>3 DEF Providers
    <2>5. Hears(Q)
        <3>1. \A k : EndOf(Q, k) = EndOf(provider, k)
            BY <2>4 DEF EndOf
        <3> QED BY <1>5, <2>4, <3>1 DEF Hears
    <2>6. Promises(Q)
        BY <1>10, <2>3, <2>4
    <2> QED BY <1>16, <2>2, <2>3, <2>4, <2>5, <2>6
<1>18. CASE Transcribes
    <2>1. PICK k \in provider.owing, text \in BOOLEAN :
              /\ provider' = [provider EXCEPT !.owing = @ \ {k}]
              /\ Say(<<[type |-> "completed", item |-> k, text |-> text]>>)
        BY <1>18 DEF Transcribes
    <2>2. PICK m, o : /\ m = [type |-> "completed", item |-> k, text |-> text]
                      /\ o = provider.owing \ {k}
        OBVIOUS
    <2>3. k \in 1 .. Len(provider.ranges) /\ k \in Turns
        BY <1>5, <1>7 DEF Hears
    <2>4. m \in Messages /\ m.type = "completed" /\ m.item = k
        BY <2>2, <2>3 DEF Messages
    <2>5. Q = [provider EXCEPT !.owing = o] /\ E = down \o <<m>>
        BY <1>9, <2>1, <2>2 DEF Say
    <2>6. o \in SUBSET Turns
        BY <1>7, <2>2
    <2>7. /\ Q \in Providers /\ Q.ranges = provider.ranges /\ Q.heard = provider.heard
          /\ Q.from = provider.from /\ Q.owing = o /\ Q.stopped = provider.stopped
          /\ Q.speaking = provider.speaking
        BY <1>7, <2>5, <2>6 DEF Providers
    <2>8. Hears(Q)
        <3>1. \A j : EndOf(Q, j) = EndOf(provider, j)
            BY <2>7 DEF EndOf
        <3>2. o \subseteq 1 .. Len(provider.ranges)
            BY <1>5, <2>2 DEF Hears
        <3> QED BY <1>5, <2>7, <3>1, <3>2 DEF Hears
    <2>9. Promises(Q)
        BY <1>5, <2>7 DEF Promises
    <2>10. UNCHANGED <<mode, turns, client, up, events, loop, meeting>>
        BY <1>18 DEF Transcribes
    <2> QED BY <1>16, <2>3, <2>4, <2>5, <2>7, <2>8, <2>9, <2>10
<1>19. ASSUME NEW m \in Messages, m.type \notin {"committed", "stopped", "commit empty"},
              m.type = "completed" => m.item \in 1 .. Len(provider.ranges), Fault(m)
       PROVE  Live'
    <2>1. /\ E = down \o <<m>> /\ Q = provider
          /\ UNCHANGED <<mode, turns, client, up, events, loop, meeting>>
        BY <1>9, <1>19 DEF Fault, Say
    <2> QED BY <1>5, <1>16, <1>19, <2>1
<1>20. CASE Repeats
    <2>1. PICK k \in DOMAIN provider.ranges : Fault([type |-> "completed", item |-> k, text |-> TRUE])
        BY <1>20 DEF Repeats
    <2>2. PICK m : m = [type |-> "completed", item |-> k, text |-> TRUE]
        OBVIOUS
    <2>3. k \in 1 .. Len(provider.ranges)
        <3>1. provider.ranges \in Seq(Ranges)
            BY <1>5, ProviderFields
        <3> QED BY <3>1
    <2>4. m \in Messages /\ m.type = "completed" /\ m.item = k
        BY <1>7, <2>2, <2>3 DEF Messages
    <2> QED BY <1>19, <2>1, <2>2, <2>3, <2>4
<1>21. CASE Breaks
    <2>1. PICK m : m = [type |-> "error"]
        OBVIOUS
    <2>2. m \in Messages /\ m.type = "error"
        BY <2>1 DEF Messages
    <2> QED BY <1>19, <1>21, <2>1, <2>2 DEF Breaks
<1> QED BY <1>12, <1>13, <1>14, <1>15, <1>17, <1>18, <1>20, <1>21 DEF Provider

-----------------------------------------------------------------------------
(* The steps of the client.                                                *)

LEMMA KeepsItself ==
    ASSUME NEW L, NEW P, NEW a, Owns(L, P, a), NEW M \in Ledgers,
           M.allocated = L.allocated, M.intents = L.intents, M.items = L.items
    PROVE  Keeps(L, M)
<1>1. \A k \in Turns : OwnsItem(L.items[k], P, k, a, L.allocated)
    BY DEF Owns
<1> QED BY <1>1 DEF Keeps, OwnsItem, SameRange

\* What a completion of item k comes to.
LEMMA VerdictIs ==
    ASSUME NEW k, NEW text, NEW verdict \in Verdicts(k, text)
    PROVE  /\ verdict \in {"error"} \cup Transcripts
           /\ verdict # "error" => turns.items[k].start # Unknown
<1>1. verdict \in {"final", "silence", "gap", "error"}
      /\ (verdict # "error" => range_known(turns, k))
    <2>1. CASE Adapted(k, text) = "final_transcript"
        BY <2>1 DEF Verdicts
    <2>2. CASE Adapted(k, text) # "final_transcript" /\ Benign(k)
        <3>1. verdict = "silence"
            BY <2>2 DEF Verdicts
        <3> QED BY <2>2, <3>1 DEF Benign
    <2>3. CASE Adapted(k, text) # "final_transcript" /\ ~Benign(k)
        BY <2>3 DEF Verdicts, recoverable_short_vad_empty
    <2> QED BY <2>1, <2>2, <2>3
<1> QED BY <1>1 DEF Transcripts, range_known

\* The client takes one message.
LEMMA ReaderSteps ==
    ASSUME Live, Reader
    PROVE  Live'
<1>1. PICK a \in Nat : At(a)
    BY DEF Live
<1>2. PICK sent, P, W : /\ sent = Sent(turns, loop.at)
                        /\ P = Said(provider) /\ W = Due(provider, down)
    OBVIOUS
<1>3. /\ Agree(turns, P, W, up, client, sent, a)
      /\ Hears(P) /\ Owns(turns, P, a) /\ Told(turns, P, W, a)
      /\ W \in Seq(Messages) /\ turns \in Ledgers
    BY <1>1, <1>2 DEF At, Agree, Told, Owns
<1>4. ASSUME UNCHANGED <<mode, up, provider, loop, meeting>>, samples(turns') = samples(turns),
             NEW b \in Nat, Agree(turns', P, Due(provider, down'), up, client', sent, b),
             down' \in Seq(Messages), client' \in Clients, Out(turns', events'),
             \A k \in Turns : turns'.items[k].delivered = turns.items[k].delivered
      PROVE  Live'
    <2>1. Sent(turns', loop.at) = sent
        BY <1>2, <1>4 DEF Sent
    <2>2. At(b)'
        BY <1>2, <1>4, <2>1 DEF At
    <2>3. Heard(turns', meeting.finals)
        BY <1>4, HeardStay DEF Live
    <2>4. Values'
        BY <1>2, <1>4, <2>1 DEF Live, Values
    <2>5. Hears(provider') /\ Promises(provider')
        BY <1>4 DEF Live
    <2> QED BY <1>4, <2>2, <2>3, <2>4, <2>5 DEF Live
<1>5. client \in Clients /\ client.owed \in Nat /\ Out(turns, events) /\ Keeps(turns, turns)
    BY <1>3, KeepsItself DEF Live, Values, Clients
<1>6. /\ W # << >> /\ Head(down) = W[1] /\ W[1] \in Messages
      /\ down' \in Seq(Messages) /\ Due(provider, down') = Tail(W)
    <2>1. down # << >> /\ down' = Tail(down)
        BY DEF Reader, ReadStarted, ReadStopped, ReadCommitted, ReadCompleted, ReadCommitEmpty,
               ReadError, Read
    <2>2. Hears(provider) /\ Promises(provider) /\ down \in Seq(Messages)
        BY DEF Live
    <2> QED BY <1>2, <2>1, <2>2, DueTail
<1>7. PICK L, E, C : L = turns' /\ E = Tail(W) /\ C = client'
    OBVIOUS
<1>8. ASSUME W # << >>, W[1].type \notin {"committed", "stopped"}, E = Tail(W),
             C.owed \in Nat, C.owed <= client.owed, NEW M, Keeps(turns, M)
      PROVE  Agree(M, P, E, up, C, sent, a)
    <2>1. Agree(turns, P, E, up, client, sent, a)
        BY <1>3, <1>8, AgreeTaken
    <2> QED BY <1>5, <1>8, <2>1, AgreeKept
<1>9. ASSUME NEW type, Read(type)
      PROVE  W[1].type = type
    BY <1>6, <1>9 DEF Read
<1>10. ASSUME UNCHANGED <<mode, up, provider, loop, meeting, events>>, C \in Clients,
              SaysNothing(turns, L), NEW b \in Nat, Agree(L, P, E, up, C, sent, b)
       PROVE  Live'
    <2>1. /\ samples(L) = samples(turns)
          /\ \A k \in Turns : /\ L.items[k].emitted = turns.items[k].emitted
                              /\ L.items[k].delivered = turns.items[k].delivered
                              /\ L.items[k].completion = turns.items[k].completion
        BY <1>10 DEF SaysNothing
    <2>2. Out(L, events)
        BY <1>5, <2>1, OutStay
    <2> QED BY <1>4, <1>6, <1>7, <1>10, <2>1, <2>2
<1>11. ASSUME Reads(<<[type |-> "error", item |-> 0]>>) PROVE Out(turns, events')
    <2>1. PICK x, F : x = [type |-> "error", item |-> 0] /\ F = events'
        OBVIOUS
    <2>2. x \in EventRows /\ x.type = "error" /\ x.item = 0
        BY <2>1, TurnLedgerAssumption DEF EventRows
    <2>3. events \in Seq(EventRows) /\ F = events \o <<x>>
        BY <1>5, <1>11, <2>1 DEF Out, Reads
    <2>4. F \in Seq(EventRows) /\ Longer(events, F, x)
        BY <2>2, <2>3, OneMore
    <2>5. Out(turns, F)
        BY <1>5, <2>2, <2>4, OutError
    <2> QED BY <2>1, <2>5
<1>12. CASE ReadStarted
    <2>1. /\ W # << >> /\ W[1].type = "started" /\ E = Tail(W)
          /\ C = [client EXCEPT !.speaking = TRUE]
          /\ UNCHANGED <<mode, up, provider, loop, meeting>> /\ UNCHANGED <<turns, events>>
        BY <1>6, <1>7, <1>9, <1>12 DEF ReadStarted, ReaderOnly
    <2>2. C \in Clients /\ C.owed = client.owed
        BY <1>5, <2>1 DEF Clients
    <2>3. C.owed \in Nat /\ C.owed <= client.owed
        BY <1>5, <2>2
    <2>4. Agree(turns, P, E, up, C, sent, a)
        BY <1>5, <1>8, <2>1, <2>3
    <2> QED BY <1>4, <1>5, <1>6, <1>7, <2>1, <2>2, <2>4
<1>13. CASE ReadStopped
    <2>1. /\ W # << >> /\ W[1].type = "stopped" /\ E = Tail(W)
          /\ L = ObserveStopped(turns, W[1].item, W[1].end)
          /\ C = [client EXCEPT !.speaking = FALSE, !.boundary = TRUE, !.owed = @ + 1]
          /\ UNCHANGED <<mode, up, provider, loop, meeting>> /\ UNCHANGED events
        BY <1>6, <1>7, <1>9, <1>13 DEF ReadStopped, ReaderOnly
    <2>2. C \in Clients /\ C.owed = client.owed + 1
        <3>1. PICK n : n = client.owed + 1
            OBVIOUS
        <3>2. n \in Nat
            BY <1>5, <3>1
        <3>3. C = [client EXCEPT !.speaking = FALSE, !.boundary = TRUE, !.owed = n]
            BY <2>1, <3>1
        <3> QED BY <1>5, <3>1, <3>2, <3>3 DEF Clients
    <2>3. Takes(turns, W, E, "stopped", L)
        BY <2>1 DEF Takes
    <2>4. Agree(L, P, E, up, C, sent, a) /\ SaysNothing(turns, L)
        BY <1>3, <1>5, <2>2, <2>3, AgreeStopTaken
    <2> QED BY <1>5, <1>7, <1>10, <2>1, <2>2, <2>4
<1>14. CASE ReadCommitted
    <2>1. /\ W # << >> /\ W[1].type = "committed" /\ E = Tail(W)
          /\ L = ObserveCommitted(turns, W[1].item)
          /\ UNCHANGED <<mode, up, provider, loop, meeting>> /\ UNCHANGED <<client, events>>
        BY <1>6, <1>7, <1>9, <1>14 DEF ReadCommitted, ReaderOnly
    <2>2. Takes(turns, W, E, "committed", L)
        BY <2>1 DEF Takes
    <2>3. Agree(L, P, E, up, client, sent, a + 1) /\ SaysNothing(turns, L)
        BY <1>3, <1>5, <2>2, AgreeCommitTaken
    <2>4. a + 1 \in Nat
        OBVIOUS
    <2> QED BY <1>5, <1>7, <1>10, <2>1, <2>3, <2>4
<1>15. CASE ReadCompleted
    <2>1. /\ W # << >> /\ W[1].type = "completed"
          /\ E = Tail(W) /\ C = OwedLess
          /\ UNCHANGED <<mode, up, provider, loop, meeting>>
        BY <1>6, <1>7, <1>9, <1>15 DEF ReadCompleted, ReaderOnly
    <2>2. C \in Clients /\ C.owed \in Nat /\ C.owed <= client.owed
        <3>1. PICK n : n = IF client.owed > 0 THEN client.owed - 1 ELSE 0
            OBVIOUS
        <3>2. n \in Nat /\ n <= client.owed
            BY <1>5, <3>1
        <3>3. C = [client EXCEPT !.owed = n]
            BY <2>1, <3>1 DEF OwedLess
        <3> QED BY <1>5, <3>2, <3>3 DEF Clients
    <2>3. PICK k, text : k = W[1].item /\ text = W[1].text
        OBVIOUS
    <2>4. k \in Turns /\ k <= a
        BY <1>3, <1>6, <2>1, <2>3, FirstTold, MessageFields
    <2>5. CASE Adapted(k, text) = "duplicate_final"
        <3>1. UNCHANGED <<turns, events>>
            BY <1>6, <1>15, <2>3, <2>5 DEF ReadCompleted
        <3>2. Agree(turns, P, E, up, C, sent, a)
            BY <1>5, <1>8, <2>1, <2>2
        <3> QED BY <1>4, <1>5, <1>6, <1>7, <2>1, <2>2, <3>1, <3>2
    <2>6. CASE Adapted(k, text) # "duplicate_final"
        <3>1. PICK verdict \in Verdicts(k, text) :
                  /\ L = Emitted(Completed(turns, k, verdict))
                  /\ events' = events \o EventsOf(Completed(turns, k, verdict))
            BY <1>6, <1>7, <1>15, <2>3, <2>6 DEF ReadCompleted, Reads, EventsOf
        <3>2. PICK X, F : X = Completed(turns, k, verdict) /\ F = events'
            OBVIOUS
        <3>3. /\ verdict \in {"error"} \cup Transcripts
              /\ verdict # "error" => turns.items[k].start # Unknown
            BY VerdictIs
        <3>4. turns.items[k].acked /\ turns.items[k].completion = "none"
            <4>1. turns.items[k].completion = "none"
                BY <2>6 DEF Adapted
            <4> QED BY <1>3, <2>4, <4>1, KnownItems
        <3>5. L = Emitted(X) /\ F = events \o EventsOf(X)
            BY <3>1, <3>2
        <3>6. Completes(turns, k, verdict, X, L)
            BY <1>3, <2>4, <3>2, <3>3, <3>5, ItemCompleted
        <3>7. \A j \in Turns : OwnsItem(turns.items[j], P, j, a, turns.allocated)
            BY <1>3 DEF Owns
        <3>8. \A j \in Turns : ~turns.items[j].acked => turns.items[j].completion = "none"
            BY <3>7 DEF OwnsItem
        <3>9. Out(L, F)
            BY <1>3, <1>5, <2>4, <3>3, <3>4, <3>5, <3>6, <3>8, OutCompleted
        <3>10. Keeps(turns, L)
            <4>1. ASSUME NEW j \in Turns
                  PROVE  /\ L.items[j].completion \in Transcripts => L.items[j].start # Unknown
                         /\ ~L.items[j].acked => L.items[j].completion = "none"
                <5>1. SameRange(turns.items[j], L.items[j])
                    BY <3>6 DEF Completes
                <5>2. CASE j = k
                    <6>1. L.items[j].completion = verdict
                        BY <3>6, <5>2 DEF Completes
                    <6> QED BY <3>3, <3>4, <5>1, <5>2, <6>1 DEF SameRange, Transcripts
                <5>3. CASE j # k
                    <6>1. L.items[j].completion = turns.items[j].completion
                        BY <3>6, <5>3 DEF Completes
                    <6> QED BY <3>7, <5>1, <6>1 DEF SameRange, OwnsItem
                <5> QED BY <5>2, <5>3
            <4> QED BY <3>6, <4>1 DEF Keeps, Completes
        <3>11. Agree(L, P, E, up, C, sent, a)
            BY <1>8, <2>1, <2>2, <3>10
        <3>12. samples(L) = samples(turns)
               /\ \A j \in Turns : L.items[j].delivered = turns.items[j].delivered
            BY <3>6 DEF Completes
        <3> QED BY <1>4, <1>6, <1>7, <2>1, <2>2, <3>2, <3>9, <3>11, <3>12
    <2> QED BY <2>5, <2>6
<1>16. CASE ReadCommitEmpty
    <2>1. /\ W # << >> /\ W[1].type = "commit empty"
          /\ E = Tail(W)
          /\ UNCHANGED <<mode, up, provider, loop, meeting>> /\ UNCHANGED client
        BY <1>6, <1>7, <1>9, <1>16 DEF ReadCommitEmpty, ReaderOnly
    <2>2. CASE Superseded(turns, Head(down).id)
        <3>1. L = reconcile_empty_commit(turns) /\ UNCHANGED events
            BY <1>7, <1>16, <2>2 DEF ReadCommitEmpty
        <3>2. Takes(turns, W, E, "commit empty", L)
            BY <2>1, <3>1 DEF Takes
        <3>3. Agree(L, P, E, up, client, sent, a) /\ SaysNothing(turns, L)
            BY <1>3, <3>2, AgreeReconciled
        <3> QED BY <1>5, <1>7, <1>10, <2>1, <3>1, <3>3
    <2>3. CASE ~Superseded(turns, Head(down).id)
        <3>1. Reads(<<[type |-> "error", item |-> 0]>>) /\ UNCHANGED turns
            BY <1>16, <2>3 DEF ReadCommitEmpty
        <3>2. Agree(turns, P, E, up, client, sent, a)
            BY <1>3, <2>1, AgreeTaken
        <3> QED BY <1>4, <1>5, <1>6, <1>7, <1>11, <2>1, <3>1, <3>2
    <2> QED BY <2>2, <2>3
<1>17. CASE ReadError
    <2>1. /\ W # << >> /\ W[1].type = "error" /\ E = Tail(W)
          /\ Reads(<<[type |-> "error", item |-> 0]>>)
          /\ UNCHANGED <<mode, up, provider, loop, meeting>> /\ UNCHANGED <<turns, client>>
        BY <1>6, <1>7, <1>9, <1>17 DEF ReadError, ReaderOnly
    <2>2. Agree(turns, P, E, up, client, sent, a)
        BY <1>3, <2>1, AgreeTaken
    <2> QED BY <1>4, <1>5, <1>6, <1>7, <1>11, <2>1, <2>2
<1> QED BY <1>12, <1>13, <1>14, <1>15, <1>16, <1>17 DEF Reader

-----------------------------------------------------------------------------
(* The steps of the loop and the browser that the capture outlives.        *)

LEMMA MarkedIs ==
    ASSUME meeting \in Meetings, NEW m \in Meetings, NEW x,
           x = m \/ x = [m EXCEPT !.done = TRUE, !.finalized = meeting.stop]
    PROVE  x \in Meetings /\ x.finals = m.finals
<1>1. PICK b : b = meeting.stop
    OBVIOUS
<1>2. b \in BOOLEAN
    BY <1>1 DEF Meetings
<1>3. CASE x = m
    BY <1>3
<1>4. CASE x = [m EXCEPT !.done = TRUE, !.finalized = b]
    BY <1>2, <1>4 DEF Meetings
<1> QED BY <1>1, <1>3, <1>4

\* An item is acknowledged.
LEMMA KeepsAcknowledged ==
    ASSUME NEW L, NEW P, NEW a, Owns(L, P, a), NEW k \in Turns,
           L.items[k].completion \in Transcripts, NEW M, M = acknowledge(L, k)
    PROVE  Keeps(L, M) /\ samples(M) = samples(L)
           /\ M.items[k].delivered
           /\ \A j \in Turns : L.items[j].delivered => M.items[j].delivered
<1>1. L \in Ledgers /\ \A j \in Turns : OwnsItem(L.items[j], P, j, a, L.allocated)
    BY DEF Owns
<1>2. /\ M \in Ledgers /\ M.allocated = L.allocated
      /\ M.intents = L.intents /\ samples(M) = samples(L)
      /\ \A j \in Turns : j # k => M.items[j] = L.items[j]
      /\ M.items[k].vadEnd = L.items[k].vadEnd /\ M.items[k].acked = L.items[k].acked
      /\ M.items[k].start = L.items[k].start /\ M.items[k].end = L.items[k].end
      /\ M.items[k].completion = L.items[k].completion
      /\ M.items[k].emitted = L.items[k].emitted /\ M.items[k].delivered
    BY <1>1, TurnAcknowledged
<1>3. ASSUME NEW j \in Turns
      PROVE  /\ SameRange(L.items[j], M.items[j])
             /\ M.items[j].completion \in Transcripts => M.items[j].start # Unknown
             /\ ~M.items[j].acked => M.items[j].completion = "none"
    <2>1. /\ M.items[j].completion = L.items[j].completion
          /\ SameRange(L.items[j], M.items[j])
        BY <1>2 DEF SameRange
    <2> QED BY <1>1, <2>1 DEF SameRange, OwnsItem
<1> QED BY <1>2, <1>3 DEF Keeps

LEMMA LoopSteps ==
    ASSUME Live,
           \/ TopStops \/ TopWaits \/ TopBounds \/ Idle \/ FrameSent
           \/ Final \/ Silence \/ PossibleGap \/ Frame \/ ExplicitCommit \/ Stop
    PROVE  Live'
<1>1. PICK a \in Nat : At(a)
    BY DEF Live
<1>2. PICK sent, P, W : /\ sent = Sent(turns, loop.at)
                        /\ P = Said(provider) /\ W = Due(provider, down)
    OBVIOUS
<1>3. /\ Agree(turns, P, W, up, client, sent, a)
      /\ Owns(turns, P, a) /\ Sends(turns, P, up, sent)
    BY <1>1, <1>2 DEF At, Agree
<1>4. /\ turns \in Ledgers /\ samples(turns) \in Nat /\ turns.requests \in Nat
      /\ up \in Seq(Requests) /\ Keeps(turns, turns)
    <2>1. turns \in Ledgers /\ up \in Seq(Requests)
        BY <1>3 DEF Owns, Sends
    <2> QED BY <1>3, <2>1, LedgerFields, KeepsItself
<1>5. /\ client \in Clients /\ client.owed \in Nat /\ client.owed <= client.owed
      /\ loop \in Loops /\ meeting \in Meetings /\ mode \in Modes /\ sent <= MaxFrames
      /\ Out(turns, events) /\ Heard(turns, meeting.finals) /\ meeting.finals \in Seq(Turns)
    <2>1. /\ client \in Clients /\ loop \in Loops /\ meeting \in Meetings /\ mode \in Modes
          /\ sent <= MaxFrames /\ Out(turns, events) /\ Heard(turns, meeting.finals)
        BY <1>2 DEF Live, Values
    <2> QED BY <2>1 DEF Clients, Meetings
<1>6. loop.at # "sending" => sent = samples(turns)
    BY <1>2, <1>4 DEF Sent
<1>7. PICK L, V, F, l, m : L = turns' /\ V = up' /\ F = events' /\ l = loop' /\ m = meeting'
    OBVIOUS
<1>8. ASSUME UNCHANGED <<mode, client, provider, down>>, l \in Loops, m \in Meetings,
             NEW s, s = Sent(L, l.at), s <= MaxFrames,
             Agree(L, P, W, V, client, s, a), Out(L, F), Heard(L, m.finals)
      PROVE  Live'
    <2>1. At(a)'
        BY <1>2, <1>7, <1>8 DEF At
    <2>2. Values'
        BY <1>5, <1>7, <1>8 DEF Values
    <2>3. Hears(provider') /\ Promises(provider') /\ down' \in Seq(Messages)
        BY <1>8 DEF Live
    <2> QED BY <1>7, <1>8, <2>1, <2>2, <2>3 DEF Live
<1>9. ASSUME UNCHANGED <<mode, client, provider, down, turns, up, events>>, l \in Loops,
             m \in Meetings, m.finals = meeting.finals, sent = Sent(turns, l.at)
      PROVE  Live'
    BY <1>3, <1>5, <1>7, <1>8, <1>9
<1>10. ASSUME LoopOnly, Commit, turns.intents = << >>, l \in Loops, m \in Meetings,
              m.finals = meeting.finals, l.at # "sending", loop.at # "sending"
       PROVE  Live'
    <2>1. PICK i : i = turns.requests + 1
        OBVIOUS
    <2>2. PICK x : x = [type |-> "commit", id |-> i]
        OBVIOUS
    <2>3. x \in Requests /\ x.type = "commit"
        <3>1. i \in Nat
            BY <1>4, <2>1
        <3> QED BY <2>2, <3>1 DEF Requests
    <2>4. L = request(turns) /\ V = Append(up, x)
        BY <1>7, <1>10, <2>1, <2>2 DEF Commit
    <2>5. V \in Seq(Requests) /\ Longer(up, V, x)
        BY <1>4, <2>3, <2>4, AppendIs
    <2>6. sent = samples(turns)
        BY <1>6, <1>10
    <2>7. Agree(L, P, W, V, client, sent, a) /\ SaysNothing(turns, L)
        BY <1>3, <1>10, <2>3, <2>4, <2>5, <2>6, AgreeRequested
    <2>8. Out(L, events) /\ Heard(L, meeting.finals)
        BY <1>5, <2>7, OutStay, HeardStay DEF SaysNothing
    <2>9. sent = Sent(L, l.at)
        BY <1>4, <1>10, <2>6, <2>7 DEF Sent, SaysNothing
    <2> QED BY <1>5, <1>7, <1>8, <1>10, <2>7, <2>8, <2>9 DEF LoopOnly
<1>11. ASSUME NEW type \in Transcripts, Event(type), L = acknowledge(turns, Head(events).item),
              Wakes("top"), m \in Meetings,
              \/ m.finals = meeting.finals
              \/ m.finals = Append(meeting.finals, Head(events).item)
       PROVE  Live'
    <2>1. /\ events # << >> /\ F = Tail(events) /\ UNCHANGED <<mode, client, up, provider, down>>
          /\ loop.at # "sending" /\ Head(events).type = type
        BY <1>7, <1>11 DEF Event
    <2>2. events \in Seq(EventRows)
        BY <1>5 DEF Out
    <2>3. Head(events) = events[1] /\ F \in Seq(EventRows) /\ Shorter(events, F)
        BY <2>1, <2>2, TailIs
    <2>4. PICK k : k = events[1].item
        OBVIOUS
    <2>5. Acknowledges(turns, events, F, k, L) /\ L = acknowledge(turns, k)
        BY <1>11, <2>1, <2>3, <2>4 DEF Acknowledges
    <2>6. /\ Out(L, F) /\ k \in Turns /\ turns.items[k].completion \in Transcripts
          /\ \A j \in Turns : turns.items[j].delivered => j < k
        BY <1>4, <1>5, <2>5, OutHeard
    <2>7. /\ Keeps(turns, L) /\ samples(L) = samples(turns) /\ L.items[k].delivered
          /\ \A j \in Turns : turns.items[j].delivered => L.items[j].delivered
        BY <1>3, <2>5, <2>6, KeepsAcknowledged
    <2>8. Agree(L, P, W, up, client, sent, a)
        BY <1>3, <1>5, <2>7, AgreeKept
    <2>9. Heard(L, m.finals)
        <3>1. CASE m.finals = meeting.finals
            BY <1>5, <2>7, <3>1, HeardStay
        <3>2. CASE m.finals = Append(meeting.finals, k)
            <4>1. m.finals \in Seq(Turns) /\ Longer(meeting.finals, m.finals, k)
                BY <1>5, <2>6, <3>2, AppendIs
            <4> QED BY <1>5, <2>6, <2>7, <4>1, HeardMore
        <3> QED BY <1>11, <2>3, <2>4, <3>1, <3>2
    <2>10. l \in Loops /\ l.at = "top"
        BY <1>5, <1>7, <1>11 DEF Wakes, Loops
    <2>11. sent = Sent(L, l.at)
        BY <1>4, <1>6, <2>1, <2>7, <2>10 DEF Sent
    <2> QED BY <1>5, <1>7, <1>8, <1>11, <2>1, <2>6, <2>8, <2>9, <2>10, <2>11
<1>12. CASE TopStops
    <2>1. LoopOnly /\ loop.at = "top"
        BY <1>12 DEF TopStops, Top
    <2>2. l \in Loops /\ l.at = "wait"
        BY <1>5, <1>7, <1>12 DEF TopStops, Loops
    <2>3. CASE should_commit_at_session_end
        <3>1. Commit /\ m = meeting /\ turns.intents = << >>
            BY <1>7, <1>12, <2>3 DEF TopStops, should_commit_at_session_end
        <3> QED BY <1>5, <1>10, <2>1, <2>2, <3>1
    <2>4. CASE ~should_commit_at_session_end
        <3>1. /\ UNCHANGED <<turns, up>>
              /\ \/ m = meeting
                 \/ m = [meeting EXCEPT !.done = TRUE, !.finalized = meeting.stop]
            BY <1>7, <1>12, <2>4 DEF TopStops, Marked
        <3>2. m \in Meetings /\ m.finals = meeting.finals
            BY <1>5, <3>1, MarkedIs
        <3>3. sent = Sent(turns, l.at)
            BY <1>4, <1>6, <2>1, <2>2 DEF Sent
        <3> QED BY <1>9, <2>1, <2>2, <3>1, <3>2, <3>3 DEF LoopOnly
    <2> QED BY <2>3, <2>4
<1>13. CASE TopWaits \/ Idle
    <2>1. /\ UNCHANGED <<mode, client, provider, down, turns, up, events>> /\ m = meeting
          /\ loop.at # "sending"
        BY <1>7, <1>13 DEF TopWaits, Idle, LoopOnly, Top
    <2>2. l \in Loops /\ l.at # "sending"
        BY <1>5, <1>7, <1>13 DEF TopWaits, Idle, Wakes, Loops
    <2>3. sent = Sent(turns, l.at)
        BY <1>4, <1>6, <2>1, <2>2 DEF Sent
    <2> QED BY <1>5, <1>9, <2>1, <2>2, <2>3
<1>14. CASE TopBounds \/ ExplicitCommit
    <2>1. LoopOnly /\ Commit /\ m = meeting /\ loop.at # "sending" /\ turns.intents = << >>
        BY <1>7, <1>14 DEF TopBounds, ExplicitCommit, Top, should_commit_bounded_fallback
    <2>2. l \in Loops /\ l.at # "sending"
        BY <1>5, <1>7, <1>14 DEF TopBounds, ExplicitCommit, Wakes, Loops
    <2> QED BY <1>5, <1>10, <2>1, <2>2
<1>15. CASE Frame
    <2>1. PICK x : x = [type |-> "append"]
        OBVIOUS
    <2>2. x \in Requests /\ x.type = "append"
        BY <2>1 DEF Requests
    <2>3. /\ V = Append(up, x) /\ UNCHANGED <<mode, client, provider, down, events, turns, meeting>>
          /\ loop.at = "wait" /\ samples(turns) < MaxFrames
        BY <1>7, <1>15, <2>1 DEF Frame, LoopOnly
    <2>4. l \in Loops /\ l.at = "sending"
        BY <1>5, <1>7, <1>15 DEF Frame, Loops
    <2>5. V \in Seq(Requests) /\ Longer(up, V, x)
        BY <1>4, <2>2, <2>3, AppendIs
    <2>6. PICK s : s = sent + 1
        OBVIOUS
    <2>7. Agree(turns, P, W, V, client, s, a)
        BY <1>3, <2>2, <2>5, <2>6, AgreeSent
    <2>8. s = Sent(turns, l.at) /\ s <= MaxFrames
        BY <1>4, <1>6, <2>3, <2>4, <2>6, LiveCaptureAssumption DEF Sent
    <2> QED BY <1>5, <1>7, <1>8, <2>3, <2>4, <2>7, <2>8
<1>16. CASE FrameSent
    <2>1. PICK sound : sound = loop.sound
        OBVIOUS
    <2>2. /\ L = AppendFrame(turns, sound) /\ loop.at = "sending" /\ sound \in BOOLEAN
          /\ UNCHANGED <<mode, client, provider, down, events, up, meeting>>
        BY <1>5, <1>7, <1>16, <2>1 DEF FrameSent, LoopOnly, Loops
    <2>3. l \in Loops /\ l.at = "events"
        BY <1>5, <1>7, <1>16 DEF FrameSent, Loops
    <2>4. /\ L \in Ledgers /\ L.allocated = turns.allocated /\ L.intents = turns.intents
          /\ L.items = turns.items /\ samples(L) = samples(turns) + 1
        BY <1>4, <2>2, FrameEntered
    <2>5. Keeps(turns, L)
        BY <1>3, <2>4, KeepsItself
    <2>6. Agree(L, P, W, up, client, sent, a)
        BY <1>3, <1>5, <2>5, AgreeKept
    <2>7. Out(L, events) /\ Heard(L, meeting.finals)
        BY <1>5, <2>4, OutStay, HeardStay
    <2>8. sent = Sent(L, l.at)
        BY <1>2, <1>4, <2>2, <2>3, <2>4 DEF Sent
    <2> QED BY <1>5, <1>7, <1>8, <2>2, <2>3, <2>6, <2>7, <2>8
<1>17. CASE Final
    <2>1. PICK fs : fs = Append(meeting.finals, Head(events).item)
        OBVIOUS
    <2>2. PICK x : x = [meeting EXCEPT !.finals = fs, !.finalized = FALSE]
        OBVIOUS
    <2>3. /\ Event("final") /\ L = acknowledge(turns, Head(events).item) /\ Wakes("top")
          /\ m = x \/ m = [x EXCEPT !.done = TRUE, !.finalized = meeting.stop]
        BY <1>7, <1>17, <2>1, <2>2 DEF Final, Marked
    <2>4. Head(events).item \in Turns
        <3>1. events # << >> /\ Head(events).type = "final"
            BY <2>3 DEF Event
        <3>2. events \in Seq(EventRows)
            BY <1>5 DEF Out
        <3>3. Head(events) = events[1]
            BY <3>1, <3>2, TailIs
        <3>4. 1 \in 1 .. Len(events)
            <4>1. Len(events) \in Nat /\ Len(events) # 0
                BY <3>1, <3>2, TailIs DEF Shorter
            <4> QED BY <4>1
        <3>5. events[1].item # 0
            BY <1>5, <3>1, <3>3, <3>4 DEF Out
        <3> QED BY <1>5, <3>3, <3>4, <3>5, EventFields
    <2>5. fs \in Seq(Turns)
        BY <1>5, <2>1, <2>4, AppendProperties
    <2>6. x \in Meetings /\ x.finals = fs
        BY <1>5, <2>2, <2>5 DEF Meetings
    <2>7. m \in Meetings /\ m.finals = fs
        BY <1>5, <2>3, <2>6, MarkedIs
    <2> QED BY <1>11, <2>1, <2>3, <2>7 DEF Transcripts
<1>18. CASE Silence
    <2>1. /\ Event("silence") /\ L = acknowledge(turns, Head(events).item) /\ Wakes("top")
          /\ m = meeting \/ m = [meeting EXCEPT !.done = TRUE, !.finalized = meeting.stop]
        BY <1>7, <1>18 DEF Silence, Marked
    <2>2. m \in Meetings /\ m.finals = meeting.finals
        BY <1>5, <2>1, MarkedIs
    <2> QED BY <1>11, <2>1, <2>2 DEF Transcripts
<1>19. CASE PossibleGap
    <2>1. PICK x : x = [meeting EXCEPT !.gap = TRUE]
        OBVIOUS
    <2>2. x \in Meetings /\ x.finals = meeting.finals
        BY <1>5, <2>1 DEF Meetings
    <2>3. /\ Event("gap") /\ L = acknowledge(turns, Head(events).item) /\ Wakes("top")
          /\ m = x \/ m = [x EXCEPT !.done = TRUE, !.finalized = meeting.stop]
        BY <1>7, <1>19, <2>1 DEF PossibleGap, Marked
    <2>4. m \in Meetings /\ m.finals = meeting.finals
        BY <1>5, <2>2, <2>3, MarkedIs
    <2> QED BY <1>11, <2>3, <2>4 DEF Transcripts
<1>20. CASE Stop
    <2>1. /\ UNCHANGED <<mode, client, provider, down, turns, up, events>> /\ l = loop
          /\ m = [meeting EXCEPT !.stop = TRUE]
        BY <1>7, <1>20 DEF Stop
    <2>2. m \in Meetings /\ m.finals = meeting.finals
        BY <1>5, <2>1 DEF Meetings
    <2> QED BY <1>2, <1>5, <1>9, <2>1, <2>2
<1> QED BY <1>12, <1>13, <1>14, <1>15, <1>16, <1>17, <1>18, <1>19, <1>20

-----------------------------------------------------------------------------
(* What the invariant says, where it begins, and that every step keeps it. *)

\* The audio that the provider heard was sent, and the ledger knows of less.
LEMMA LiveTypeOK ==
    ASSUME Live
    PROVE  TypeOK
<1>1. PICK a \in Nat : At(a)
    BY DEF Live
<1>2. PICK sent, P : sent = Sent(turns, loop.at) /\ P = Said(provider)
    OBVIOUS
<1>3. /\ Hears(P) /\ Owns(turns, P, a) /\ Sends(turns, P, up, sent)
      /\ Owing(client, turns, a)
    BY <1>1, <1>2 DEF At, Agree
<1>4. /\ turns \in Ledgers /\ turns.allocated \in Nat /\ turns.allocated <= EndOf(P, a)
      /\ EndOf(P, a) \in Nat /\ a <= Len(P.ranges) /\ Len(P.ranges) \in Nat
    BY <1>3, KnownItems
<1>5. /\ P.heard \in Nat /\ P.from \in Nat /\ P.from <= P.heard
      /\ EndOf(P, a) <= P.from /\ Len(P.ranges) <= MaxTurns
      /\ MaxTurns \in Nat
    <2>1. a \in 0 .. Len(P.ranges)
        BY <1>3 DEF Owns
    <2> QED BY <1>3, <2>1, ProviderFields
<1>6. /\ mode \in Modes /\ client \in Clients /\ loop \in Loops /\ sent <= MaxFrames
      /\ samples(turns) \in Nat /\ sent <= samples(turns) + 1 /\ sent \in Nat /\ MaxFrames \in Nat
    <2>1. mode \in Modes /\ client \in Clients /\ loop \in Loops /\ sent <= MaxFrames
        BY <1>2 DEF Live, Values
    <2>2. samples(turns) \in Nat
        BY <1>4, LedgerFields
    <2> QED BY <1>2, <2>1, <2>2, LiveCaptureAssumption DEF Sent
<1>7. P.heard <= sent
    <2>1. up \in Seq(Requests) /\ Len(up) \in Nat
        BY <1>3, LenProperties DEF Sends
    <2>2. CASE Asks(up)
        <3>1. PICK n \in 1 .. Len(up) : up[n].type = "commit"
            BY <2>2 DEF Asks
        <3>2. P.heard + Len(up) - 1 = sent
            BY <1>3, <3>1 DEF Sends
        <3>3. Len(up) >= 1
            BY <2>1, <3>1
        <3> QED BY <1>5, <1>6, <2>1, <3>2, <3>3
    <2>3. CASE ~Asks(up)
        <3>1. P.heard + Len(up) = sent
            BY <1>3, <2>3 DEF Sends
        <3> QED BY <1>5, <1>6, <2>1, <3>1
    <2> QED BY <2>2, <2>3
<1>8. client \in [speaking : BOOLEAN, boundary : BOOLEAN, owed : 0 .. MaxTurns]
    <2>1. client.owed \in Nat
        BY <1>6 DEF Clients
    <2>2. CASE a + 1 \in Turns
        <3>1. a + 1 <= MaxTurns
            BY <2>2 DEF Turns
        <3>2. client.owed <= a + 1
            BY <1>3, <2>1 DEF Owing
        <3> QED BY <1>5, <1>6, <2>1, <3>1, <3>2 DEF Clients
    <2>3. CASE a + 1 \notin Turns
        <3>1. client.owed <= a
            BY <1>3, <2>3 DEF Owing
        <3>2. client.owed <= MaxTurns
            BY <1>4, <1>5, <2>1, <3>1
        <3> QED BY <1>5, <1>6, <2>1, <3>2 DEF Clients
    <2> QED BY <2>2, <2>3
<1>9. P.heard <= samples(turns) + 1 /\ turns.allocated <= MaxFrames
    BY <1>4, <1>5, <1>6, <1>7
<1>10. provider.heard = P.heard /\ provider.from <= provider.heard
    <2>1. Hears(provider) /\ Promises(provider)
        BY DEF Live
    <2> QED BY <1>2, <2>1, SaidIs, ProviderFields
<1> QED BY <1>6, <1>8, <1>9, <1>10 DEF TypeOK, Loops

\* The ranges that are known lie one behind the other.
LEMMA LiveOwnedOnce ==
    ASSUME Live
    PROVE  OwnedOnce
<1>1. PICK a \in Nat : At(a)
    BY DEF Live
<1>2. PICK P : Hears(P) /\ Owns(turns, P, a)
    BY <1>1 DEF At, Agree
<1>3. \A k \in Turns : turns.items[k].start # Unknown =>
          turns.items[k].start \in Nat /\ turns.items[k].end \in Nat
    <2>1. \A k \in Turns : OwnsItem(turns.items[k], P, k, a, turns.allocated)
        BY <1>2 DEF Owns
    <2>2. \A k \in Turns : turns.items[k].start # Unknown => turns.items[k].end \in Nat
        BY <1>2, KnownItems
    <2> QED BY <2>1, <2>2 DEF OwnsItem
<1>4. ASSUME NEW j \in Turns, NEW k \in Turns, j < k, turns.items[j].start # Unknown,
             turns.items[k].start # Unknown, NEW f \in 1 .. MaxFrames
      PROVE  ~(f <= turns.items[j].end /\ turns.items[k].start < f)
    <2>1. turns.items[j].end <= turns.items[k].start
        BY <1>2, <1>4 DEF Owns
    <2>2. turns.items[j].end \in Nat /\ turns.items[k].start \in Nat
        BY <1>3, <1>4
    <2> QED BY <2>1, <2>2
<1>5. \A j, k \in Turns : j # k => j < k \/ k < j
    BY TurnLedgerAssumption DEF Turns
<1> QED BY <1>4, <1>5 DEF OwnedOnce

\* All up to an item that was acknowledged were, and are known: its range is the provider's.
LEMMA LiveRangeIsTrue ==
    ASSUME Live
    PROVE  RangeIsTrue
<1>1. PICK a \in Nat : At(a)
    BY DEF Live
<1>2. PICK P : P = Said(provider)
    OBVIOUS
<1>3. /\ Hears(P) /\ Owns(turns, P, a) /\ Told(turns, P, Due(provider, down), a)
      /\ Out(turns, events)
    BY <1>1, <1>2 DEF At, Agree, Live
<1>4. \A k \in Turns : turns.items[k].delivered => turns.items[k].start # Unknown
    <2>1. \A k \in Turns : OwnsItem(turns.items[k], P, k, a, turns.allocated)
        BY <1>3 DEF Owns
    <2>2. \A k \in Turns : turns.items[k].delivered => turns.items[k].completion \in Transcripts
        BY <1>3 DEF Out
    <2> QED BY <2>1, <2>2 DEF OwnsItem
<1>5. ASSUME NEW k \in Turns, turns.items[k].delivered
      PROVE  /\ turns.items[k].start = P.ranges[k].start
             /\ turns.items[k].end = P.ranges[k].end
             /\ k \in 1 .. a
    <2>1. turns.items[k].start # Unknown
        BY <1>4, <1>5
    <2>2. k \in 1 .. MaxTurns /\ k <= a /\ MaxTurns \in Nat
        BY <1>3, <1>5, <2>1, KnownItems, TurnLedgerAssumption DEF Turns
    <2>3. \A j \in 1 .. k : j \in Turns /\ (j = k \/ j < k)
        BY <2>2 DEF Turns
    <2>4. \A j \in 1 .. k : turns.items[j].delivered
        BY <1>3, <1>5, <2>3 DEF Out
    <2>5. AllKnown(turns, k)
        BY <1>4, <2>3, <2>4 DEF AllKnown
    <2>6. turns.items[k].start = EndOf(P, k - 1)
        <3>1. k \in 1 .. a
            BY <2>2
        <3> QED BY <1>3, <2>5, <3>1 DEF Owns
    <2>7. P.ranges[k].start = EndOf(P, k - 1)
        <3>1. k \in 1 .. Len(P.ranges)
            <4>1. a \in Nat /\ a <= Len(P.ranges) /\ Len(P.ranges) \in Nat
                BY <1>3, KnownItems
            <4> QED BY <2>2, <4>1
        <3> QED BY <1>3, <3>1 DEF Hears
    <2>8. turns.items[k].end = P.ranges[k].end
        BY <1>3, <2>1 DEF Owns, OwnsItem
    <2> QED BY <2>2, <2>6, <2>7, <2>8
<1>6. \A k \in 1 .. a : P.ranges[k] = provider.ranges[k]
    <2>1. Hears(provider) /\ Promises(provider) /\ down \in Seq(Messages)
        BY DEF Live
    <2>2. Extends(provider, P) /\ Len(provider.ranges) \in Nat
        BY <1>2, <2>1, SaidIs, ProviderFields
    <2>3. a \in Nat /\ a <= Len(provider.ranges)
        <3>1. CASE provider.stopped = 0
            BY <1>2, <1>3, <2>1, <2>2, <3>1, SaidIs, KnownItems
        <3>2. CASE provider.stopped # 0
            <4>1. Len(P.ranges) = Len(provider.ranges) + 1
                BY <1>2, <2>1, <3>2, SaidIs DEF Makes
            <4>2. PICK W, m : /\ W = Due(provider, down) /\ Longer(down, W, m)
                              /\ m.type = "committed" /\ m.item = Len(provider.ranges) + 1
                BY <2>1, <3>2, DueIs
            <4>3. Len(W) \in 1 .. Len(W) /\ W[Len(W)] = m
                BY <4>2, LongerIs
            <4>4. m.item \in a + 1 .. Len(P.ranges)
                BY <1>3, <4>2, <4>3, ToldIs
            <4> QED BY <2>2, <4>1, <4>2, <4>4
        <3> QED BY <3>1, <3>2
    <2> QED BY <2>2, <2>3 DEF Extends
<1> QED BY <1>5, <1>6 DEF RangeIsTrue

LEMMA LiveFinalsInOrder ==
    ASSUME Live
    PROVE  FinalsInOrder
<1>1. Out(turns, events) /\ Heard(turns, meeting.finals)
    BY DEF Live
<1>2. /\ meeting.finals \in Seq(Turns) /\ Len(meeting.finals) \in Nat
      /\ \A n \in 1 .. Len(meeting.finals) : meeting.finals[n] \in Turns
    BY <1>1, LenProperties, ElementOfSeq DEF Heard
<1>3. ASSUME NEW n \in DOMAIN meeting.finals
      PROVE  /\ \A m \in 1 .. n - 1 : meeting.finals[m] < meeting.finals[n]
             /\ \A k \in 1 .. meeting.finals[n] : turns.items[k].delivered
    <2>1. n \in 1 .. Len(meeting.finals)
        BY <1>2
    <2>2. \A m \in 1 .. n - 1 : m \in 1 .. Len(meeting.finals) /\ m < n
        BY <1>2, <2>1
    <2>3. PICK k : k = meeting.finals[n]
        OBVIOUS
    <2>4. k \in Turns /\ turns.items[k].delivered
        BY <1>1, <1>2, <2>1, <2>3 DEF Heard
    <2>5. \A j \in 1 .. k : j \in Turns /\ (j = k \/ j < k)
        BY <2>4, TurnLedgerAssumption DEF Turns
    <2>6. \A j \in 1 .. k : turns.items[j].delivered
        BY <1>1, <2>4, <2>5 DEF Out
    <2> QED BY <1>1, <2>1, <2>2, <2>3, <2>6 DEF Heard
<1> QED BY <1>3 DEF FinalsInOrder

LEMMA InitLive ==
    ASSUME Init
    PROVE  Live
<1>1. NewItem \in ItemRows
    BY DEF NewItem, ItemRows, Unknown
<1>2. /\ turns \in Ledgers /\ turns.allocated = 0 /\ turns.intents = << >>
      /\ samples(turns) = 0 /\ \A k \in Turns : turns.items[k] = NewItem
    <2>1. << >> \in Seq(BOOLEAN) /\ << >> \in IntentLists
        BY DEF IntentLists
    <2> QED BY <1>1, <2>1 DEF Init, NewLedger, Ledgers, samples
<1>3. MaxTurns \in Nat /\ MaxFrames \in Nat
    BY TurnLedgerAssumption, LiveCaptureAssumption
<1>4. provider \in Providers /\ provider.heard = 0 /\ provider.from = 0
      /\ provider.ranges = << >> /\ provider.owing = {} /\ Len(provider.ranges) = 0
      /\ provider.stopped = 0
    BY DEF Init, Providers
<1>5. Hears(provider)
    BY <1>3, <1>4 DEF Hears, EndOf
<1>6. Owns(turns, provider, 0)
    <2>1. \A k \in Turns : OwnsItem(turns.items[k], provider, k, 0, turns.allocated)
        <3>1. \A k \in Turns : ~(k <= 0)
            BY <1>3 DEF Turns
        <3> QED BY <1>2, <3>1 DEF OwnsItem, NewItem, Transcripts
    <2>2. \A k \in Turns : turns.items[k].start = Unknown
        BY <1>2 DEF NewItem
    <2>3. EndOf(provider, 0) = 0
        BY DEF EndOf
    <2> QED BY <1>2, <1>4, <2>1, <2>2, <2>3 DEF Owns
<1>7. Told(turns, provider, down, 0)
    <2>1. down = << >> /\ Len(down) = 0 /\ down \in Seq(Messages)
        BY DEF Init
    <2> QED BY <1>4, <2>1 DEF Told
<1>8. Sends(turns, provider, up, 0)
    <2>1. up = << >> /\ Len(up) = 0 /\ up \in Seq(Requests)
        BY DEF Init
    <2> QED BY <1>4, <2>1 DEF Sends
<1>9. Answers(turns, provider, up, down, 0)
    <2>1. Len(down) = 0
        BY DEF Init
    <2> QED BY <1>4, <2>1 DEF Answers, Refuses
<1>10. Owing(client, turns, 0)
    BY DEF Init, Owing
<1>11. Sent(turns, loop.at) = 0
    BY <1>2 DEF Init, Sent
<1>12. At(0)
    <2>1. Said(provider) = provider /\ Due(provider, down) = down
        BY <1>4 DEF Said, Due
    <2> QED BY <1>5, <1>6, <1>7, <1>8, <1>9, <1>10, <1>11, <2>1 DEF At, Agree
<1>13. Values
    <2>1. mode \in Modes
        BY DEF Init
    <2>2. client \in Clients
        BY DEF Init, Clients
    <2>3. loop \in Loops
        BY DEF Init, Loops
    <2>4. meeting \in Meetings
        BY DEF Init, Meetings
    <2> QED BY <1>3, <1>11, <2>1, <2>2, <2>3, <2>4 DEF Values
<1>14. Out(turns, events)
    <2>1. events = << >> /\ Len(events) = 0 /\ events \in Seq(EventRows)
        BY DEF Init
    <2>2. \A k \in Turns : ~turns.items[k].emitted /\ ~turns.items[k].delivered
        BY <1>2 DEF NewItem
    <2> QED BY <2>1, <2>2 DEF Out
<1>15. Heard(turns, meeting.finals)
    <2>1. meeting.finals = << >> /\ Len(meeting.finals) = 0 /\ meeting.finals \in Seq(Turns)
        BY DEF Init
    <2> QED BY <2>1 DEF Heard
<1>16. Promises(provider) /\ down \in Seq(Messages)
    BY <1>4 DEF Promises, Init
<1> QED BY <1>5, <1>12, <1>13, <1>14, <1>15, <1>16 DEF Live

\* The capture goes on, or it ends and nothing changes any more of what the properties are about.
LEMMA CaptureStep ==
    ASSUME CaptureInd, [Next]_vars
    PROVE  CaptureInd'
<1>1. CASE UNCHANGED vars
    <2>1. UNCHANGED <<mode, turns, client, up, provider, down, events, loop, meeting>>
        BY <1>1 DEF vars
    <2>2. Live => Live'
        BY <2>1 DEF Live, Values, At
    <2>3. TurnsInv /\ FinalsInOrder => TurnsInv' /\ FinalsInOrder'
        BY <2>1 DEF TurnsInv, TypeOK, OwnedOnce, RangeIsTrue, FinalsInOrder
    <2>4. Capturing' = Capturing
        BY <2>1 DEF Capturing
    <2> QED BY <2>2, <2>3, <2>4 DEF CaptureInd
<1>2. CASE Next /\ ~Capturing
    BY <1>2 DEF Next, Capturing, Reader, ReadStarted, ReadStopped, ReadCommitted, ReadCompleted,
                ReadCommitEmpty, ReadError, Read, Loop, Provider, Frame, ExplicitCommit, Stop,
                BrowserGone, Expires, TopStops, TopEnds, TopWaits, TopBounds, Top, Idle, FrameSent,
                Final, Silence, PossibleGap, Event, Unsafe
<1>3. CASE Next /\ Capturing
    <2>1. Live
        BY <1>3 DEF CaptureInd
    <2>2. CASE Reader
        <3>1. Live'
            BY <2>1, <2>2, ReaderSteps
        <3>2. UNCHANGED loop
            BY <2>2 DEF Reader, ReadStarted, ReadStopped, ReadCommitted, ReadCompleted,
                        ReadCommitEmpty, ReadError, ReaderOnly
        <3> QED BY <1>3, <3>1, <3>2 DEF CaptureInd, Capturing
    <2>3. CASE Provider
        <3>1. Live'
            BY <2>1, <2>3, ProviderSteps
        <3>2. UNCHANGED loop
            BY <2>3 DEF Provider, HearFrame, HearCommit, SpeechStarts, SpeechStops, VadCommits,
                        Transcribes, Repeats, Breaks, Fault
        <3> QED BY <1>3, <3>1, <3>2 DEF CaptureInd, Capturing
    <2>4. CASE \/ TopStops \/ TopWaits \/ TopBounds \/ Idle \/ FrameSent
               \/ Final \/ Silence \/ PossibleGap \/ Frame \/ ExplicitCommit \/ Stop
        <3>1. Live'
            BY <2>1, <2>4, LoopSteps
        <3>2. loop \in Loops
            BY <2>1 DEF Live, Values
        <3>3. Capturing'
            BY <1>3, <2>4, <3>2 DEF TopStops, TopWaits, TopBounds, Idle, FrameSent, Final, Silence,
                   PossibleGap, Frame, ExplicitCommit, Stop, Wakes, Loops, Capturing
        <3> QED BY <3>1, <3>3 DEF CaptureInd
    <2>5. CASE Expires \/ TopEnds \/ Unsafe \/ BrowserGone
        <3>1. /\ UNCHANGED <<mode, client, provider, turns>>
              /\ loop' = [loop EXCEPT !.at = "over"]
            BY <2>5 DEF Expires, TopEnds, Unsafe, BrowserGone, Interrupted, Closes
        <3>2. loop \in Loops /\ meeting \in Meetings
            BY <2>1 DEF Live, Values
        <3>3. meeting'.finals = meeting.finals
            BY <2>5, <3>2 DEF Expires, TopEnds, Unsafe, BrowserGone, Interrupted, Marked, Meetings
        <3>4. loop' \in Loops /\ loop'.at = "over"
            BY <3>1, <3>2 DEF Loops
        <3>5. TypeOK /\ OwnedOnce /\ RangeIsTrue /\ FinalsInOrder
            BY <2>1, LiveTypeOK, LiveOwnedOnce, LiveRangeIsTrue, LiveFinalsInOrder
        <3>6. TypeOK'
            BY <3>1, <3>4, <3>5 DEF TypeOK, Loops
        <3>7. OwnedOnce' /\ RangeIsTrue' /\ FinalsInOrder'
            BY <3>1, <3>3, <3>5 DEF OwnedOnce, RangeIsTrue, FinalsInOrder
        <3> QED BY <3>4, <3>6, <3>7 DEF CaptureInd, Capturing, TurnsInv
    <2> QED BY <1>3, <2>2, <2>3, <2>4, <2>5 DEF Next, Loop
<1> QED BY <1>1, <1>2, <1>3

\* Whatever the reader, the loop, the provider and the browser do, the invariant holds.
THEOREM CaptureIndHolds == Spec => []CaptureInd
<1>1. Init => CaptureInd
    BY InitLive DEF CaptureInd, Capturing, Init
<1>2. CaptureInd /\ [Next]_vars => CaptureInd'
    BY CaptureStep
<1> QED BY <1>1, <1>2, PTL DEF Spec

\* Client, ledger and provider agree on which audio is whose: no stretch of it is given to two
\* items (TurnLedger of prototype/live_turns.py), and a transcript that the meeting took has
\* the range that the provider committed, for any number of frames and turns and every mode.
THEOREM TurnsInvHolds == Spec => []TurnsInv
<1>1. CaptureInd => TurnsInv
    BY LiveTypeOK, LiveOwnedOnce, LiveRangeIsTrue DEF CaptureInd, TurnsInv
<1> QED BY <1>1, CaptureIndHolds, PTL

\* Transcripts reach the meeting in the order in which they were spoken, each once, and none
\* is passed over (process_final and acknowledge of prototype/live_transport.py), although
\* the provider may finish them in any order and may repeat them.
THEOREM FinalsInOrderHolds == Spec => []FinalsInOrder
<1>1. CaptureInd => FinalsInOrder
    BY LiveFinalsInOrder DEF CaptureInd
<1> QED BY <1>1, CaptureIndHolds, PTL
=============================================================================
