--------------------------- MODULE BeeChunkStream ---------------------------
(***************************************************************************)
(* The pipelined chunk uploader of the era package                         *)
(* (packages/era/src/swarm-ws.ts, class BeeChunkStream) on an open socket. *)
(*                                                                         *)
(* Every call of sendChunkData is a process with a chunk of its own, so a  *)
(* call stands for its chunk too.  JavaScript runs the continuations of    *)
(* awaits (`micro`, first in first out) before it looks at the next event: *)
(* a message, a close, a timer.  Callers may call at any time.             *)
(*                                                                         *)
(* The other end of the socket, a Bee node or the proxy in front of one,   *)
(* is the acknowledged stream of AckedStream, which WsProxy implements,    *)
(* except that it may also skip a chunk or answer it with an error.        *)
(***************************************************************************)
EXTENDS Integers, SequencesExt

CONSTANTS
  Call,         \* the calls of sendChunkData
  MaxInFlight   \* opts.maxInFlight

ASSUME BeeChunkStreamAssumption == MaxInFlight \in Nat \ {0}

VARIABLES
  pc,         \* where each call is
  pending,    \* calls sent and not acknowledged
  queued,     \* calls waiting for a slot
  micro,      \* calls whose continuation is due
  closed,     \* close() was called or the socket has closed
  error,      \* error # null
  watchdog,   \* the interval timer runs
  closing,    \* close() is polling for the pending acks
  socket,     \* readyState
  unsent,     \* calls whose ws.send() callback will report an error
  sent,       \* chunks given to the socket, in order
  acks,       \* acks sent by the server
  got,        \* acks received
  stored      \* chunks the server has stored

streamVars == <<pending, queued, micro, closed, error, watchdog, closing>>
socketVars == <<socket, unsent, got>>
serverVars == <<sent, acks, stored>>
vars == <<pc, streamVars, socketVars, serverVars>>

\* The server is an acknowledged stream.
Server == INSTANCE AckedStream WITH Payload <- Call, frames <- sent, open <- (socket = "open")

States == {"idle", "queued", "woken", "admitted", "sent", "resolved", "rejected"}

TypeOK ==
  /\ pc \in [Call -> States]
  /\ pending \in Seq(Call)
  /\ queued \in Seq(Call)
  /\ micro \in Seq(Call)
  /\ closed \in BOOLEAN
  /\ error \in BOOLEAN
  /\ watchdog \in BOOLEAN
  /\ closing \in BOOLEAN
  /\ socket \in {"open", "closing", "closed"}
  /\ unsent \subseteq Call
  /\ sent \in Seq(Call)
  /\ acks \in Nat
  /\ got \in 0..acks
  /\ stored \subseteq Call

Init ==
  /\ pc = [c \in Call |-> "idle"]
  /\ pending = <<>>
  /\ queued = <<>>
  /\ micro = <<>>
  /\ closed = FALSE
  /\ error = FALSE
  /\ watchdog = TRUE
  /\ closing = FALSE
  /\ socket = "open"
  /\ unsent = {}
  /\ got = 0
  /\ Server!Init

-----------------------------------------------------------------------------
(* Settling calls and waking waiters.                                      *)

\* The calls of S, where they are still waiting for a result, get one.
Settled(p, S, outcome) == [c \in Call |-> IF c \in S /\ p[c] = "sent" THEN outcome ELSE p[c]]
Woken(p, S) == [c \in Call |-> IF c \in S THEN "woken" ELSE p[c]]

\* releaseSlot(): the first waiter may look again.
ReleaseSlot(p) ==
  IF queued = <<>>
  THEN /\ pc' = p
       /\ UNCHANGED <<queued, micro>>
  ELSE /\ pc' = Woken(p, {Head(queued)})
       /\ queued' = Tail(queued)
       /\ micro' = Append(micro, Head(queued))

\* releaseAllSlots()
ReleaseAllSlots(p) ==
  /\ pc' = Woken(p, ToSet(queued))
  /\ queued' = <<>>
  /\ micro' = micro \o queued

\* fail(): the first error is kept and settles everything that is pending.
Fail ==
  IF error
  THEN UNCHANGED <<pc, pending, queued, micro, error, watchdog>>
  ELSE /\ error' = TRUE
       /\ watchdog' = FALSE
       /\ pending' = <<>>
       /\ ReleaseAllSlots(Settled(pc, ToSet(pending), "rejected"))

-----------------------------------------------------------------------------
(* sendChunkData().                                                        *)

\* The condition of the loop in waitForSlot().
MustWait == Len(pending) >= MaxInFlight /\ ~error /\ ~closed

\* The call runs up to its first await: in the queue, or on the way out of
\* waitForSlot().
SendChunkData(c) ==
  /\ pc[c] = "idle"
  /\ IF MustWait
     THEN /\ pc' = [pc EXCEPT ![c] = "queued"]
          /\ queued' = Append(queued, c)
          /\ UNCHANGED micro
     ELSE /\ pc' = [pc EXCEPT ![c] = "admitted"]
          /\ micro' = Append(micro, c)
          /\ UNCHANGED queued
  /\ UNCHANGED <<pending, closed, error, watchdog, closing, socketVars, serverVars>>

\* A waiter that was woken looks at the condition again.
WaitForSlot(c) ==
  /\ pc[c] = "woken"
  /\ IF MustWait
     THEN /\ pc' = [pc EXCEPT ![c] = "queued"]
          /\ queued' = Append(queued, c)
          /\ micro' = Tail(micro)
     ELSE /\ pc' = [pc EXCEPT ![c] = "admitted"]
          /\ micro' = Append(Tail(micro), c)
          /\ UNCHANGED queued
  /\ UNCHANGED <<pending, closed, error, watchdog, closing, socketVars, serverVars>>

\* The rest of sendChunkData(), after the await: MustWait is not looked at
\* again.  A socket that is not open takes no frame and reports an error.
PushAndSend(c) ==
  /\ pc[c] = "admitted"
  /\ micro' = Tail(micro)
  /\ UNCHANGED <<queued, closed, error, watchdog, closing, socket, got>>
  /\ IF error \/ closed
     THEN /\ pc' = [pc EXCEPT ![c] = "rejected"]
          /\ UNCHANGED <<pending, unsent, serverVars>>
     ELSE /\ pc' = [pc EXCEPT ![c] = "sent"]
          /\ pending' = Append(pending, c)
          /\ IF socket = "open"
             THEN Server!Submit(c) /\ UNCHANGED unsent
             ELSE unsent' = unsent \cup {c} /\ UNCHANGED serverVars

\* The continuation that is due runs.
Continuation ==
  /\ micro # <<>>
  /\ WaitForSlot(Head(micro)) \/ PushAndSend(Head(micro))

-----------------------------------------------------------------------------
(* Events: handled when no continuation is due.                            *)

Event == micro = <<>>

\* The callback of ws.send() with an error takes the call out of pending, if
\* it is still there.
SendFails(c) ==
  /\ Event
  /\ c \in unsent
  /\ unsent' = unsent \ {c}
  /\ pending' = RemoveFirst(pending, c)
  /\ pc' = Settled(pc, {c}, "rejected")
  /\ UNCHANGED <<queued, micro, closed, error, watchdog, closing, socket, got, serverVars>>

\* Mutant: the ack goes to the chunk sent last.
OnAckLast ==
  /\ Event
  /\ socket # "closed"
  /\ got < acks
  /\ got' = got + 1
  /\ IF pending = <<>>
     THEN Fail
     ELSE /\ pending' = SubSeq(pending, 1, Len(pending) - 1)
          /\ ReleaseSlot(Settled(pc, {pending[Len(pending)]}, "resolved"))
          /\ UNCHANGED <<error, watchdog>>
  /\ UNCHANGED <<closed, closing, socket, unsent, serverVars>>

\* Mutant: nobody is told that a slot is free.
OnAckNoRelease ==
  /\ Event
  /\ socket # "closed"
  /\ got < acks
  /\ got' = got + 1
  /\ IF pending = <<>>
     THEN Fail
     ELSE /\ pending' = Tail(pending)
          /\ pc' = Settled(pc, {Head(pending)}, "resolved")
          /\ UNCHANGED <<queued, micro, error, watchdog>>
  /\ UNCHANGED <<closed, closing, socket, unsent, serverVars>>

\* A binary frame acknowledges the oldest pending chunk.
OnAck ==
  /\ Event
  /\ socket # "closed"
  /\ got < acks
  /\ got' = got + 1
  /\ IF pending = <<>>
     THEN Fail
     ELSE /\ pending' = Tail(pending)
          /\ ReleaseSlot(Settled(pc, {Head(pending)}, "resolved"))
          /\ UNCHANGED <<error, watchdog>>
  /\ UNCHANGED <<closed, closing, socket, unsent, serverVars>>

\* A text frame fails the stream.
OnErrorFrame ==
  /\ Event
  /\ socket # "closed"
  /\ sent # <<>>
  /\ Fail
  /\ UNCHANGED <<closed, closing, socketVars, serverVars>>

\* The oldest pending chunk has waited for longer than ackTimeoutMs.  Time is
\* not modelled: a slow server is a server that did not answer yet.
Watchdog ==
  /\ Event
  /\ watchdog
  /\ pending # <<>>
  /\ Fail
  /\ UNCHANGED <<closed, closing, socketVars, serverVars>>

\* The connection breaks.  Frames the server has not acknowledged may turn out
\* not to have left the socket, the last ones first.
SocketBreaks ==
  /\ socket = "open"
  /\ socket' = "closing"
  /\ \E n \in acks..Len(sent) : unsent' = {sent[i] : i \in (n + 1)..Len(sent)}
  /\ UNCHANGED <<pc, streamVars, got, serverVars>>

\* The error event, which a close event follows.
OnError ==
  /\ Event
  /\ socket = "closing"
  /\ Fail
  /\ UNCHANGED <<closed, closing, socketVars, serverVars>>

\* Mutant: waiters are left waiting when the socket closes.
OnCloseNoRelease ==
  /\ Event
  /\ socket = "closing"
  /\ socket' = "closed"
  /\ closed' = TRUE
  /\ IF pending # <<>>
     THEN Fail
     ELSE UNCHANGED <<pc, pending, queued, micro, error, watchdog>>
  /\ UNCHANGED <<closing, unsent, got, serverVars>>

\* The close event.  What is in flight is lost.
OnClose ==
  /\ Event
  /\ socket = "closing"
  /\ socket' = "closed"
  /\ closed' = TRUE
  /\ IF pending # <<>>
     THEN Fail
     ELSE /\ ReleaseAllSlots(pc)
          /\ UNCHANGED <<pending, error, watchdog>>
  /\ UNCHANGED <<closing, unsent, got, serverVars>>

-----------------------------------------------------------------------------
(* close().                                                                *)

\* The condition of its polling loop.
MustDrain == pending # <<>> /\ ~error /\ socket = "open"

\* What follows the loop.
CloseSocket ==
  /\ watchdog' = FALSE
  /\ socket' = IF socket = "open" THEN "closing" ELSE socket

Close ==
  /\ ~closed
  /\ closed' = TRUE
  /\ IF MustDrain
     THEN closing' = TRUE /\ UNCHANGED <<watchdog, socket>>
     ELSE CloseSocket /\ UNCHANGED closing
  /\ UNCHANGED <<pc, pending, queued, micro, error, unsent, got, serverVars>>

\* The poll that finds nothing left to wait for.
CloseDrained ==
  /\ Event
  /\ closing
  /\ ~MustDrain
  /\ closing' = FALSE
  /\ CloseSocket
  /\ UNCHANGED <<pc, pending, queued, micro, closed, error, unsent, got, serverVars>>

-----------------------------------------------------------------------------
(* The server.                                                             *)

ServerStores == UNCHANGED <<pc, streamVars, socketVars>> /\ Server!Store

ServerAcks == UNCHANGED <<pc, streamVars, socketVars>> /\ Server!Acknowledge

\* A chunk is dropped without a word: the next ack is about a later one.
ServerSkips ==
  /\ socket = "open"
  /\ acks < Cardinality({i \in DOMAIN sent : sent[i] \in stored})
  /\ acks' = acks + 1
  /\ UNCHANGED <<pc, streamVars, socketVars, sent, stored>>

-----------------------------------------------------------------------------
Next ==
  \/ \E c \in Call : SendChunkData(c) \/ SendFails(c)
  \/ Continuation
  \/ OnAck \/ OnErrorFrame \/ Watchdog
  \/ SocketBreaks \/ OnError \/ OnClose
  \/ Close \/ CloseDrained
  \/ ServerStores \/ ServerAcks \/ ServerSkips

Spec == Init /\ [][Next]_vars

\* Continuations run, events are handled, the timers fire and a socket that is
\* closing closes.  Nothing is asked of the server and of the callers.
Fairness ==
  /\ WF_vars(Continuation)
  /\ WF_vars(Watchdog)
  /\ WF_vars(OnClose)
  /\ WF_vars(CloseDrained)
  /\ \A c \in Call : WF_vars(SendFails(c))

FairSpec == Spec /\ Fairness

-----------------------------------------------------------------------------
(* Properties.                                                             *)

\* A caller that was told its chunk is uploaded finds it on the server, as
\* long as the server's n-th ack stands for its n-th chunk: no ack goes to the
\* wrong call, whichever sends fail (swarm-ws.ts:7-8, 105-106).
ResolvedStored ==
  (\A i \in 1..acks : sent[i] \in stored) => \A c \in Call : pc[c] = "resolved" => c \in stored

\* No promise is forgotten: a call that is under way is in exactly one of the
\* lists from which it can be settled, once.
NoCallLost ==
  \A c \in Call :
    LET in(s) == Cardinality({i \in DOMAIN s : s[i] = c})
    IN  /\ in(queued) = (IF pc[c] = "queued" THEN 1 ELSE 0)
        /\ in(micro) = (IF pc[c] \in {"woken", "admitted"} THEN 1 ELSE 0)
        /\ in(pending) = (IF pc[c] = "sent" THEN 1 ELSE 0)

\* No wake-up is lost: somebody who waits for a slot is woken by an ack still
\* to come, by a failure, or by the close event of a socket going down.
NoWaiterForgotten ==
  queued # <<>> =>
    /\ ~error
    /\ socket # "closed"
    /\ pending # <<>> \/ micro # <<>> \/ closing \/ socket = "closing"

\* Between any two events, every call that is under way is in one list, where
\* something will settle it or wake it (the lists of BeeChunkStream).
CallsTracked == TypeOK /\ NoCallLost /\ NoWaiterForgotten

\* The inductive invariant behind them, in three parts.  What lists what: every
\* list holds the calls of its states, each once.
Lists(s, S) == ToSet(s) = S /\ IsInjective(s)
In(states)  == {c \in Call : pc[c] \in states}

ListsKept ==
  /\ Lists(queued, In({"queued"}))
  /\ Lists(micro, In({"woken", "admitted"}))
  /\ Lists(pending, In({"sent"}))

\* What is over when the stream has failed or the socket goes down.
EndsKept ==
  /\ error => pending = <<>>
  /\ socket = "closed" => closed /\ queued = <<>>
  /\ closed => closing \/ socket # "open"
  /\ unsent # {} => socket # "open"

\* The calls pending are those of the frames not acknowledged, in their order,
\* as far as acks are still to come.
AcksKept ==
  /\ acks <= Len(sent) /\ IsInjective(sent)
  /\ ToSet(sent) \subseteq In({"sent", "resolved", "rejected"})
  /\ \A i \in 1..acks : sent[i] \notin unsent
  /\ \A c \in In({"resolved"}) : \E i \in 1..got : sent[i] = c
  /\ ~error /\ socket # "closed" =>
       \A i \in 1..(acks - got) : i <= Len(pending) /\ pending[i] = sent[got + i]
  /\ ~error /\ socket = "open" =>
       /\ Len(pending) = Len(sent) - got
       /\ \A i \in 1..Len(pending) : pending[i] = sent[got + i]

StreamInv == TypeOK /\ ListsKept /\ EndsKept /\ NoWaiterForgotten /\ AcksKept

\* A call comes to an end, whatever the server does.
EveryCallSettles == \A c \in Call : pc[c] # "idle" ~> pc[c] \in {"resolved", "rejected"}
=============================================================================
