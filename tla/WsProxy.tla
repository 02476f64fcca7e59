------------------------------ MODULE WsProxy ------------------------------
(***************************************************************************)
(* One session of the WebSocket proxy in front of Bee's /chunks/stream     *)
(* (packages/proxy/src/ws-proxy.ts, runWsSession).                         *)
(*                                                                         *)
(* The code keeps a FIFO `queue` of entries which it pushes at the tail    *)
(* and shifts at the head.  Here the queue is immutable: `frames` holds    *)
(* the payload and `state` the state of every frame the client ever sent,  *)
(* and `head` is the number of the first frame still queued, so that       *)
(* queue[k] of the code is frame head + k.                                 *)
(*                                                                         *)
(* Bee is not part of the repository.  It is modelled from how the code    *)
(* uses it: frames travel to it in send order (`wire`), it stores a chunk  *)
(* and answers with an empty binary frame, in order (`replies`).  Faults   *)
(* says how it may deviate: "silent" drops a chunk without any answer      *)
(* (swarm-ws.ts, ackTimeoutMs), "reject" answers with a text frame.        *)
(***************************************************************************)
EXTENDS Naturals, Sequences, FiniteSets

CONSTANTS
  Payload,      \* the chunks a client may send
  Faults,       \* how Bee may fail to acknowledge: a subset of BeeFault
  MaxWsAttempts,  \* MAX_WS_ATTEMPTS, the attempts of one connect()
  MaxFrames,    \* bound: frames the client sends in the session
  MaxDrops      \* bound: how often an upstream connection goes down

BeeFault == {"silent", "reject"}

ASSUME WsProxyAssumption ==
  /\ Faults \subseteq BeeFault
  /\ MaxWsAttempts \in Nat \ {0}
  /\ MaxFrames \in Nat
  /\ MaxDrops \in Nat

VARIABLES
  canCache,   \* a cache is configured and the client sent a batch id
  client,     \* readyState of clientWs; "closed" is clientClosed
  frames,     \* payloads of the binary frames received from the client
  state,      \* the EntryState of each of them
  head,       \* number of the first frame still in the queue
  acks,       \* empty acks sent to the client
  idleArmed,  \* idleTimer is running
  upstream,   \* upstreamWs and its readyState
  connector,  \* where the connect() coroutine is
  attempt,    \* its attempt counter
  wire,       \* frames on their way to Bee on the current connection
  replies,    \* answers on their way from Bee, with the frame they are about
  cache,      \* payloads with a row in the upload cache for this batch
  stored,     \* payloads Bee has stored
  drops       \* upstream connections lost so far

clientVars   == <<canCache, client, idleArmed>>
queueVars    == <<frames, state, head, acks, cache>>
upstreamVars == <<upstream, connector, attempt, drops>>
beeVars      == <<wire, replies, stored>>
vars == <<clientVars, queueVars, upstreamVars, beeVars>>

EntryState == {"hit", "miss-pending", "miss-sent", "miss-acked"}
Resolved   == {"hit", "miss-acked"}
Connected  == {"open", "closing"}
Reply      == [kind : {"ack", "error"}, frame : Nat \ {0}]

TypeOK ==
  /\ canCache \in BOOLEAN
  /\ client \in {"open", "closing", "closed"}
  /\ frames \in Seq(Payload)
  /\ state \in Seq(EntryState)
  /\ Len(state) = Len(frames)
  /\ head \in 1..(Len(frames) + 1)
  /\ acks \in Nat
  /\ idleArmed \in BOOLEAN
  /\ upstream \in {"null", "open", "closing", "closed"}
  /\ connector \in {"idle", "opening", "sleeping"}
  /\ attempt \in 1..MaxWsAttempts
  /\ wire \in Seq(Nat \ {0})
  /\ replies \in Seq(Reply)
  /\ cache \subseteq Payload
  /\ stored \subseteq Payload
  /\ drops \in Nat

\* A session starts with the cache earlier sessions left: rows of chunks Bee
\* acknowledged then.  runWsSession arms the idle timer and calls connect().
Init ==
  /\ canCache \in BOOLEAN
  /\ client = "open"
  /\ frames = <<>>
  /\ state = <<>>
  /\ head = 1
  /\ acks = 0
  /\ idleArmed = TRUE
  /\ upstream = "null"
  /\ connector = "opening"
  /\ attempt = 1
  /\ wire = <<>>
  /\ replies = <<>>
  /\ stored \in SUBSET Payload
  /\ cache \in SUBSET stored
  /\ drops = 0

-----------------------------------------------------------------------------
(* The queue.                                                              *)

\* The frames numbered from..Len(st) of which st says they are in state s.
InState(st, from, s) == {i \in from..Len(st) : st[i] = s}

\* Mutant: the states are not brought up to date.
RelabelForgotten(st, old, new) == st

\* Every entry in state old is put in state new.  No shifted entry is in a
\* state this is used for.
Relabel(st, old, new) == [i \in DOMAIN st |-> IF st[i] = old THEN new ELSE st[i]]

\* drain() stops in front of entry n when every entry it shifted is resolved
\* and entry n, if there is one, is not.
DrainsTo(st, n) ==
  /\ n \in head..(Len(st) + 1)
  /\ \A i \in head..(n - 1) : st[i] \in Resolved
  /\ n <= Len(st) => st[n] \notin Resolved

\* The misses among the entries head..n-1 get a row in the cache.
StoreShifted(f, st, n) ==
  cache' = IF canCache
           THEN cache \cup {f[i] : i \in {j \in head..(n - 1) : st[j] = "miss-acked"}}
           ELSE cache

\* Mutant: acks are sent without a look at the client's readyState.
DrainToAnyClient(f, st, n) ==
  /\ DrainsTo(st, n)
  /\ head' = n
  /\ StoreShifted(f, st, n)
  /\ acks' = acks + (n - head)

\* Mutant: one ack for all the entries a drain() shifts.
DrainToOneAck(f, st, n) ==
  /\ DrainsTo(st, n)
  /\ head' = n
  /\ StoreShifted(f, st, n)
  /\ acks' = IF client = "open" /\ n > head THEN acks + 1 ELSE acks

\* drain() on the frames f with states st: shifted misses enter the cache and
\* each shifted entry is acknowledged to a client that is still open.
DrainTo(f, st, n) ==
  /\ DrainsTo(st, n)
  /\ head' = n
  /\ StoreShifted(f, st, n)
  /\ acks' = IF client = "open" THEN acks + (n - head) ELSE acks

\* Mutant: replay in the opposite order.
InReverseOrder(w, S) ==
  /\ w \in [1..Cardinality(S) -> S]
  /\ \A i, j \in DOMAIN w : i < j => w[i] > w[j]

\* w lists the frame numbers of S, each once, in queue order.
InQueueOrder(w, S) ==
  /\ w \in [1..Cardinality(S) -> S]
  /\ \A i, j \in DOMAIN w : i < j => w[i] < w[j]
  /\ \A m \in S : \E i \in DOMAIN w : w[i] = m

-----------------------------------------------------------------------------
(* Messages from the client.                                               *)

\* A binary frame with payload p.  A cache hit is queued as resolved; a miss
\* goes out at once if upstream is open and waits for connect() otherwise.
OnClientMessage(p) ==
  LET f == Append(frames, p)
  IN  /\ client # "closed"
      /\ Len(frames) < MaxFrames
      /\ frames' = f
      /\ idleArmed' = TRUE
      /\ \/ /\ canCache /\ p \in cache
            /\ LET st == Append(state, "hit")
               IN  /\ state' = st
                   /\ \E n \in head..(Len(f) + 1) : DrainTo(f, st, n)
            /\ UNCHANGED wire
         \/ /\ ~(canCache /\ p \in cache)
            /\ IF upstream = "open"
               THEN /\ state' = Append(state, "miss-sent")
                    /\ wire' = Append(wire, Len(f))
               ELSE /\ state' = Append(state, "miss-pending")
                    /\ UNCHANGED wire
            /\ UNCHANGED <<head, cache, acks>>
      /\ UNCHANGED <<canCache, client, upstreamVars, replies, stored>>

\* A text frame is passed on if upstream is open, and is not queued.  What
\* Bee does with one is outside this repository.
OnClientText ==
  /\ client # "closed"
  /\ idleArmed' = TRUE
  /\ UNCHANGED <<canCache, client, queueVars, upstreamVars, beeVars>>

-----------------------------------------------------------------------------
(* Messages from Bee.                                                      *)

\* entry = queue.find(e => e.state === 'miss-sent')
FirstSent(i) ==
  /\ i \in InState(state, head, "miss-sent")
  /\ \A j \in InState(state, head, "miss-sent") : i <= j

\* A binary frame acknowledges the first miss sent; whatever that resolves
\* at the head of the queue is drained.
OnAck ==
  \/ \E i \in head..Len(frames) :
       /\ FirstSent(i)
       /\ LET st == [state EXCEPT ![i] = "miss-acked"]
          IN  /\ state' = st
              /\ \E n \in head..(Len(frames) + 1) : DrainTo(frames, st, n)
       /\ UNCHANGED frames
  \/ /\ InState(state, head, "miss-sent") = {}
     /\ UNCHANGED queueVars

\* A text frame is forwarded at once, and changes nothing in the queue.
OnText == UNCHANGED queueVars

\* The answers are delivered in order.  bumpIdle() re-arms the idle timer
\* unless the client has gone.
OnUpstreamMessage ==
  /\ upstream \in Connected
  /\ replies # <<>>
  /\ replies' = Tail(replies)
  /\ idleArmed' = (client # "closed")
  /\ IF Head(replies).kind = "ack" THEN OnAck ELSE OnText
  /\ UNCHANGED <<canCache, client, upstreamVars, wire, stored>>

-----------------------------------------------------------------------------
(* The upstream connection: connect() and onUpstreamClose().               *)

\* clientWs.close(), a no-op unless the socket is open.
CloseClient == client' = IF client = "open" THEN "closing" ELSE client

\* The socket opened: adopt it and replay every pending miss in queue order.
\* The code does not look at clientClosed again after the await.
ConnectOpen ==
  /\ connector = "opening"
  /\ connector' = "idle"
  /\ upstream' = "open"
  /\ LET pending == InState(state, head, "miss-pending")
     IN  \E w \in [1..Cardinality(pending) -> pending] :
           /\ InQueueOrder(w, pending)
           /\ wire' = w
  /\ state' = Relabel(state, "miss-pending", "miss-sent")
  /\ UNCHANGED <<clientVars, frames, head, acks, cache, attempt, drops, replies, stored>>

\* Mutant: connect() gives up and leaves the client waiting.
ConnectFailQuietly ==
  /\ connector = "opening"
  /\ connector' = IF attempt >= MaxWsAttempts THEN "idle" ELSE "sleeping"
  /\ UNCHANGED <<clientVars, queueVars, upstream, attempt, drops, beeVars>>

\* The attempt failed: give up and close the client after the last one, sleep
\* before the next one otherwise.
ConnectFail ==
  /\ connector = "opening"
  /\ IF attempt >= MaxWsAttempts
     THEN connector' = "idle" /\ CloseClient
     ELSE connector' = "sleeping" /\ UNCHANGED client
  /\ UNCHANGED <<canCache, idleArmed, queueVars, upstream, attempt, drops, beeVars>>

\* The back-off is over; the loop ends if the client has gone meanwhile.
ConnectWake ==
  /\ connector = "sleeping"
  /\ IF client = "closed"
     THEN connector' = "idle" /\ UNCHANGED attempt
     ELSE connector' = "opening" /\ attempt' = attempt + 1
  /\ UNCHANGED <<clientVars, queueVars, upstream, drops, beeVars>>

\* Bee or the network starts to close the connection: readyState leaves OPEN
\* before the close event, and frames in flight may still be handled.
UpstreamCloses ==
  /\ upstream = "open"
  /\ drops < MaxDrops
  /\ upstream' = "closing"
  /\ drops' = drops + 1
  /\ UNCHANGED <<clientVars, queueVars, connector, attempt, beeVars>>

\* The close event.  What was in flight is lost.  After the client has gone
\* nothing is cleaned up; an empty queue ends the session; otherwise the
\* unacknowledged frames are marked for replay and connect() starts over.
OnUpstreamClose ==
  /\ upstream = "closing"
  /\ wire' = <<>>
  /\ replies' = <<>>
  /\ \/ /\ client = "closed"
        /\ upstream' = "closed"
        /\ UNCHANGED <<client, state, head, acks, cache, connector, attempt>>
     \/ /\ client # "closed"
        /\ upstream' = "null"
        /\ \E n \in head..(Len(frames) + 1) : DrainTo(frames, state, n)
        /\ IF head' > Len(frames)
           THEN /\ CloseClient
                /\ UNCHANGED <<state, connector, attempt>>
           ELSE /\ state' = Relabel(state, "miss-sent", "miss-pending")
                /\ connector' = "opening"
                /\ attempt' = 1
                /\ UNCHANGED client
  /\ UNCHANGED <<canCache, idleArmed, frames, stored, drops>>

-----------------------------------------------------------------------------
(* The end of the session.                                                 *)

\* The client starts a close, or its socket fails.
ClientCloses ==
  /\ client = "open"
  /\ client' = "closing"
  /\ UNCHANGED <<canCache, idleArmed, queueVars, upstreamVars, beeVars>>

\* The close event of the client: stop the timer and close the connection
\* upstreamWs refers to, if there is one.
OnClientClose ==
  /\ client = "closing"
  /\ client' = "closed"
  /\ idleArmed' = FALSE
  /\ upstream' = IF upstream = "open" THEN "closing" ELSE upstream
  /\ UNCHANGED <<canCache, queueVars, connector, attempt, drops, beeVars>>

\* IDLE_TIMEOUT_MS without a frame from either side.
IdleTimeout ==
  /\ idleArmed
  /\ idleArmed' = FALSE
  /\ CloseClient
  /\ UNCHANGED <<canCache, queueVars, upstreamVars, beeVars>>

-----------------------------------------------------------------------------
(* Bee (external).                                                         *)

\* Bee stores the next chunk and acknowledges it.
BeeStores ==
  /\ upstream \in Connected
  /\ wire # <<>>
  /\ wire' = Tail(wire)
  /\ stored' = stored \cup {frames[Head(wire)]}
  /\ replies' = Append(replies, [kind |-> "ack", frame |-> Head(wire)])
  /\ UNCHANGED <<clientVars, queueVars, upstreamVars>>

\* Bee drops the next chunk without a word.
BeeDropsSilently ==
  /\ "silent" \in Faults
  /\ upstream \in Connected
  /\ wire # <<>>
  /\ wire' = Tail(wire)
  /\ UNCHANGED <<clientVars, queueVars, upstreamVars, replies, stored>>

\* Bee refuses the next chunk with a text frame instead of an ack.
BeeRejects ==
  /\ "reject" \in Faults
  /\ upstream \in Connected
  /\ wire # <<>>
  /\ wire' = Tail(wire)
  /\ replies' = Append(replies, [kind |-> "error", frame |-> Head(wire)])
  /\ UNCHANGED <<clientVars, queueVars, upstreamVars, stored>>

-----------------------------------------------------------------------------
Next ==
  \/ \E p \in Payload : OnClientMessage(p)
  \/ OnClientText
  \/ OnUpstreamMessage
  \/ ConnectOpen \/ ConnectFail \/ ConnectWake
  \/ UpstreamCloses \/ OnUpstreamClose
  \/ ClientCloses \/ OnClientClose \/ IdleTimeout
  \/ BeeStores \/ BeeDropsSilently \/ BeeRejects

Spec == Init /\ [][Next]_vars

\* Event handlers run, timers fire, a connection attempt ends and Bee works
\* off what it received.  Nothing forces the client to send or to leave, a
\* connection to go down, Bee to fail, or the idle timer to win a race.
Fairness ==
  /\ WF_vars(OnUpstreamMessage)
  /\ WF_vars(ConnectOpen \/ ConnectFail)
  /\ WF_vars(ConnectWake)
  /\ WF_vars(OnUpstreamClose)
  /\ WF_vars(OnClientClose)
  /\ WF_vars(BeeStores)

FairSpec == Spec /\ Fairness

-----------------------------------------------------------------------------
(* Properties of a Bee that acknowledges every chunk it is sent (Faults = {}). *)

\* The client, which pairs the n-th ack with its n-th frame, is never told a
\* chunk is uploaded that Bee does not hold: no ack overtakes an unacked miss,
\* is sent twice, or is lost across reconnects and replays (ws-proxy.ts:3-9).
AckedFramesStored == \A i \in 1..acks : i \in DOMAIN frames /\ frames[i] \in stored

\* A chunk in the cache is at Bee, so that answering a later upload of it
\* without a round trip is safe (ws-proxy.ts:5-7, drain).
CacheSound == cache \subseteq stored

\* The frames marked miss-sent are exactly those Bee or the connection still
\* holds, and the next answer is about the first of them: what makes
\* queue.find(state === 'miss-sent') the right entry (ws-proxy.ts:124-125).
InFlight == {replies[k].frame : k \in DOMAIN replies} \cup {wire[k] : k \in DOMAIN wire}
AcksAligned ==
  upstream \in Connected =>
    /\ InState(state, head, "miss-sent") = InFlight
    /\ replies # <<>> => FirstSent(Head(replies).frame)

-----------------------------------------------------------------------------
(* Properties that hold whatever Bee does.                                 *)

\* An ack of Bee is never held back: when a handler returns, no acknowledged
\* miss is in the queue and its first entry is unresolved.  It is why a text
\* frame forwarded at once does not overtake an ack.
NoAckHeldBack ==
  /\ InState(state, head, "miss-acked") = {}
  /\ head <= Len(state) => state[head] \notin Resolved

\* An open client has been sent exactly one ack for each frame that left the
\* queue, whatever number of times the frame was replayed.
OneAckPerFrame ==
  /\ acks <= head - 1
  /\ client = "open" => acks = head - 1

\* A client that is still open is being served: the idle timer watches it and
\* there is an upstream connection or a connect() that will end in one or in
\* closing the client (ws-proxy.ts:13-16).
NoZombieSession ==
  client = "open" => /\ idleArmed
                     /\ upstream \in Connected \/ connector # "idle"

\* At most one upstream connection: connect() runs only while there is none,
\* and nothing is marked as sent, or in flight, without one.
OneUpstream ==
  /\ connector # "idle" => upstream = "null"
  /\ upstream = "null" => InState(state, head, "miss-sent") = {}
  /\ upstream = "open" => InState(state, head, "miss-pending") = {}

-----------------------------------------------------------------------------
(* What the comments claim and the code does not do.                       *)

\* "closed so stale WS connections don't pile up" (ws-proxy.ts:15-16): when the
\* client has gone, the session does not keep a connection to Bee open for ever.
NoOrphanUpstream == client = "closed" ~> upstream # "open"

-----------------------------------------------------------------------------
(* Liveness.                                                               *)

\* Every frame is eventually acknowledged as long as the client stays, if the
\* upstream connection does not keep going down (FairSpec, Faults = {}).
EveryFrameAcked ==
  \A n \in 1..MaxFrames : (Len(frames) >= n) ~> (acks >= n \/ client # "open")

-----------------------------------------------------------------------------
(* Inductive invariants.                                                   *)

\* What TypeOK needs to be preserved: frames in flight exist, and a retry that
\* is slept for is still allowed.
TypeInv ==
  /\ TypeOK
  /\ \A k \in DOMAIN wire : wire[k] \in DOMAIN frames
  /\ connector = "sleeping" => attempt < MaxWsAttempts
  /\ connector # "idle" => upstream = "null"

\* The frames in flight, answers first, are in increasing order.
InFlightSorted ==
  /\ \A j, k \in DOMAIN wire : j < k => wire[j] < wire[k]
  /\ \A j, k \in DOMAIN replies : j < k => replies[j].frame < replies[k].frame
  /\ \A j \in DOMAIN replies, k \in DOMAIN wire : replies[j].frame < wire[k]

\* Only resolved frames have left the queue.
ShiftedResolved == \A i \in 1..(head - 1) : state[i] \in Resolved

\* A frame that is settled is at Bee, and so is one an ack is under way for.
SettledStored == \A i \in DOMAIN state : state[i] \in Resolved => frames[i] \in stored
AnswersStored ==
  \A k \in DOMAIN replies : /\ replies[k].kind = "ack"
                            /\ replies[k].frame \in DOMAIN frames
                            /\ frames[replies[k].frame] \in stored

\* The frames marked miss-sent are those in flight.
SentInFlight ==
  /\ upstream \in Connected => \A i \in DOMAIN state : state[i] = "miss-sent" <=> i \in InFlight
  /\ upstream \notin Connected => wire = <<>> /\ replies = <<>>
  /\ upstream = "null" => \A i \in DOMAIN state : state[i] # "miss-sent"

\* What AckedFramesStored, CacheSound and AcksAligned need, with a Bee that
\* answers every chunk with an ack.
SafeInv ==
  /\ TypeInv
  /\ OneAckPerFrame
  /\ CacheSound
  /\ ShiftedResolved
  /\ SettledStored
  /\ AnswersStored
  /\ SentInFlight
  /\ InFlightSorted

\* A frame that waits for a connection never stands before one that was sent.
PendingLast ==
  \A i, j \in head..Len(state) : i < j /\ state[i] = "miss-pending" => state[j] # "miss-sent"

\* What NoAckHeldBack and NoZombieSession need, whatever Bee does.
RobustInv ==
  /\ TypeInv
  /\ OneAckPerFrame
  /\ NoAckHeldBack
  /\ NoZombieSession
  /\ OneUpstream
  /\ PendingLast

-----------------------------------------------------------------------------
(* The session implements the acknowledged stream of AckedStream.          *)
Stream == INSTANCE AckedStream WITH open <- (client = "open")

\* Safety of the abstract stream.
StreamSpec == Stream!Spec
=============================================================================
