----------------------------- MODULE AckedStream -----------------------------
(***************************************************************************)
(* What /chunks/stream promises a client (swarm-ws.ts:3-8, ws-proxy.ts:3-5): *)
(* the client submits chunks and is sent acks; the n-th ack says that the  *)
(* first n chunks are stored.  How the chunks get to Bee, whether a cache  *)
(* answered, and how often a connection broke on the way do not show.      *)
(***************************************************************************)
EXTENDS Naturals, Sequences

CONSTANT Payload

VARIABLES
  frames,  \* chunks submitted, in order
  acks,    \* number of acks sent
  stored,  \* chunks that are stored
  open     \* the stream has not been closed

vars == <<frames, acks, stored, open>>

AllStored(f, n) == \A i \in 1..n : f[i] \in stored

Init ==
  /\ frames = <<>>
  /\ acks = 0
  /\ stored \in SUBSET Payload
  /\ open = TRUE

\* A chunk is submitted; it may be acknowledged on the spot.
Submit(p) ==
  /\ frames' = Append(frames, p)
  /\ \E n \in acks..Len(frames') :
       /\ n > acks => open /\ AllStored(frames', n)
       /\ acks' = n
  /\ UNCHANGED <<stored, open>>

\* A submitted chunk is stored.
Store ==
  /\ \E i \in DOMAIN frames : stored' = stored \cup {frames[i]}
  /\ UNCHANGED <<frames, acks, open>>

\* One or more acks are sent.
Acknowledge ==
  /\ open
  /\ \E n \in (acks + 1)..Len(frames) :
       /\ AllStored(frames, n)
       /\ acks' = n
  /\ UNCHANGED <<frames, stored, open>>

Close ==
  /\ open
  /\ open' = FALSE
  /\ UNCHANGED <<frames, acks, stored>>

Next ==
  \/ \E p \in Payload : Submit(p)
  \/ Store
  \/ Acknowledge
  \/ Close

Spec == Init /\ [][Next]_vars
=============================================================================
