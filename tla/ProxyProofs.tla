---------------------------- MODULE ProxyProofs ----------------------------
(***************************************************************************)
(* Theorems about both sides of the proxy.                                 *)
(*                                                                         *)
(* First, one session of the WebSocket proxy (WsProxy), for every set of   *)
(* payloads, number of frames, attempts and lost connections.  Then its    *)
(* HTTP side (HttpProxy): HttpInv is an invariant for any number of        *)
(* requests, bodies and attempts as long as no two requests differ in what *)
(* the keys of the caches leave out; with parts of a reference beside the  *)
(* whole, DownloadsSound fails.                                            *)
(***************************************************************************)
EXTENDS WsProxy, HttpProxy, FiniteSetTheorems, SequenceTheorems, TLAPS

USE WsProxyAssumption

-----------------------------------------------------------------------------
(* What the queue operators do.                                            *)

\* Adding an element to a sequence.
LEMMA AppendFacts ==
  ASSUME NEW S, NEW s \in Seq(S), NEW e \in S
  PROVE  /\ Append(s, e) \in Seq(S)
         /\ Len(Append(s, e)) = Len(s) + 1
         /\ DOMAIN Append(s, e) = 1..(Len(s) + 1)
         /\ \A i \in 1..Len(s) : Append(s, e)[i] = s[i]
         /\ Append(s, e)[Len(s) + 1] = e
  OBVIOUS

\* Taking the first element off a sequence.
LEMMA TailFacts ==
  ASSUME NEW S, NEW s \in Seq(S), s # <<>>
  PROVE  /\ Head(s) \in S
         /\ Head(s) = s[1]
         /\ 1 \in DOMAIN s
         /\ Tail(s) \in Seq(S)
         /\ DOMAIN Tail(s) = 1..(Len(s) - 1)
         /\ \A i \in DOMAIN Tail(s) : i + 1 \in DOMAIN s /\ Tail(s)[i] = s[i + 1]
         /\ \A k \in DOMAIN s : k = 1 \/ (k - 1 \in DOMAIN Tail(s) /\ s[k] = Tail(s)[k - 1])
<1>1. /\ Head(s) \in S
      /\ Head(s) = s[1]
      /\ 1 \in DOMAIN s
      /\ Tail(s) \in Seq(S)
      /\ DOMAIN Tail(s) = 1..(Len(s) - 1)
      /\ \A i \in DOMAIN Tail(s) : i + 1 \in DOMAIN s /\ Tail(s)[i] = s[i + 1]
  BY HeadTailProperties
<1>2. ASSUME NEW k \in DOMAIN s, k # 1
      PROVE  k - 1 \in DOMAIN Tail(s) /\ s[k] = Tail(s)[k - 1]
  <2>1. k \in 1..Len(s) /\ Len(s) \in Nat
    OBVIOUS
  <2>2. k - 1 \in 1..(Len(s) - 1) /\ (k - 1) + 1 = k
    BY <1>2, <2>1
  <2> QED
    BY <1>1, <2>2
<1> QED
  BY <1>1, <1>2

\* Relabel keeps the length and changes only the entries in the old state.
LEMMA RelabelFacts ==
  ASSUME NEW st \in Seq(EntryState), NEW old \in EntryState, NEW new \in EntryState
  PROVE  /\ Relabel(st, old, new) \in Seq(EntryState)
         /\ Len(Relabel(st, old, new)) = Len(st)
         /\ DOMAIN Relabel(st, old, new) = DOMAIN st
         /\ \A i \in DOMAIN st : Relabel(st, old, new)[i] = IF st[i] = old THEN new ELSE st[i]
<1> DEFINE r == Relabel(st, old, new)
<1>1. DOMAIN st = 1..Len(st) /\ Len(st) \in Nat
  OBVIOUS
<1>2. r \in [1..Len(st) -> EntryState]
  BY <1>1 DEF Relabel
<1>3. r \in Seq(EntryState)
  BY <1>1, <1>2, SeqDef
<1>4. Len(r) = Len(st)
  BY <1>1, <1>2, <1>3
<1> QED
  BY <1>1, <1>2, <1>3, <1>4 DEF Relabel

\* Frames listed in queue order are a sequence of frame numbers that is
\* increasing and holds exactly those frames.
LEMMA QueueOrderFacts ==
  ASSUME NEW st \in Seq(EntryState), NEW h \in Nat \ {0}, NEW s,
         NEW w, InQueueOrder(w, InState(st, h, s))
  PROVE  /\ w \in Seq(Nat \ {0})
         /\ \A k \in DOMAIN w : w[k] \in InState(st, h, s)
         /\ \A i, j \in DOMAIN w : i < j => w[i] < w[j]
         /\ \A m \in InState(st, h, s) : \E k \in DOMAIN w : w[k] = m
<1> DEFINE S == InState(st, h, s)
<1>1. S \subseteq h..Len(st) /\ S \subseteq Nat \ {0}
  BY DEF InState
<1>2. IsFiniteSet(h..Len(st))
  BY FS_Interval
<1>3. IsFiniteSet(S)
  BY <1>1, <1>2, FS_Subset
<1>4. Cardinality(S) \in Nat
  BY <1>3, FS_CardinalityType
<1>5. w \in [1..Cardinality(S) -> Nat \ {0}]
  BY <1>1 DEF InQueueOrder
<1>6. w \in Seq(Nat \ {0})
  BY <1>4, <1>5, SeqDef
<1> QED
  BY <1>6 DEF InQueueOrder

\* drain() moves the head forwards within the queue and caches payloads only.
LEMMA DrainFacts ==
  ASSUME TypeOK, NEW f \in Seq(Payload), NEW st \in Seq(EntryState),
         Len(st) = Len(f), Len(f) >= Len(frames), NEW n, DrainTo(f, st, n)
  PROVE  /\ head' = n
         /\ n \in head..(Len(f) + 1)
         /\ n \in 1..(Len(f) + 1)
         /\ \A i \in head..(n - 1) : st[i] \in Resolved
         /\ n <= Len(f) => st[n] \notin Resolved
         /\ cache' \subseteq Payload
         /\ \A p \in cache' \ cache :
              \E i \in head..(n - 1) : i \in DOMAIN f /\ st[i] = "miss-acked" /\ p = f[i]
         /\ cache \subseteq cache'
         /\ acks' \in Nat
         /\ acks' = IF client = "open" THEN acks + (n - head) ELSE acks
<1>1. head \in Nat \ {0} /\ acks \in Nat /\ cache \subseteq Payload
  BY DEF TypeOK
<1>2. /\ head' = n
      /\ n \in head..(Len(f) + 1)
      /\ \A i \in head..(n - 1) : st[i] \in Resolved
      /\ n <= Len(f) => st[n] \notin Resolved
      /\ acks' = IF client = "open" THEN acks + (n - head) ELSE acks
  BY <1>1 DEF DrainTo, DrainsTo
<1>3. \A i \in head..(n - 1) : i \in DOMAIN f /\ f[i] \in Payload
  BY <1>1, <1>2
<1>4. cache' = cache \/ cache' = cache \cup {f[i] : i \in {j \in head..(n - 1) : st[j] = "miss-acked"}}
  BY DEF DrainTo, StoreShifted
<1> QED
  BY <1>1, <1>2, <1>3, <1>4

-----------------------------------------------------------------------------
(* Type correctness.                                                       *)

LEMMA InitTypeInv == Init => TypeInv
<1> SUFFICES ASSUME Init PROVE TypeInv
  OBVIOUS
<1>1. frames \in Seq(Payload) /\ state \in Seq(EntryState) /\ wire \in Seq(Nat \ {0})
      /\ replies \in Seq(Reply)
  BY EmptySeq DEF Init
<1>2. Len(frames) = 0 /\ Len(state) = 0 /\ DOMAIN wire = {}
  BY DEF Init
<1>3. head \in 1..(Len(frames) + 1) /\ attempt \in 1..MaxWsAttempts /\ acks \in Nat /\ drops \in Nat
  BY <1>2 DEF Init
<1>4. canCache \in BOOLEAN /\ idleArmed \in BOOLEAN
  BY DEF Init
<1>5. cache \subseteq Payload /\ stored \subseteq Payload
  BY DEF Init
<1>6. TypeOK
  BY <1>1, <1>2, <1>3, <1>4, <1>5 DEF Init, TypeOK
<1> QED
  BY <1>2, <1>6 DEF Init, TypeInv

LEMMA NextTypeInv == TypeInv /\ [Next]_vars => TypeInv'
<1> SUFFICES ASSUME TypeInv, [Next]_vars PROVE TypeInv'
  OBVIOUS
<1> USE DEF TypeInv, clientVars, queueVars, upstreamVars, beeVars
<1>1. CASE \E p \in Payload : OnClientMessage(p)
  <2> PICK p \in Payload : OnClientMessage(p)
    BY <1>1
  <2> DEFINE f == Append(frames, p)
  <2>1. /\ f \in Seq(Payload)
        /\ Len(f) = Len(frames) + 1
        /\ DOMAIN frames \subseteq DOMAIN f
        /\ Len(f) \in DOMAIN f
        /\ Len(f) \in Nat \ {0}
    BY AppendFacts DEF TypeOK
  <2>2. \A e \in EntryState : Append(state, e) \in Seq(EntryState)
                              /\ Len(Append(state, e)) = Len(f)
    BY <2>1, AppendFacts DEF TypeOK
  <2>3. CASE canCache /\ p \in cache
    <3> DEFINE st == Append(state, "hit")
    <3>1. state' = st /\ st \in Seq(EntryState) /\ Len(st) = Len(f)
      BY <2>2, <2>3 DEF OnClientMessage, EntryState
    <3>2. PICK n \in head..(Len(f) + 1) : DrainTo(f, st, n)
      BY <2>3 DEF OnClientMessage
    <3>3. head' \in 1..(Len(f) + 1) /\ cache' \subseteq Payload /\ acks' \in Nat
      <4> HIDE DEF f, st
      <4>1. TypeOK /\ Len(f) >= Len(frames)
        BY <2>1 DEF TypeOK
      <4> QED
        BY <2>1, <3>1, <3>2, <4>1, DrainFacts
    <3> QED
      BY <2>1, <2>3, <3>1, <3>3 DEF OnClientMessage, TypeOK
  <2>4. CASE ~(canCache /\ p \in cache)
    <3>1. state' \in Seq(EntryState) /\ Len(state') = Len(f)
      BY <2>2, <2>4 DEF OnClientMessage, EntryState
    <3>2. wire' = wire \/ wire' = Append(wire, Len(f))
      BY <2>4 DEF OnClientMessage
    <3>3. wire' \in Seq(Nat \ {0}) /\ \A k \in DOMAIN wire' : wire'[k] \in DOMAIN f
      <4> HIDE DEF f
      <4>1. wire \in Seq(Nat \ {0}) /\ Len(wire) \in Nat /\ DOMAIN wire = 1..Len(wire)
        BY DEF TypeOK
      <4>2. \A k \in DOMAIN wire : wire[k] \in DOMAIN f
        BY <2>1
      <4>3. /\ Append(wire, Len(f)) \in Seq(Nat \ {0})
            /\ DOMAIN Append(wire, Len(f)) = 1..(Len(wire) + 1)
            /\ \A k \in 1..Len(wire) : Append(wire, Len(f))[k] = wire[k]
            /\ Append(wire, Len(f))[Len(wire) + 1] = Len(f)
        BY <2>1, <4>1, AppendFacts
      <4>4. \A k \in 1..(Len(wire) + 1) : Append(wire, Len(f))[k] \in DOMAIN f
        <5> SUFFICES ASSUME NEW k \in 1..(Len(wire) + 1)
                     PROVE  Append(wire, Len(f))[k] \in DOMAIN f
          OBVIOUS
        <5>1. CASE k = Len(wire) + 1
          BY <2>1, <4>3, <5>1
        <5>2. CASE k # Len(wire) + 1
          <6>1. k \in 1..Len(wire)
            BY <4>1, <5>2
          <6> QED
            BY <4>1, <4>2, <4>3, <6>1
        <5> QED
          BY <5>1, <5>2
      <4>5. CASE wire' = wire
        BY <4>1, <4>2, <4>5
      <4>6. CASE wire' = Append(wire, Len(f))
        BY <4>3, <4>4, <4>6
      <4> QED
        BY <3>2, <4>5, <4>6
    <3> QED
      BY <2>1, <2>4, <3>1, <3>3 DEF OnClientMessage, TypeOK
  <2> QED
    BY <2>3, <2>4
<1>2. CASE OnClientText
  BY <1>2 DEF OnClientText, TypeOK
<1>3. CASE OnUpstreamMessage
  <2>1. replies' \in Seq(Reply)
    BY <1>3, TailFacts DEF OnUpstreamMessage, TypeOK
  <2>2. CASE OnText
    BY <1>3, <2>1, <2>2 DEF OnUpstreamMessage, OnText, TypeOK
  <2>3. CASE InState(state, head, "miss-sent") = {} /\ UNCHANGED queueVars
    BY <1>3, <2>1, <2>3 DEF OnUpstreamMessage, TypeOK
  <2>4. ASSUME NEW i \in head..Len(frames), NEW n, UNCHANGED frames,
               state' = [state EXCEPT ![i] = "miss-acked"],
               DrainTo(frames, [state EXCEPT ![i] = "miss-acked"], n)
        PROVE  TypeInv'
    <3> DEFINE st == [state EXCEPT ![i] = "miss-acked"]
    <3>1. st \in Seq(EntryState) /\ Len(st) = Len(frames)
      BY <2>4, ExceptSeq DEF TypeOK, EntryState
    <3>2. DrainTo(frames, st, n)
      BY <2>4
    <3>3. head' \in 1..(Len(frames) + 1) /\ cache' \subseteq Payload /\ acks' \in Nat
      <4> HIDE DEF st
      <4>1. TypeOK /\ frames \in Seq(Payload) /\ Len(frames) >= Len(frames)
        BY DEF TypeOK
      <4> QED
        BY <3>1, <3>2, <4>1, DrainFacts
    <3> QED
      BY <1>3, <2>1, <2>4, <3>1, <3>3 DEF OnUpstreamMessage, TypeOK
  <2> QED
    BY <1>3, <2>2, <2>3, <2>4 DEF OnUpstreamMessage, OnAck
<1>4. CASE ConnectOpen
  <2> DEFINE pending == InState(state, head, "miss-pending")
  <2>1. PICK w : InQueueOrder(w, pending) /\ wire' = w
    BY <1>4 DEF ConnectOpen
  <2>2. state' = Relabel(state, "miss-pending", "miss-sent")
    BY <1>4 DEF ConnectOpen
  <2>3. state' \in Seq(EntryState) /\ Len(state') = Len(frames)
    BY <2>2, RelabelFacts DEF TypeOK, EntryState
  <2>4. wire' \in Seq(Nat \ {0}) /\ \A k \in DOMAIN wire' : wire'[k] \in pending
    BY <2>1, QueueOrderFacts DEF TypeOK
  <2>5. pending \subseteq DOMAIN frames
    BY DEF InState, TypeOK
  <2> QED
    BY <1>4, <2>3, <2>4, <2>5 DEF ConnectOpen, TypeOK
<1>5. CASE ConnectFail
  BY <1>5 DEF ConnectFail, CloseClient, TypeOK
<1>6. CASE ConnectWake
  BY <1>6 DEF ConnectWake, TypeOK
<1>7. CASE UpstreamCloses
  BY <1>7 DEF UpstreamCloses, TypeOK
<1>8. CASE OnUpstreamClose
  <2>1. wire' \in Seq(Nat \ {0}) /\ replies' \in Seq(Reply) /\ wire' = <<>>
    BY <1>8, EmptySeq DEF OnUpstreamClose
  <2>2. CASE client = "closed"
    BY <1>8, <2>1, <2>2 DEF OnUpstreamClose, TypeOK
  <2>3. CASE client # "closed"
    <3>1. PICK n \in head..(Len(frames) + 1) : DrainTo(frames, state, n)
      BY <1>8, <2>3 DEF OnUpstreamClose
    <3>2. head' \in 1..(Len(frames) + 1) /\ cache' \subseteq Payload /\ acks' \in Nat
      BY <3>1, DrainFacts DEF TypeOK
    <3>3. state' \in Seq(EntryState) /\ Len(state') = Len(frames)
      BY <1>8, <2>3, RelabelFacts DEF OnUpstreamClose, TypeOK, EntryState
    <3> QED
      BY <1>8, <2>1, <2>3, <3>2, <3>3 DEF OnUpstreamClose, CloseClient, TypeOK
  <2> QED
    BY <2>2, <2>3
<1>9. CASE ClientCloses
  BY <1>9 DEF ClientCloses, TypeOK
<1>10. CASE OnClientClose
  BY <1>10 DEF OnClientClose, TypeOK
<1>11. CASE IdleTimeout
  BY <1>11 DEF IdleTimeout, CloseClient, TypeOK
<1>12. CASE BeeStores
  <2>1. Head(wire) \in DOMAIN frames /\ Head(wire) \in Nat \ {0} /\ Tail(wire) \in Seq(Nat \ {0})
        /\ \A k \in DOMAIN Tail(wire) : Tail(wire)[k] \in DOMAIN frames
    BY <1>12, TailFacts DEF BeeStores, TypeOK
  <2>2. replies' \in Seq(Reply)
    BY <1>12, <2>1, AppendFacts DEF BeeStores, TypeOK, Reply
  <2>3. stored' \subseteq Payload
    BY <1>12, <2>1 DEF BeeStores, TypeOK
  <2> QED
    BY <1>12, <2>1, <2>2, <2>3 DEF BeeStores, TypeOK
<1>13. CASE BeeDropsSilently
  BY <1>13, TailFacts DEF BeeDropsSilently, TypeOK
<1>14. CASE BeeRejects
  <2>1. Head(wire) \in Nat \ {0} /\ Tail(wire) \in Seq(Nat \ {0})
        /\ \A k \in DOMAIN Tail(wire) : Tail(wire)[k] \in DOMAIN frames
    BY <1>14, TailFacts DEF BeeRejects, TypeOK
  <2>2. replies' \in Seq(Reply)
    BY <1>14, <2>1, AppendFacts DEF BeeRejects, TypeOK, Reply
  <2> QED
    BY <1>14, <2>1, <2>2 DEF BeeRejects, TypeOK
<1>15. CASE UNCHANGED vars
  BY <1>15 DEF vars, TypeOK
<1> QED
  BY <1>1, <1>2, <1>3, <1>4, <1>5, <1>6, <1>7, <1>8, <1>9, <1>10, <1>11, <1>12, <1>13,
     <1>14, <1>15 DEF Next

\* Every variable keeps its type, whatever Bee does.
THEOREM TypeCorrect == Spec => []TypeOK
<1>1. TypeInv => TypeOK
  BY DEF TypeInv
<1> QED
  BY <1>1, InitTypeInv, NextTypeInv, PTL DEF Spec

-----------------------------------------------------------------------------
(* Safety with a Bee that acknowledges every chunk.                        *)

\* drain() acknowledges and caches only what Bee holds, once per frame.
LEMMA DrainSafe ==
  ASSUME TypeOK, OneAckPerFrame, CacheSound,
         NEW f \in Seq(Payload), NEW st \in Seq(EntryState),
         Len(st) = Len(f), Len(f) >= Len(frames), NEW n, DrainTo(f, st, n),
         \A i \in 1..(head - 1) : st[i] \in Resolved,
         \A i \in DOMAIN st : st[i] \in Resolved => f[i] \in stored
  PROVE  /\ acks' <= head' - 1
         /\ client = "open" => acks' = head' - 1
         /\ \A i \in 1..(head' - 1) : st[i] \in Resolved
         /\ cache' \subseteq stored
<1>1. /\ head' = n
      /\ n \in head..(Len(f) + 1)
      /\ \A i \in head..(n - 1) : st[i] \in Resolved
      /\ acks' = IF client = "open" THEN acks + (n - head) ELSE acks
  BY DrainFacts
<1>2. \A p \in cache' \ cache : p \in stored
  <2>1. \A p \in cache' \ cache :
          \E i \in head..(n - 1) : i \in DOMAIN f /\ st[i] = "miss-acked" /\ p = f[i]
    BY DrainFacts
  <2>2. DOMAIN st = DOMAIN f
    OBVIOUS
  <2> QED
    BY <2>1, <2>2 DEF Resolved
<1>3. head \in Nat \ {0} /\ acks \in Nat
  BY DEF TypeOK
<1> QED
  BY <1>1, <1>2, <1>3 DEF OneAckPerFrame, CacheSound

\* The frame of the next answer is the first one in flight.
LEMMA NextAnswerFirst ==
  ASSUME TypeInv, InFlightSorted, replies # <<>>
  PROVE  \A m \in InFlight : m = Head(replies).frame \/ Head(replies).frame < m
<1>1. Head(replies) = replies[1] /\ 1 \in DOMAIN replies /\ DOMAIN replies = 1..Len(replies)
  BY DEF TypeInv, TypeOK
<1> QED
  BY <1>1 DEF InFlight, InFlightSorted

\* Delivering an answer takes exactly its frame out of flight.
LEMMA DeliverInFlight ==
  ASSUME TypeInv, InFlightSorted, replies # <<>>, replies' = Tail(replies), wire' = wire
  PROVE  /\ InFlight = InFlight' \cup {Head(replies).frame}
         /\ Head(replies).frame \notin InFlight'
         /\ InFlightSorted'
<1>1. /\ replies \in Seq(Reply) /\ Len(replies) \in Nat \ {0}
      /\ DOMAIN replies = 1..Len(replies)
      /\ Head(replies) = replies[1]
      /\ DOMAIN Tail(replies) = 1..(Len(replies) - 1)
      /\ \A i \in DOMAIN Tail(replies) : i + 1 \in DOMAIN replies /\ Tail(replies)[i] = replies[i + 1]
  BY TailFacts DEF TypeInv, TypeOK
<1>2. \A k \in DOMAIN replies : replies[k].frame \in Nat
  <2> TAKE k \in DOMAIN replies
  <2>1. replies[k] \in Reply
    BY <1>1, ElementOfSeq
  <2> QED
    BY <2>1 DEF Reply
<1>3. \A k \in DOMAIN wire : wire[k] \in Nat
  BY DEF TypeInv, TypeOK
<1>4. \A k \in DOMAIN replies :
        k = 1 \/ (k - 1 \in DOMAIN Tail(replies) /\ replies[k] = Tail(replies)[k - 1])
  BY TailFacts DEF TypeInv, TypeOK
<1>5. {replies[k].frame : k \in DOMAIN replies}
        = {Tail(replies)[k].frame : k \in DOMAIN Tail(replies)} \cup {Head(replies).frame}
  <2> DEFINE A == {replies[k].frame : k \in DOMAIN replies}
             B == {Tail(replies)[k].frame : k \in DOMAIN Tail(replies)}
  <2>1. ASSUME NEW k \in DOMAIN replies
        PROVE  replies[k].frame \in B \cup {Head(replies).frame}
    BY <1>1, <1>4
  <2>2. ASSUME NEW k \in DOMAIN Tail(replies)
        PROVE  Tail(replies)[k].frame \in A
    BY <1>1
  <2>3. Head(replies).frame \in A
    BY <1>1
  <2> QED
    BY <2>1, <2>2, <2>3
<1>6. \A k \in DOMAIN Tail(replies) : Head(replies).frame < Tail(replies)[k].frame
  BY <1>1 DEF InFlightSorted
<1>7. \A k \in DOMAIN wire : Head(replies).frame < wire[k]
  BY <1>1 DEF InFlightSorted
<1>8. InFlight' = {Tail(replies)[k].frame : k \in DOMAIN Tail(replies)}
                    \cup {wire[k] : k \in DOMAIN wire}
  BY DEF InFlight
<1>9. Head(replies).frame \notin InFlight'
  BY <1>1, <1>2, <1>3, <1>6, <1>7, <1>8
<1>10. InFlightSorted'
  BY <1>1 DEF InFlightSorted
<1> QED
  BY <1>5, <1>8, <1>9, <1>10 DEF InFlight

\* Bee answering a chunk moves its frame from the wire to the answers.
LEMMA AnswerInFlight ==
  ASSUME TypeInv, InFlightSorted, wire # <<>>, wire' = Tail(wire), NEW kind \in {"ack", "error"},
         replies' = Append(replies, [kind |-> kind, frame |-> Head(wire)])
  PROVE  InFlight' = InFlight /\ InFlightSorted'
<1> DEFINE r == [kind |-> kind, frame |-> Head(wire)]
<1>1. /\ Len(wire) \in Nat \ {0}
      /\ DOMAIN wire = 1..Len(wire)
      /\ Head(wire) = wire[1] /\ Head(wire) \in Nat \ {0}
      /\ DOMAIN Tail(wire) = 1..(Len(wire) - 1)
      /\ \A i \in DOMAIN Tail(wire) : i + 1 \in DOMAIN wire /\ Tail(wire)[i] = wire[i + 1]
  BY TailFacts DEF TypeInv, TypeOK
<1>2. r \in Reply /\ r.frame = wire[1]
  BY <1>1 DEF Reply
<1>3. /\ Len(replies) \in Nat
      /\ DOMAIN replies = 1..Len(replies)
      /\ DOMAIN replies' = 1..(Len(replies) + 1)
      /\ \A i \in DOMAIN replies : replies'[i] = replies[i]
      /\ replies'[Len(replies) + 1] = r
  BY <1>2, AppendFacts DEF TypeInv, TypeOK
<1> HIDE DEF r
<1>4. \A k \in DOMAIN replies' : (k \in DOMAIN replies /\ replies'[k] = replies[k])
                                 \/ (k = Len(replies) + 1 /\ replies'[k] = r)
  BY <1>3
<1>5. \A k \in DOMAIN wire : k = 1 \/ (k - 1 \in DOMAIN Tail(wire) /\ wire[k] = Tail(wire)[k - 1])
  BY TailFacts DEF TypeInv, TypeOK
<1>6. {replies'[k].frame : k \in DOMAIN replies'} = {replies[k].frame : k \in DOMAIN replies} \cup {wire[1]}
  <2> DEFINE A == {replies'[k].frame : k \in DOMAIN replies'}
             B == {replies[k].frame : k \in DOMAIN replies}
  <2>1. ASSUME NEW k \in DOMAIN replies'
        PROVE  replies'[k].frame \in B \cup {wire[1]}
    BY <1>2, <1>4
  <2>2. ASSUME NEW k \in DOMAIN replies
        PROVE  replies[k].frame \in A
    <3>1. k \in DOMAIN replies' /\ replies'[k].frame = replies[k].frame
      BY <1>3
    <3> QED
      BY <3>1
  <2>3. wire[1] \in A
    <3>1. Len(replies) + 1 \in DOMAIN replies' /\ replies'[Len(replies) + 1].frame = wire[1]
      BY <1>2, <1>3
    <3> QED
      BY <3>1
  <2> QED
    BY <2>1, <2>2, <2>3
<1>7. {wire[k] : k \in DOMAIN wire} = {Tail(wire)[k] : k \in DOMAIN Tail(wire)} \cup {wire[1]}
  <2> DEFINE A == {wire[k] : k \in DOMAIN wire}
             B == {Tail(wire)[k] : k \in DOMAIN Tail(wire)}
  <2>1. ASSUME NEW k \in DOMAIN wire
        PROVE  wire[k] \in B \cup {wire[1]}
    BY <1>1, <1>5
  <2>2. ASSUME NEW k \in DOMAIN Tail(wire)
        PROVE  Tail(wire)[k] \in A
    BY <1>1
  <2>3. wire[1] \in A
    BY <1>1, SMTT(20)
  <2> QED
    BY <2>1, <2>2, <2>3
<1>8. InFlight' = InFlight
  BY <1>6, <1>7 DEF InFlight
<1>9. \A j, k \in DOMAIN wire' : j < k => wire'[j] < wire'[k]
  BY <1>1 DEF InFlightSorted
<1>10. \A j, k \in DOMAIN replies' : j < k => replies'[j].frame < replies'[k].frame
  BY <1>1, <1>2, <1>3, <1>4 DEF InFlightSorted
<1>11. \A j \in DOMAIN replies', k \in DOMAIN wire' : replies'[j].frame < wire'[k]
  BY <1>1, <1>2, <1>4, SMTT(20) DEF InFlightSorted
<1> QED
  BY <1>8, <1>9, <1>10, <1>11 DEF InFlightSorted

\* Every frame in flight is one the client sent.
LEMMA InFlightRange == SafeInv => InFlight \subseteq DOMAIN frames
  BY DEF SafeInv, TypeInv, AnswersStored, InFlight

\* A frame joins the queue.
LEMMA ClientMessageSafe ==
  ASSUME SafeInv, TypeInv', NEW p \in Payload, OnClientMessage(p)
  PROVE  SafeInv'
<1> DEFINE f == Append(frames, p)
<1> DEFINE L == Len(frames)
<1>1. /\ L \in Nat /\ L = Len(state) /\ DOMAIN frames = 1..L /\ DOMAIN state = 1..L
      /\ f \in Seq(Payload) /\ Len(f) = L + 1 /\ DOMAIN f = 1..(L + 1)
      /\ \A i \in 1..L : f[i] = frames[i]
      /\ f[L + 1] = p
  BY AppendFacts DEF SafeInv, TypeInv, TypeOK
<1>2. \A e \in EntryState :
        /\ Append(state, e) \in Seq(EntryState)
        /\ Len(Append(state, e)) = L + 1
        /\ DOMAIN Append(state, e) = 1..(L + 1)
        /\ \A i \in 1..L : Append(state, e)[i] = state[i]
        /\ Append(state, e)[L + 1] = e
  BY <1>1, AppendFacts DEF SafeInv, TypeInv, TypeOK
<1>3. /\ frames' = f /\ UNCHANGED <<client, upstream, replies, stored>>
  BY DEF OnClientMessage, upstreamVars
<1>4. InFlight \subseteq 1..L /\ L + 1 \notin InFlight
  BY <1>1, InFlightRange
<1> HIDE DEF f, L
<1>5. AnswersStored'
  BY <1>1, <1>3 DEF SafeInv, AnswersStored
<1>6. head \in 1..(L + 1) /\ head \in Nat
  BY <1>1 DEF SafeInv, TypeInv, TypeOK, L
<1>7. CASE canCache /\ p \in cache
  <2> DEFINE st == Append(state, "hit")
  <2>1. state' = st /\ wire' = wire
    BY <1>7 DEF OnClientMessage
  <2>2. PICK n : DrainTo(f, st, n)
    BY <1>7 DEF OnClientMessage, f
  <2>3. /\ st \in Seq(EntryState) /\ Len(st) = Len(f) /\ DOMAIN st = 1..(L + 1)
        /\ \A i \in 1..L : st[i] = state[i]
        /\ st[L + 1] = "hit"
    BY <1>1, <1>2 DEF EntryState
  <2> HIDE DEF st
  <2>4. p \in stored
    BY <1>7 DEF SafeInv, CacheSound
  <2>5. \A i \in DOMAIN st : st[i] \in Resolved => f[i] \in stored
    BY <1>1, <2>3, <2>4 DEF SafeInv, SettledStored
  <2>6. \A i \in 1..(head - 1) : st[i] \in Resolved
    BY <1>1, <1>6, <2>3 DEF SafeInv, ShiftedResolved
  <2>7. TypeOK /\ OneAckPerFrame /\ CacheSound /\ Len(f) >= Len(frames)
    BY <1>1 DEF SafeInv, TypeInv, L
  <2>8. /\ acks' <= head' - 1
        /\ client = "open" => acks' = head' - 1
        /\ \A i \in 1..(head' - 1) : st[i] \in Resolved
        /\ cache' \subseteq stored
    BY <1>1, <2>2, <2>3, <2>5, <2>6, <2>7, DrainSafe
  <2>9. OneAckPerFrame' /\ CacheSound' /\ ShiftedResolved'
    BY <1>3, <2>1, <2>8 DEF OneAckPerFrame, CacheSound, ShiftedResolved
  <2>10. SettledStored'
    BY <1>3, <2>1, <2>5 DEF SettledStored
  <2>11. InFlight' = InFlight /\ InFlightSorted'
    BY <1>3, <2>1 DEF SafeInv, InFlight, InFlightSorted
  <2>12. SentInFlight'
    <3>1. \A i \in DOMAIN st : st[i] = "miss-sent" <=> i \in 1..L /\ state[i] = "miss-sent"
      BY <1>1, <2>3
    <3> QED
      BY <1>1, <1>3, <1>4, <2>1, <2>3, <2>11, <3>1 DEF SafeInv, SentInFlight
  <2> QED
    BY <1>5, <2>9, <2>10, <2>11, <2>12 DEF SafeInv
<1>8. CASE ~(canCache /\ p \in cache)
  <2> DEFINE e == IF upstream = "open" THEN "miss-sent" ELSE "miss-pending"
  <2> DEFINE st == Append(state, e)
  <2>1. state' = st /\ UNCHANGED <<head, cache, acks>>
    BY <1>8 DEF OnClientMessage
  <2>2. /\ DOMAIN st = 1..(L + 1)
        /\ \A i \in 1..L : st[i] = state[i]
        /\ st[L + 1] = e
    BY <1>2 DEF EntryState
  <2>3. e \notin Resolved /\ (e = "miss-sent" <=> upstream = "open")
    BY DEF Resolved
  <2> HIDE DEF e, st
  <2>4. OneAckPerFrame' /\ CacheSound'
    BY <1>3, <2>1 DEF SafeInv, OneAckPerFrame, CacheSound
  <2>5. ShiftedResolved'
    BY <1>1, <1>6, <2>1, <2>2 DEF SafeInv, ShiftedResolved
  <2>6. SettledStored'
    BY <1>1, <1>3, <2>1, <2>2, <2>3 DEF SafeInv, SettledStored
  <2>7. CASE upstream = "open"
    <3>1. wire' = Append(wire, L + 1)
      BY <1>1, <1>8, <2>7 DEF OnClientMessage, f
    <3>2. /\ Len(wire) \in Nat /\ DOMAIN wire = 1..Len(wire)
          /\ DOMAIN wire' = 1..(Len(wire) + 1)
          /\ \A k \in 1..Len(wire) : wire'[k] = wire[k]
          /\ wire'[Len(wire) + 1] = L + 1
      BY <1>1, <3>1, AppendFacts DEF SafeInv, TypeInv, TypeOK
    <3>3. \A k \in DOMAIN wire' : (k \in DOMAIN wire /\ wire'[k] = wire[k])
                                  \/ (k = Len(wire) + 1 /\ wire'[k] = L + 1)
      BY <3>2
    <3>4. InFlight' = InFlight \cup {L + 1}
      <4>1. ASSUME NEW m \in InFlight' PROVE m \in InFlight \cup {L + 1}
        BY <1>3, <3>3 DEF InFlight
      <4>2. ASSUME NEW m \in InFlight PROVE m \in InFlight'
        <5>1. \A k \in DOMAIN wire : k \in DOMAIN wire' /\ wire'[k] = wire[k]
          BY <3>2
        <5> QED
          BY <1>3, <5>1 DEF InFlight
      <4>3. L + 1 \in InFlight'
        <5>1. Len(wire) + 1 \in DOMAIN wire'
          BY <3>2
        <5> QED
          BY <3>2, <5>1 DEF InFlight
      <4> QED
        BY <4>1, <4>2, <4>3
    <3>5. /\ \A k \in DOMAIN wire : wire[k] \in 1..L
          /\ \A k \in DOMAIN replies : replies[k].frame \in 1..L
      BY <1>4 DEF InFlight
    <3>6. InFlightSorted'
      <4>1. \A j, k \in DOMAIN wire' : j < k => wire'[j] < wire'[k]
        BY <1>1, <3>2, <3>3, <3>5 DEF SafeInv, InFlightSorted
      <4>2. \A j \in DOMAIN replies', k \in DOMAIN wire' : replies'[j].frame < wire'[k]
        BY <1>1, <1>3, <3>3, <3>5 DEF SafeInv, InFlightSorted
      <4> QED
        BY <1>3, <4>1, <4>2 DEF SafeInv, InFlightSorted
    <3>7. SentInFlight'
      BY <1>1, <1>3, <1>4, <2>1, <2>2, <2>3, <2>7, <3>4 DEF SafeInv, SentInFlight, Connected
    <3> QED
      BY <1>5, <2>4, <2>5, <2>6, <3>6, <3>7 DEF SafeInv
  <2>8. CASE upstream # "open"
    <3>1. wire' = wire
      BY <1>8, <2>8 DEF OnClientMessage
    <3>2. InFlight' = InFlight /\ InFlightSorted'
      BY <1>3, <3>1 DEF SafeInv, InFlight, InFlightSorted
    <3>3. SentInFlight'
      BY <1>1, <1>3, <1>4, <2>1, <2>2, <2>3, <2>8, <3>1, <3>2 DEF SafeInv, SentInFlight
    <3> QED
      BY <1>5, <2>4, <2>5, <2>6, <3>2, <3>3 DEF SafeInv
  <2> QED
    BY <2>7, <2>8
<1> QED
  BY <1>7, <1>8

\* An ack settles the frame it is about.
LEMMA UpstreamMessageSafe ==
  ASSUME SafeInv, TypeInv', OnUpstreamMessage
  PROVE  SafeInv'
<1> DEFINE a == Head(replies).frame
<1>1. /\ replies # <<>> /\ replies' = Tail(replies) /\ wire' = wire
      /\ upstream \in Connected
      /\ UNCHANGED <<client, upstream, stored>>
  BY DEF OnUpstreamMessage, upstreamVars
<1>2. /\ 1 \in DOMAIN replies /\ Head(replies) = replies[1]
      /\ DOMAIN Tail(replies) = 1..(Len(replies) - 1)
      /\ \A i \in DOMAIN Tail(replies) : i + 1 \in DOMAIN replies /\ Tail(replies)[i] = replies[i + 1]
  BY <1>1, TailFacts DEF SafeInv, TypeInv, TypeOK
<1>3. Head(replies).kind = "ack" /\ a \in DOMAIN frames /\ frames[a] \in stored
  BY <1>2 DEF SafeInv, AnswersStored
<1>4. /\ InFlight = InFlight' \cup {a}
      /\ a \notin InFlight'
      /\ InFlightSorted'
  BY <1>1, DeliverInFlight DEF SafeInv
<1>5. \A m \in InFlight : m = a \/ a < m
  BY <1>1, NextAnswerFirst DEF SafeInv
<1>6. /\ DOMAIN state = DOMAIN frames /\ DOMAIN frames = 1..Len(frames) /\ Len(frames) \in Nat
      /\ head \in Nat \ {0} /\ Len(state) = Len(frames)
  BY DEF SafeInv, TypeInv, TypeOK
<1> HIDE DEF a
<1>7. \A i \in DOMAIN state : state[i] = "miss-sent" <=> i \in InFlight
  BY <1>1 DEF SafeInv, SentInFlight
<1>8. state[a] = "miss-sent" /\ a \in head..Len(state)
  <2>1. state[a] = "miss-sent"
    BY <1>3, <1>4, <1>6, <1>7
  <2>2. ~(a \in 1..(head - 1))
    BY <2>1 DEF SafeInv, ShiftedResolved, Resolved
  <2> QED
    BY <1>3, <1>6, <2>1, <2>2
<1>9. InState(state, head, "miss-sent") # {}
  BY <1>8 DEF InState
<1>10. PICK i \in head..Len(frames) :
         /\ FirstSent(i)
         /\ state' = [state EXCEPT ![i] = "miss-acked"]
         /\ \E n \in head..(Len(frames) + 1) : DrainTo(frames, [state EXCEPT ![i] = "miss-acked"], n)
         /\ UNCHANGED frames
  BY <1>3, <1>9 DEF OnUpstreamMessage, OnAck
<1>11. i = a
  <2>1. i \in InFlight
    BY <1>6, <1>7, <1>10 DEF FirstSent, InState
  <2>2. i <= a
    BY <1>8, <1>10 DEF FirstSent, InState
  <2> QED
    BY <1>3, <1>5, <1>6, <1>10, <2>1, <2>2
<1> DEFINE st == [state EXCEPT ![a] = "miss-acked"]
<1>12. PICK n : DrainTo(frames, st, n)
  BY <1>10, <1>11
<1>13. /\ state' = st /\ frames' = frames
       /\ st \in Seq(EntryState) /\ Len(st) = Len(frames) /\ DOMAIN st = DOMAIN frames
       /\ \A j \in DOMAIN frames : st[j] = IF j = a THEN "miss-acked" ELSE state[j]
  <2>1. state \in Seq(EntryState) /\ a \in 1..Len(state) /\ "miss-acked" \in EntryState
    BY <1>3, <1>6 DEF SafeInv, TypeInv, TypeOK, EntryState
  <2>2. st \in Seq(EntryState) /\ Len(st) = Len(state)
        /\ \A j \in 1..Len(state) : st[j] = IF j = a THEN "miss-acked" ELSE state[j]
    BY <2>1, ExceptSeq
  <2> QED
    BY <1>6, <1>10, <1>11, <2>2
<1> HIDE DEF st
<1>14. \A j \in DOMAIN st : st[j] \in Resolved => frames[j] \in stored
  BY <1>3, <1>6, <1>13 DEF SafeInv, SettledStored
<1>15. \A j \in 1..(head - 1) : st[j] \in Resolved
  <2> TAKE j \in 1..(head - 1)
  <2>1. j \in DOMAIN frames
    BY <1>6 DEF SafeInv, TypeInv, TypeOK
  <2> QED
    BY <1>13, <2>1 DEF SafeInv, ShiftedResolved, Resolved
<1>16. /\ TypeOK /\ OneAckPerFrame /\ CacheSound
       /\ frames \in Seq(Payload) /\ Len(frames) >= Len(frames)
  BY <1>6 DEF SafeInv, TypeInv, TypeOK
<1>17. /\ acks' <= head' - 1
       /\ client = "open" => acks' = head' - 1
       /\ \A j \in 1..(head' - 1) : st[j] \in Resolved
       /\ cache' \subseteq stored
  BY <1>12, <1>13, <1>14, <1>15, <1>16, DrainSafe
<1>18. OneAckPerFrame' /\ CacheSound' /\ ShiftedResolved' /\ SettledStored'
  BY <1>1, <1>13, <1>14, <1>17
     DEF OneAckPerFrame, CacheSound, ShiftedResolved, SettledStored
<1>19. AnswersStored'
  BY <1>1, <1>2, <1>13 DEF SafeInv, AnswersStored
<1>20. SentInFlight'
  <2>1. \A j \in DOMAIN st : st[j] = "miss-sent" <=> j \in InFlight'
    BY <1>4, <1>6, <1>7, <1>13
  <2> QED
    BY <1>1, <1>13, <2>1 DEF SentInFlight, Connected
<1> QED
  BY <1>4, <1>18, <1>19, <1>20 DEF SafeInv

\* The pending frames are replayed on a fresh connection.
LEMMA ConnectOpenSafe ==
  ASSUME SafeInv, TypeInv', ConnectOpen
  PROVE  SafeInv'
<1> DEFINE pending == InState(state, head, "miss-pending")
<1>1. PICK w : InQueueOrder(w, pending) /\ wire' = w
  BY DEF ConnectOpen
<1>2. /\ upstream = "null" /\ replies = <<>> /\ upstream' = "open"
      /\ UNCHANGED <<client, frames, head, acks, cache, replies, stored>>
      /\ state' = Relabel(state, "miss-pending", "miss-sent")
  BY DEF ConnectOpen, SafeInv, TypeInv, SentInFlight, Connected, clientVars
<1>3. /\ DOMAIN state = 1..Len(state) /\ Len(state) \in Nat
      /\ head \in Nat \ {0} /\ state \in Seq(EntryState) /\ head <= Len(state) + 1
  BY DEF SafeInv, TypeInv, TypeOK
<1>4. /\ w \in Seq(Nat \ {0})
      /\ \A k \in DOMAIN w : w[k] \in pending
      /\ \A j, k \in DOMAIN w : j < k => w[j] < w[k]
      /\ \A m \in pending : \E k \in DOMAIN w : w[k] = m
  BY <1>1, <1>3, QueueOrderFacts
<1>5. /\ DOMAIN state' = DOMAIN state
      /\ \A j \in DOMAIN state : state'[j] = IF state[j] = "miss-pending" THEN "miss-sent" ELSE state[j]
  BY <1>2, <1>3, RelabelFacts DEF EntryState
<1>6. InFlight' = pending
  <2>1. DOMAIN replies' = {}
    BY <1>2
  <2> QED
    BY <1>1, <1>4, <2>1 DEF InFlight
<1>7. \A j \in DOMAIN state : state[j] = "miss-pending" <=> j \in pending
  BY <1>3 DEF InState, SafeInv, ShiftedResolved, Resolved
<1>8. InFlightSorted'
  <2>1. DOMAIN replies' = {}
    BY <1>2
  <2> QED
    BY <1>1, <1>4, <2>1 DEF InFlightSorted
<1>9. \A j \in DOMAIN state : state[j] # "miss-sent"
  BY <1>2 DEF SafeInv, SentInFlight
<1>10. SentInFlight'
  BY <1>2, <1>5, <1>6, <1>7, <1>9 DEF SentInFlight, Connected
<1>11. OneAckPerFrame' /\ CacheSound' /\ AnswersStored'
  BY <1>2 DEF SafeInv, OneAckPerFrame, CacheSound, AnswersStored
<1>12. \A j \in DOMAIN state : state'[j] \in Resolved <=> state[j] \in Resolved
  BY <1>5 DEF Resolved
<1>13. ShiftedResolved' /\ SettledStored'
  BY <1>2, <1>3, <1>5, <1>12 DEF SafeInv, ShiftedResolved, SettledStored
<1> QED
  BY <1>8, <1>10, <1>11, <1>13 DEF SafeInv

\* The connection is gone: what was sent and not answered waits for replay.
LEMMA UpstreamCloseSafe ==
  ASSUME SafeInv, TypeInv', OnUpstreamClose
  PROVE  SafeInv'
<1>1. /\ wire' = <<>> /\ replies' = <<>> /\ UNCHANGED <<frames, stored>>
      /\ DOMAIN wire' = {} /\ DOMAIN replies' = {}
  BY DEF OnUpstreamClose
<1>2. InFlightSorted' /\ AnswersStored'
  BY <1>1 DEF InFlightSorted, AnswersStored
<1>3. CASE client = "closed"
  BY <1>1, <1>2, <1>3 DEF OnUpstreamClose, SafeInv, OneAckPerFrame, CacheSound, ShiftedResolved,
     SettledStored, SentInFlight, Connected
<1>4. CASE client # "closed"
  <2>1. /\ upstream' = "null"
        /\ client' = "open" => client = "open"
        /\ state' = state \/ state' = Relabel(state, "miss-sent", "miss-pending")
        /\ head' <= Len(frames) => state' = Relabel(state, "miss-sent", "miss-pending")
    <3>1. head' \in Nat /\ Len(frames) \in Nat
      BY DEF TypeInv, TypeOK
    <3> QED
      BY <1>4, <3>1 DEF OnUpstreamClose, CloseClient
  <2>2. PICK n : DrainTo(frames, state, n)
    BY <1>4 DEF OnUpstreamClose
  <2>3. /\ TypeOK /\ OneAckPerFrame /\ CacheSound /\ Len(state) = Len(frames)
        /\ frames \in Seq(Payload) /\ state \in Seq(EntryState) /\ Len(frames) >= Len(frames)
        /\ DOMAIN state = 1..Len(frames) /\ Len(frames) \in Nat
    BY DEF SafeInv, TypeInv, TypeOK
  <2>4. /\ acks' <= head' - 1
        /\ client = "open" => acks' = head' - 1
        /\ \A i \in 1..(head' - 1) : state[i] \in Resolved
        /\ cache' \subseteq stored
    BY <2>2, <2>3, DrainSafe DEF SafeInv, ShiftedResolved, SettledStored
  <2>5. /\ DOMAIN state' = DOMAIN state
        /\ \A i \in DOMAIN state : state[i] # "miss-sent" => state'[i] = state[i]
        /\ \A i \in DOMAIN state : state'[i] \in Resolved <=> state[i] \in Resolved
    BY <2>1, <2>3, RelabelFacts DEF EntryState, Resolved
  <2>6. OneAckPerFrame' /\ CacheSound'
    BY <1>1, <2>1, <2>4 DEF OneAckPerFrame, CacheSound
  <2>7. ShiftedResolved' /\ SettledStored'
    <3>1. head' = n /\ n \in 1..(Len(frames) + 1)
      BY <2>2, <2>3, DrainFacts
    <3>2. \A i \in 1..(n - 1) : i \in DOMAIN state
      BY <2>3, <3>1
    <3>3. \A i \in 1..(n - 1) : state'[i] \in Resolved
      BY <2>4, <2>5, <3>1, <3>2
    <3> QED
      BY <1>1, <2>5, <3>1, <3>3 DEF SafeInv, ShiftedResolved, SettledStored
  <2>8. \A i \in DOMAIN state' : state'[i] # "miss-sent"
    <3>1. CASE head' <= Len(frames)
      BY <2>1, <2>3, <3>1, RelabelFacts DEF EntryState
    <3>2. CASE ~(head' <= Len(frames))
      <4>1. head' = Len(frames) + 1
        BY <1>1, <2>3, <3>2 DEF TypeInv, TypeOK
      <4>2. \A i \in DOMAIN state : state[i] \in Resolved
        BY <2>3, <2>4, <4>1
      <4> QED
        BY <2>5, <4>2 DEF Resolved
    <3> QED
      BY <3>1, <3>2
  <2>9. SentInFlight'
    BY <1>1, <2>1, <2>8 DEF SentInFlight, Connected
  <2> QED
    BY <1>2, <2>6, <2>7, <2>9 DEF SafeInv
<1> QED
  BY <1>3, <1>4

\* Bee stores the chunk before it acknowledges it.
LEMMA BeeStoresSafe ==
  ASSUME SafeInv, TypeInv', BeeStores
  PROVE  SafeInv'
<1>1. /\ wire # <<>> /\ wire' = Tail(wire)
      /\ stored' = stored \cup {frames[Head(wire)]}
      /\ replies' = Append(replies, [kind |-> "ack", frame |-> Head(wire)])
      /\ upstream \in Connected
      /\ UNCHANGED <<clientVars, queueVars, upstreamVars>>
  BY DEF BeeStores
<1>2. InFlight' = InFlight /\ InFlightSorted'
  BY <1>1, AnswerInFlight DEF SafeInv
<1> DEFINE r == [kind |-> "ack", frame |-> Head(wire)]
<1>3. Head(wire) \in DOMAIN frames /\ Head(wire) \in Nat \ {0}
  BY <1>1, TailFacts DEF SafeInv, TypeInv, TypeOK
<1>4. r \in Reply
  BY <1>3 DEF Reply
<1>5. /\ DOMAIN replies = 1..Len(replies) /\ Len(replies) \in Nat
      /\ DOMAIN replies' = 1..(Len(replies) + 1)
      /\ \A i \in 1..Len(replies) : replies'[i] = replies[i]
      /\ replies'[Len(replies) + 1] = r
  BY <1>1, <1>4, AppendFacts DEF SafeInv, TypeInv, TypeOK
<1>6. AnswersStored'
  <2> SUFFICES ASSUME NEW k \in DOMAIN replies'
               PROVE  /\ replies'[k].kind = "ack"
                      /\ replies'[k].frame \in DOMAIN frames
                      /\ frames[replies'[k].frame] \in stored'
    BY <1>1 DEF AnswersStored, queueVars
  <2>1. CASE k = Len(replies) + 1
    BY <1>1, <1>3, <1>5, <2>1
  <2>2. CASE k # Len(replies) + 1
    <3>1. k \in DOMAIN replies /\ replies'[k] = replies[k]
      BY <1>5, <2>2
    <3> QED
      BY <1>1, <3>1 DEF SafeInv, AnswersStored
  <2> QED
    BY <2>1, <2>2
<1>7. SentInFlight'
  BY <1>1, <1>2 DEF SafeInv, SentInFlight, queueVars, upstreamVars
<1>8. OneAckPerFrame' /\ CacheSound' /\ ShiftedResolved' /\ SettledStored'
  BY <1>1 DEF SafeInv, OneAckPerFrame, CacheSound, ShiftedResolved, SettledStored,
     clientVars, queueVars
<1> QED
  BY <1>2, <1>6, <1>7, <1>8 DEF SafeInv

LEMMA InitSafeInv == Init => SafeInv
<1> SUFFICES ASSUME Init PROVE SafeInv
  OBVIOUS
<1>1. TypeInv
  BY InitTypeInv
<1>2. DOMAIN state = {} /\ DOMAIN replies = {} /\ DOMAIN wire = {} /\ 1..(head - 1) = {}
  BY DEF Init
<1> QED
  BY <1>1, <1>2 DEF Init, SafeInv, OneAckPerFrame, CacheSound, ShiftedResolved, SettledStored,
     AnswersStored, SentInFlight, InFlightSorted, Connected

LEMMA NextSafeInv ==
  ASSUME Faults = {}
  PROVE  SafeInv /\ [Next]_vars => SafeInv'
<1> SUFFICES ASSUME SafeInv, [Next]_vars PROVE SafeInv'
  OBVIOUS
<1>1. TypeInv'
  BY NextTypeInv DEF SafeInv
<1>2. CASE \E p \in Payload : OnClientMessage(p)
  BY <1>1, <1>2, ClientMessageSafe
<1>3. CASE OnUpstreamMessage
  BY <1>1, <1>3, UpstreamMessageSafe
<1>4. CASE ConnectOpen
  BY <1>1, <1>4, ConnectOpenSafe
<1>5. CASE OnUpstreamClose
  BY <1>1, <1>5, UpstreamCloseSafe
<1>6. CASE BeeStores
  BY <1>1, <1>6, BeeStoresSafe
\* The other actions leave the queue, the cache, Bee and what is in flight
\* alone; a client that is open afterwards was open before.
<1>7. ASSUME UNCHANGED <<queueVars, beeVars>>,
             client' = "open" => client = "open",
             upstream' \in Connected <=> upstream \in Connected,
             upstream' = "null" => upstream = "null"
      PROVE  SafeInv'
  <2>1. InFlight' = InFlight /\ InFlightSorted'
    BY <1>7 DEF SafeInv, InFlight, InFlightSorted, beeVars
  <2>2. SentInFlight'
    BY <1>7, <2>1 DEF SafeInv, SentInFlight, queueVars, beeVars
  <2> QED
    BY <1>1, <1>7, <2>1, <2>2 DEF SafeInv, OneAckPerFrame, CacheSound, ShiftedResolved,
       SettledStored, AnswersStored, queueVars, beeVars
<1>8. CASE OnClientText
  BY <1>7, <1>8 DEF OnClientText, upstreamVars
<1>9. CASE ConnectFail
  BY <1>7, <1>9 DEF ConnectFail, CloseClient
<1>10. CASE ConnectWake
  BY <1>7, <1>10 DEF ConnectWake, clientVars
<1>11. CASE UpstreamCloses
  BY <1>7, <1>11 DEF UpstreamCloses, clientVars, Connected
<1>12. CASE ClientCloses
  BY <1>7, <1>12 DEF ClientCloses, upstreamVars
<1>13. CASE OnClientClose
  BY <1>7, <1>13 DEF OnClientClose, Connected
<1>14. CASE IdleTimeout
  BY <1>7, <1>14 DEF IdleTimeout, CloseClient, upstreamVars
<1>15. CASE BeeDropsSilently \/ BeeRejects
  BY <1>15 DEF BeeDropsSilently, BeeRejects
<1>16. CASE UNCHANGED vars
  BY <1>7, <1>16 DEF vars, clientVars, upstreamVars
<1> QED
  BY <1>2, <1>3, <1>4, <1>5, <1>6, <1>8, <1>9, <1>10, <1>11, <1>12, <1>13, <1>14, <1>15, <1>16
     DEF Next

LEMMA SafeInvHolds ==
  ASSUME Faults = {}
  PROVE  Spec => []SafeInv
BY InitSafeInv, NextSafeInv, PTL DEF Spec

\* With a Bee that acknowledges every chunk it is sent, the client never gets
\* an ack for a frame whose chunk Bee does not hold, across any number of
\* cache hits, lost connections, replays and failed attempts.
THEOREM AckedFramesAreStored ==
  ASSUME Faults = {}
  PROVE  Spec => []AckedFramesStored
<1>1. SafeInv => AckedFramesStored
  <2> SUFFICES ASSUME SafeInv, NEW i \in 1..acks
               PROVE  i \in DOMAIN frames /\ frames[i] \in stored
    BY DEF AckedFramesStored
  <2>1. i \in 1..(head - 1) /\ i \in DOMAIN frames /\ i \in DOMAIN state
    BY DEF SafeInv, TypeInv, TypeOK, OneAckPerFrame
  <2> QED
    BY <2>1 DEF SafeInv, ShiftedResolved, SettledStored
<1> QED
  BY <1>1, SafeInvHolds, PTL

\* ... and every chunk with a row in the cache is at Bee.
THEOREM CacheIsSound ==
  ASSUME Faults = {}
  PROVE  Spec => []CacheSound
<1>1. SafeInv => CacheSound
  BY DEF SafeInv
<1> QED
  BY <1>1, SafeInvHolds, PTL

\* ... because the first frame marked miss-sent is the one the next ack is
\* about.
THEOREM AcksAreAligned ==
  ASSUME Faults = {}
  PROVE  Spec => []AcksAligned
<1>1. SafeInv => AcksAligned
  <2> SUFFICES ASSUME SafeInv, upstream \in Connected
               PROVE  /\ InState(state, head, "miss-sent") = InFlight
                      /\ replies # <<>> => FirstSent(Head(replies).frame)
    BY DEF AcksAligned
  <2>1. /\ DOMAIN state = 1..Len(state) /\ DOMAIN frames = DOMAIN state /\ Len(state) \in Nat
        /\ head \in Nat \ {0}
    BY DEF SafeInv, TypeInv, TypeOK
  <2>2. \A i \in DOMAIN state : state[i] = "miss-sent" <=> i \in InFlight
    BY DEF SafeInv, SentInFlight
  <2>3. \A i \in DOMAIN state : state[i] = "miss-sent" => i \in head..Len(state)
    BY <2>1 DEF SafeInv, ShiftedResolved, Resolved
  <2>4. InState(state, head, "miss-sent") = InFlight
    BY <2>1, <2>2, <2>3, InFlightRange DEF InState
  <2>5. ASSUME replies # <<>> PROVE FirstSent(Head(replies).frame)
    <3>1. Head(replies).frame \in InFlight
      <4>1. Head(replies) = replies[1] /\ 1 \in DOMAIN replies
        BY <2>5 DEF SafeInv, TypeInv, TypeOK
      <4> QED
        BY <4>1 DEF InFlight
    <3>2. \A m \in InFlight : m = Head(replies).frame \/ Head(replies).frame < m
      BY <2>5, NextAnswerFirst DEF SafeInv
    <3>3. InFlight \subseteq Nat
      BY <2>1, InFlightRange
    <3> DEFINE a == Head(replies).frame
    <3>4. a \in InState(state, head, "miss-sent")
      BY <2>4, <3>1
    <3>5. \A m \in InState(state, head, "miss-sent") : a <= m
      <4> TAKE m \in InState(state, head, "miss-sent")
      <4>1. m \in Nat /\ a \in Nat
        BY <2>4, <3>1, <3>3
      <4>2. m = a \/ a < m
        BY <2>4, <3>2
      <4> HIDE DEF a
      <4> QED
        BY <4>1, <4>2
    <3> QED
      BY <3>4, <3>5 DEF FirstSent
  <2> QED
    BY <2>4, <2>5
<1> QED
  BY <1>1, SafeInvHolds, PTL

-----------------------------------------------------------------------------
(* What holds whatever Bee does.                                           *)

LEMMA InStateEmpty ==
  ASSUME NEW st, NEW h, NEW s
  PROVE  InState(st, h, s) = {} <=> \A i \in h..Len(st) : st[i] # s
  BY DEF InState

\* drain() sends one ack for each entry it shifts, and stops at an entry that
\* is not resolved.
LEMMA DrainCount ==
  ASSUME TypeOK, OneAckPerFrame,
         NEW f \in Seq(Payload), NEW st \in Seq(EntryState),
         Len(st) = Len(f), Len(f) >= Len(frames), NEW n, DrainTo(f, st, n)
  PROVE  /\ acks' <= head' - 1
         /\ client = "open" => acks' = head' - 1
         /\ head' = n
         /\ n \in head..(Len(f) + 1)
         /\ \A i \in head..(n - 1) : st[i] \in Resolved
         /\ n <= Len(st) => st[n] \notin Resolved
<1>1. /\ head' = n
      /\ n \in head..(Len(f) + 1)
      /\ \A i \in head..(n - 1) : st[i] \in Resolved
      /\ n <= Len(f) => st[n] \notin Resolved
      /\ acks' = IF client = "open" THEN acks + (n - head) ELSE acks
  BY DrainFacts
<1>2. head \in Nat \ {0} /\ acks \in Nat
  BY DEF TypeOK
<1> QED
  BY <1>1, <1>2 DEF OneAckPerFrame

LEMMA ClientMessageRobust ==
  ASSUME RobustInv, TypeInv', NEW p \in Payload, OnClientMessage(p)
  PROVE  RobustInv'
<1> DEFINE f == Append(frames, p)
<1> DEFINE L == Len(frames)
<1>1. /\ L \in Nat /\ L = Len(state)
      /\ f \in Seq(Payload) /\ Len(f) = L + 1 /\ Len(f) >= Len(frames)
  BY AppendFacts DEF RobustInv, TypeInv, TypeOK
<1>2. \A e \in EntryState :
        /\ Append(state, e) \in Seq(EntryState)
        /\ Len(Append(state, e)) = L + 1
        /\ \A i \in 1..L : Append(state, e)[i] = state[i]
        /\ Append(state, e)[L + 1] = e
  BY <1>1, AppendFacts DEF RobustInv, TypeInv, TypeOK
<1>3. /\ UNCHANGED <<client, upstream, connector>> /\ idleArmed' = TRUE
  BY DEF OnClientMessage, upstreamVars
<1>4. NoZombieSession'
  BY <1>3 DEF RobustInv, NoZombieSession
<1>5. /\ head \in 1..(L + 1) /\ head \in Nat
  BY <1>1 DEF RobustInv, TypeInv, TypeOK
<1>6. /\ \A i \in head..L : state[i] # "miss-acked"
      /\ head <= L => state[head] \notin Resolved
      /\ upstream = "null" => \A i \in head..L : state[i] # "miss-sent"
      /\ upstream = "open" => \A i \in head..L : state[i] # "miss-pending"
      /\ connector # "idle" => upstream = "null"
  BY <1>1, InStateEmpty DEF RobustInv, NoAckHeldBack, OneUpstream
<1> HIDE DEF f, L
<1>7. CASE canCache /\ p \in cache
  <2> DEFINE st == Append(state, "hit")
  <2>1. state' = st
    BY <1>7 DEF OnClientMessage
  <2>2. PICK n : DrainTo(f, st, n)
    BY <1>7 DEF OnClientMessage, f
  <2>3. /\ st \in Seq(EntryState) /\ Len(st) = L + 1
        /\ \A i \in 1..L : st[i] = state[i]
        /\ st[L + 1] = "hit"
    BY <1>2 DEF EntryState
  <2> HIDE DEF st
  <2>4. TypeOK /\ OneAckPerFrame
    BY DEF RobustInv, TypeInv
  <2>5. /\ acks' <= head' - 1
        /\ client = "open" => acks' = head' - 1
        /\ head' = n
        /\ n \in head..(L + 2)
        /\ n <= L + 1 => st[n] \notin Resolved
    BY <1>1, <2>2, <2>3, <2>4, DrainCount
  <2>6. \A i \in n..(L + 1) : (i \in head..L /\ st[i] = state[i]) \/ st[i] = "hit"
    BY <1>1, <1>5, <2>3, <2>5
  <2>7. OneAckPerFrame'
    BY <1>3, <2>5 DEF OneAckPerFrame
  <2>8. NoAckHeldBack'
    <3>1. \A i \in n..(L + 1) : st[i] # "miss-acked"
      BY <1>6, <2>6
    <3> QED
      BY <2>1, <2>3, <2>5, <3>1, InStateEmpty DEF NoAckHeldBack
  <2>9. OneUpstream'
    <3>1. upstream = "null" => \A i \in n..(L + 1) : st[i] # "miss-sent"
      BY <1>6, <2>6
    <3>2. upstream = "open" => \A i \in n..(L + 1) : st[i] # "miss-pending"
      BY <1>6, <2>6
    <3> QED
      BY <1>3, <1>6, <2>1, <2>3, <2>5, <3>1, <3>2, InStateEmpty DEF OneUpstream
  <2>10. PendingLast'
    BY <1>1, <2>1, <2>3, <2>5, <2>6 DEF RobustInv, PendingLast
  <2> QED
    BY <1>4, <2>7, <2>8, <2>9, <2>10 DEF RobustInv
<1>8. CASE ~(canCache /\ p \in cache)
  <2> DEFINE e == IF upstream = "open" THEN "miss-sent" ELSE "miss-pending"
  <2> DEFINE st == Append(state, e)
  <2>1. state' = st /\ UNCHANGED <<head, acks>>
    BY <1>8 DEF OnClientMessage
  <2>2. /\ Len(st) = L + 1
        /\ \A i \in 1..L : st[i] = state[i]
        /\ st[L + 1] = e
    BY <1>2 DEF EntryState
  <2>3. /\ e \notin Resolved /\ e # "miss-acked"
        /\ e = "miss-sent" <=> upstream = "open"
        /\ e = "miss-pending" <=> upstream # "open"
    BY DEF Resolved
  <2> HIDE DEF e, st
  <2>4. \A i \in head..(L + 1) : (i \in head..L /\ st[i] = state[i]) \/ (i = L + 1 /\ st[i] = e)
    BY <1>1, <1>5, <2>2
  <2>5. OneAckPerFrame'
    BY <1>3, <2>1 DEF RobustInv, OneAckPerFrame
  <2>6. NoAckHeldBack'
    <3>1. \A i \in head..(L + 1) : st[i] # "miss-acked"
      BY <1>6, <2>3, <2>4
    <3>2. head <= L + 1 => st[head] \notin Resolved
      BY <1>1, <1>5, <1>6, <2>2, <2>3
    <3> QED
      BY <2>1, <2>2, <3>1, <3>2, InStateEmpty DEF NoAckHeldBack
  <2>7. OneUpstream'
    <3>1. upstream = "null" => \A i \in head..(L + 1) : st[i] # "miss-sent"
      BY <1>6, <2>3, <2>4
    <3>2. upstream = "open" => \A i \in head..(L + 1) : st[i] # "miss-pending"
      BY <1>6, <2>3, <2>4
    <3> QED
      BY <1>3, <1>6, <2>1, <2>2, <3>1, <3>2, InStateEmpty DEF OneUpstream
  <2>8. PendingLast'
    <3> SUFFICES ASSUME NEW i \in head..(L + 1), NEW j \in head..(L + 1), i < j,
                        st[i] = "miss-pending"
                 PROVE  st[j] # "miss-sent"
      BY <2>1, <2>2 DEF PendingLast
    <3>1. i \in head..L /\ st[i] = state[i]
      BY <1>1, <1>5, <2>4
    <3>2. CASE j = L + 1
      BY <1>6, <2>2, <2>3, <3>1, <3>2
    <3>3. CASE j # L + 1
      BY <1>1, <2>4, <3>1, <3>3 DEF RobustInv, PendingLast
    <3> QED
      BY <3>2, <3>3
  <2> QED
    BY <1>4, <2>5, <2>6, <2>7, <2>8 DEF RobustInv
<1> QED
  BY <1>7, <1>8

\* The first frame marked miss-sent is the head of the queue: an ack resolves
\* the head, and drain() shifts it.
LEMMA UpstreamMessageRobust ==
  ASSUME RobustInv, TypeInv', OnUpstreamMessage
  PROVE  RobustInv'
<1> DEFINE L == Len(frames)
<1>1. /\ UNCHANGED <<client, upstream, connector>> /\ idleArmed' = (client # "closed")
  BY DEF OnUpstreamMessage, upstreamVars
<1>2. NoZombieSession'
  BY <1>1 DEF RobustInv, NoZombieSession
<1>3. /\ L \in Nat /\ L = Len(state) /\ head \in 1..(L + 1) /\ head \in Nat
      /\ frames \in Seq(Payload) /\ state \in Seq(EntryState) /\ Len(frames) >= Len(frames)
  BY DEF RobustInv, TypeInv, TypeOK
<1>4. /\ \A j \in head..L : state[j] # "miss-acked"
      /\ head <= L => state[head] \notin Resolved
      /\ upstream = "null" => \A j \in head..L : state[j] # "miss-sent"
      /\ upstream = "open" => \A j \in head..L : state[j] # "miss-pending"
      /\ connector # "idle" => upstream = "null"
  BY <1>3, InStateEmpty DEF RobustInv, NoAckHeldBack, OneUpstream
<1>5. CASE UNCHANGED queueVars
  BY <1>1, <1>2, <1>5 DEF RobustInv, OneAckPerFrame, NoAckHeldBack, OneUpstream, PendingLast,
     queueVars
<1>6. ASSUME NEW i \in head..L, FirstSent(i), frames' = frames,
             state' = [state EXCEPT ![i] = "miss-acked"],
             NEW n, DrainTo(frames, [state EXCEPT ![i] = "miss-acked"], n)
      PROVE  RobustInv'
  <2> DEFINE st == [state EXCEPT ![i] = "miss-acked"]
  <2>1. /\ i \in 1..L /\ i \in head..L /\ state[i] = "miss-sent"
        /\ \A j \in head..L : state[j] = "miss-sent" => i <= j
    BY <1>3, <1>6 DEF FirstSent, InState
  <2>2. /\ st \in Seq(EntryState) /\ Len(st) = L
        /\ \A j \in 1..L : st[j] = IF j = i THEN "miss-acked" ELSE state[j]
    BY <1>3, <2>1, ExceptSeq DEF EntryState
  <2>3. state' = st /\ DrainTo(frames, st, n)
    BY <1>6
  <2> HIDE DEF st
  <2>4. i = head
    <3>1. state[head] \in EntryState /\ head <= L
      BY <1>3, <2>1
    <3>2. state[head] = "miss-pending" \/ state[head] = "miss-sent"
      BY <1>4, <3>1 DEF EntryState, Resolved
    <3>3. ASSUME head < i PROVE FALSE
      <4>1. state[head] # "miss-pending"
        BY <1>3, <2>1, <3>1, <3>3 DEF RobustInv, PendingLast
      <4> QED
        BY <1>3, <2>1, <3>1, <3>2, <3>3, <4>1
    <3> QED
      BY <1>3, <2>1, <3>3
  <2>5. /\ acks' <= head' - 1
        /\ client = "open" => acks' = head' - 1
        /\ head' = n
        /\ n \in head..(L + 1)
        /\ n <= L => st[n] \notin Resolved
    BY <1>3, <2>2, <2>3, DrainCount DEF RobustInv, TypeInv
  <2>6. n # head
    BY <2>1, <2>2, <2>4, <2>5 DEF Resolved
  <2>7. \A j \in n..L : j \in head..L /\ j # i /\ st[j] = state[j]
    BY <1>3, <2>2, <2>4, <2>5, <2>6
  <2>8. OneAckPerFrame'
    BY <1>1, <2>5 DEF OneAckPerFrame
  <2>9. NoAckHeldBack'
    <3>1. \A j \in n..L : st[j] # "miss-acked"
      BY <1>4, <2>7
    <3> QED
      BY <2>2, <2>3, <2>5, <3>1, InStateEmpty DEF NoAckHeldBack
  <2>10. OneUpstream'
    <3>1. upstream = "null" => \A j \in n..L : st[j] # "miss-sent"
      BY <1>4, <2>7
    <3>2. upstream = "open" => \A j \in n..L : st[j] # "miss-pending"
      BY <1>4, <2>7
    <3> QED
      BY <1>1, <1>4, <2>2, <2>3, <2>5, <3>1, <3>2, InStateEmpty DEF OneUpstream
  <2>11. PendingLast'
    BY <1>3, <2>2, <2>3, <2>5, <2>7 DEF RobustInv, PendingLast
  <2> QED
    BY <1>2, <2>8, <2>9, <2>10, <2>11 DEF RobustInv
<1> QED
  BY <1>5, <1>6 DEF OnUpstreamMessage, OnAck, OnText

\* Every pending frame is replayed on the fresh connection.
LEMMA ConnectOpenRobust ==
  ASSUME RobustInv, TypeInv', ConnectOpen
  PROVE  RobustInv'
<1>1. /\ connector' = "idle" /\ upstream' = "open"
      /\ UNCHANGED <<client, idleArmed, frames, head, acks>>
      /\ state' = Relabel(state, "miss-pending", "miss-sent")
  BY DEF ConnectOpen, clientVars
<1>2. /\ state \in Seq(EntryState) /\ DOMAIN state = 1..Len(state) /\ Len(state) \in Nat
      /\ head \in Nat \ {0}
  BY DEF RobustInv, TypeInv, TypeOK
<1>3. /\ Len(state') = Len(state)
      /\ \A j \in DOMAIN state : state'[j] = IF state[j] = "miss-pending" THEN "miss-sent" ELSE state[j]
  BY <1>1, <1>2, RelabelFacts DEF EntryState
<1>4. \A j \in head..Len(state) : j \in DOMAIN state
  BY <1>2
<1>5. NoAckHeldBack'
  <2>1. \A j \in head..Len(state) : state'[j] # "miss-acked"
    BY <1>3, <1>4, InStateEmpty DEF RobustInv, NoAckHeldBack
  <2>2. head <= Len(state) => state'[head] \notin Resolved
    BY <1>2, <1>3, <1>4 DEF RobustInv, NoAckHeldBack, Resolved
  <2> QED
    BY <1>1, <1>3, <2>1, <2>2, InStateEmpty DEF NoAckHeldBack
<1>6. \A j \in head..Len(state) : state'[j] # "miss-pending"
  BY <1>3, <1>4
<1>7. OneUpstream' /\ PendingLast'
  BY <1>1, <1>3, <1>6, InStateEmpty DEF OneUpstream, PendingLast
<1>8. OneAckPerFrame' /\ NoZombieSession'
  BY <1>1 DEF RobustInv, OneAckPerFrame, NoZombieSession, Connected
<1> QED
  BY <1>5, <1>7, <1>8 DEF RobustInv

\* There is nothing to drain when the connection goes down; what was sent is
\* marked for replay, or the session ends.
LEMMA UpstreamCloseRobust ==
  ASSUME RobustInv, TypeInv', OnUpstreamClose
  PROVE  RobustInv'
<1>1. /\ upstream = "closing" /\ UNCHANGED <<frames, idleArmed>>
  BY DEF OnUpstreamClose
<1>2. CASE client = "closed"
  <2>1. /\ upstream' = "closed" /\ UNCHANGED <<client, state, head, acks, connector>>
    BY <1>2 DEF OnUpstreamClose
  <2> QED
    BY <1>1, <1>2, <2>1 DEF RobustInv, OneAckPerFrame, NoAckHeldBack, NoZombieSession, OneUpstream,
       PendingLast
<1>3. CASE client # "closed"
  <2>1. PICK n : DrainTo(frames, state, n)
    BY <1>3 DEF OnUpstreamClose
  <2>2. /\ state \in Seq(EntryState) /\ Len(state) = Len(frames) /\ DOMAIN state = 1..Len(state)
        /\ frames \in Seq(Payload) /\ Len(frames) >= Len(frames) /\ Len(frames) \in Nat
        /\ head \in 1..(Len(frames) + 1) /\ head \in Nat /\ TypeOK /\ OneAckPerFrame
    BY DEF RobustInv, TypeInv, TypeOK
  <2>3. /\ head' = n
        /\ n \in head..(Len(frames) + 1)
        /\ \A i \in head..(n - 1) : state[i] \in Resolved
        /\ acks' <= head' - 1
        /\ client = "open" => acks' = head' - 1
    BY <2>1, <2>2, DrainCount
  <2>4. n = head
    BY <2>2, <2>3 DEF RobustInv, NoAckHeldBack
  <2>5. /\ upstream' = "null" /\ (client' = "open" => client = "open")
        /\ state' = state \/ state' = Relabel(state, "miss-sent", "miss-pending")
        /\ head > Len(frames) => state' = state
        /\ head <= Len(frames) => state' = Relabel(state, "miss-sent", "miss-pending")
        /\ client' = "open" => connector' # "idle"
    BY <1>3, <2>2, <2>3, <2>4 DEF OnUpstreamClose, CloseClient
  <2>6. /\ Len(state') = Len(state)
        /\ \A j \in head..Len(state) :
              state'[j] = IF state[j] = "miss-sent" THEN "miss-pending" ELSE state[j]
    <3>1. CASE head > Len(frames)
      BY <2>2, <2>5, <3>1
    <3>2. CASE head <= Len(frames)
      <4>1. /\ Len(state') = Len(state)
            /\ \A j \in DOMAIN state : state'[j] = IF state[j] = "miss-sent" THEN "miss-pending" ELSE state[j]
        BY <2>2, <2>5, <3>2, RelabelFacts DEF EntryState
      <4> QED
        BY <2>2, <4>1
    <3> QED
      BY <2>2, <3>1, <3>2
  <2>7. \A j \in head..Len(state) : state'[j] # "miss-sent" /\ state'[j] # "miss-acked"
    BY <2>6, InStateEmpty DEF RobustInv, NoAckHeldBack
  <2>8. NoAckHeldBack'
    <3>1. head <= Len(state) => state'[head] \notin Resolved
      BY <2>2, <2>6 DEF RobustInv, NoAckHeldBack, Resolved
    <3> QED
      BY <2>3, <2>4, <2>6, <2>7, <3>1, InStateEmpty DEF NoAckHeldBack
  <2>9. OneUpstream' /\ PendingLast'
    BY <2>3, <2>4, <2>5, <2>6, <2>7, InStateEmpty DEF OneUpstream, PendingLast
  <2>10. OneAckPerFrame'
    BY <2>3, <2>5 DEF OneAckPerFrame
  <2>11. NoZombieSession'
    <3> SUFFICES ASSUME client' = "open" PROVE idleArmed' /\ connector' # "idle"
      BY DEF NoZombieSession
    <3>1. idleArmed
      BY <2>5 DEF RobustInv, NoZombieSession
    <3> QED
      BY <1>1, <2>5, <3>1
  <2> QED
    BY <2>11, <2>8, <2>9, <2>10 DEF RobustInv
<1> QED
  BY <1>2, <1>3

LEMMA InitRobustInv == Init => RobustInv
<1> SUFFICES ASSUME Init PROVE RobustInv
  OBVIOUS
<1>1. TypeInv
  BY InitTypeInv
<1>2. head..Len(state) = {} /\ ~(head <= Len(state)) /\ acks <= head - 1 /\ acks = head - 1
  BY DEF Init
<1>3. NoAckHeldBack /\ OneUpstream /\ PendingLast /\ OneAckPerFrame
  BY <1>2, InStateEmpty DEF NoAckHeldBack, OneUpstream, PendingLast, OneAckPerFrame, Init
<1>4. NoZombieSession
  BY DEF Init, NoZombieSession
<1> QED
  BY <1>1, <1>3, <1>4 DEF RobustInv

LEMMA NextRobustInv == RobustInv /\ [Next]_vars => RobustInv'
<1> SUFFICES ASSUME RobustInv, [Next]_vars PROVE RobustInv'
  OBVIOUS
<1>1. TypeInv'
  BY NextTypeInv DEF RobustInv
<1>2. CASE \E p \in Payload : OnClientMessage(p)
  BY <1>1, <1>2, ClientMessageRobust
<1>3. CASE OnUpstreamMessage
  BY <1>1, <1>3, UpstreamMessageRobust
<1>4. CASE ConnectOpen
  BY <1>1, <1>4, ConnectOpenRobust
<1>5. CASE OnUpstreamClose
  BY <1>1, <1>5, UpstreamCloseRobust
\* The other actions leave the queue alone.
<1>6. ASSUME UNCHANGED queueVars, client' = "open" => client = "open",
             NoZombieSession', OneUpstream'
      PROVE  RobustInv'
  BY <1>1, <1>6 DEF RobustInv, OneAckPerFrame, NoAckHeldBack, PendingLast, queueVars
\* Most of them leave the connection alone, too.
<1>7. ASSUME UNCHANGED <<queueVars, upstreamVars>>, client' = "open" => client = "open",
             NoZombieSession'
      PROVE  RobustInv'
  <2>1. OneUpstream'
    BY <1>7 DEF RobustInv, OneUpstream, queueVars, upstreamVars
  <2> QED
    BY <1>6, <1>7, <2>1
<1>8. ASSUME UNCHANGED <<clientVars, queueVars, upstreamVars>> PROVE RobustInv'
  <2>1. NoZombieSession'
    BY <1>8 DEF RobustInv, NoZombieSession, clientVars, upstreamVars
  <2> QED
    BY <1>7, <1>8, <2>1 DEF clientVars
<1>9. CASE OnClientText
  <2>1. NoZombieSession'
    BY <1>9 DEF OnClientText, RobustInv, NoZombieSession, upstreamVars
  <2> QED
    BY <1>7, <1>9, <2>1 DEF OnClientText
<1>10. CASE ConnectFail
  <2>1. UNCHANGED <<queueVars, idleArmed, upstream>> /\ (client' = "open" => client = "open")
    BY <1>10 DEF ConnectFail, CloseClient
  <2>2. connector # "idle" /\ (client' = "open" => connector' # "idle")
    BY <1>10 DEF ConnectFail, CloseClient
  <2>3. OneUpstream'
    BY <2>1, <2>2 DEF RobustInv, OneUpstream, queueVars
  <2>4. NoZombieSession'
    BY <2>1, <2>2 DEF RobustInv, NoZombieSession
  <2> QED
    BY <1>6, <2>1, <2>3, <2>4
<1>11. CASE ConnectWake
  <2>1. UNCHANGED <<queueVars, client, idleArmed, upstream>>
    BY <1>11 DEF ConnectWake, clientVars
  <2>2. connector = "sleeping" /\ (client # "closed" => connector' = "opening")
    BY <1>11 DEF ConnectWake
  <2>3. OneUpstream'
    BY <2>1, <2>2 DEF RobustInv, OneUpstream, queueVars
  <2>4. NoZombieSession'
    <3> SUFFICES ASSUME client' = "open" PROVE idleArmed' /\ connector' # "idle"
      BY DEF NoZombieSession
    <3>1. idleArmed
      BY <2>1 DEF RobustInv, NoZombieSession
    <3> QED
      BY <2>1, <2>2, <3>1
  <2> QED
    BY <1>6, <2>1, <2>3, <2>4
<1>12. CASE UpstreamCloses
  <2>1. /\ UNCHANGED <<queueVars, clientVars, connector>>
        /\ upstream = "open" /\ upstream' = "closing"
    BY <1>12 DEF UpstreamCloses
  <2>2. OneUpstream'
    BY <2>1 DEF RobustInv, OneUpstream, queueVars
  <2>3. NoZombieSession'
    BY <2>1 DEF RobustInv, NoZombieSession, clientVars, Connected
  <2> QED
    BY <1>6, <2>1, <2>2, <2>3 DEF clientVars
<1>13. CASE ClientCloses
  <2>1. client' # "open" /\ UNCHANGED <<queueVars, upstreamVars>>
    BY <1>13 DEF ClientCloses
  <2> QED
    BY <1>7, <2>1 DEF NoZombieSession
<1>14. CASE OnClientClose
  <2>1. client' # "open" /\ UNCHANGED <<queueVars, connector>>
    BY <1>14 DEF OnClientClose
  <2>2. OneUpstream'
    <3>1. upstream' = IF upstream = "open" THEN "closing" ELSE upstream
      BY <1>14 DEF OnClientClose
    <3> QED
      BY <2>1, <3>1 DEF RobustInv, OneUpstream, queueVars
  <2> QED
    BY <1>6, <2>1, <2>2 DEF NoZombieSession
<1>15. CASE IdleTimeout
  <2>1. client' # "open" /\ UNCHANGED <<queueVars, upstreamVars>>
    BY <1>15 DEF IdleTimeout, CloseClient
  <2> QED
    BY <1>7, <2>1 DEF NoZombieSession
<1>16. CASE BeeStores \/ BeeDropsSilently \/ BeeRejects
  BY <1>8, <1>16 DEF BeeStores, BeeDropsSilently, BeeRejects
<1>17. CASE UNCHANGED vars
  BY <1>8, <1>17 DEF vars
<1> QED
  BY <1>2, <1>3, <1>4, <1>5, <1>9, <1>10, <1>11, <1>12, <1>13, <1>14, <1>15, <1>16, <1>17 DEF Next

LEMMA RobustInvHolds == Spec => []RobustInv
BY InitRobustInv, NextRobustInv, PTL DEF Spec

\* Whatever Bee does, no handler leaves an acknowledged frame in the queue or
\* a resolved one at its head: acks go out as soon as their turn comes.
THEOREM NoAckIsHeldBack == Spec => []NoAckHeldBack
<1>1. RobustInv => NoAckHeldBack
  BY DEF RobustInv
<1> QED
  BY <1>1, RobustInvHolds, PTL

\* Whatever Bee does, an open client has been sent one ack for each frame that
\* has left the queue.
THEOREM EachFrameIsAckedOnce == Spec => []OneAckPerFrame
<1>1. RobustInv => OneAckPerFrame
  BY DEF RobustInv
<1> QED
  BY <1>1, RobustInvHolds, PTL

\* Whatever Bee does, an open client has a running idle timer and a connection
\* or a connect() under way.
THEOREM OpenSessionsAreServed == Spec => []NoZombieSession
<1>1. RobustInv => NoZombieSession
  BY DEF RobustInv
<1> QED
  BY <1>1, RobustInvHolds, PTL

\* Whatever Bee does, connect() never runs while there is a connection, and
\* the states of the queued frames say whether there is one.
THEOREM ThereIsOneUpstream == Spec => []OneUpstream
<1>1. RobustInv => OneUpstream
  BY DEF RobustInv
<1> QED
  BY <1>1, RobustInvHolds, PTL

-----------------------------------------------------------------------------
(* A session implements the acknowledged stream (AckedStream), if Bee      *)
(* acknowledges every chunk.                                               *)

\* What the step simulation needs of a reachable state.
SimInv == SafeInv /\ RobustInv /\ AckedFramesStored

StreamStep == [Stream!Next]_(Stream!vars)

LEMMA AcksBound ==
  ASSUME SafeInv', NEW L, L = Len(frames')
  PROVE  acks' \in Nat /\ L \in Nat /\ acks' <= L
<1>1. frames' \in Seq(Payload) /\ head' \in 1..(L + 1) /\ acks' \in Nat
  BY DEF SafeInv, TypeInv, TypeOK
<1>2. L \in Nat
  BY <1>1
<1>3. PICK h, a : h = head' /\ a = acks'
  OBVIOUS
<1>4. a <= h - 1
  BY <1>3 DEF SafeInv, OneAckPerFrame
<1>5. h \in 1..(L + 1) /\ a \in Nat
  BY <1>1, <1>3
<1>6. a <= L
  BY <1>2, <1>4, <1>5
<1> QED
  BY <1>1, <1>2, <1>3, <1>6

\* A step that leaves the frames, the acks and Bee's store alone, and does not
\* open the client again, is a stutter or closes the stream.
LEMMA QuietStep ==
  ASSUME UNCHANGED <<frames, acks, stored>>, client' = "open" => client = "open"
  PROVE  StreamStep
<1>1. CASE (client = "open") = (client' = "open")
  BY <1>1 DEF StreamStep, Stream!vars
<1>2. CASE client = "open" /\ client' # "open"
  <2>1. Stream!Close
    BY <1>2 DEF Stream!Close
  <2> QED
    BY <2>1 DEF StreamStep, Stream!Next
<1> QED
  BY <1>1, <1>2

\* A step of the queue sends acks only to an open client, and only forwards.
LEMMA AckStep ==
  ASSUME SafeInv, SafeInv', AckedFramesStored', UNCHANGED <<frames, stored, client>>,
         acks' = acks \/ (client = "open" /\ acks' > acks)
  PROVE  StreamStep
<1>1. CASE acks' = acks
  BY <1>1, QuietStep
<1>2. CASE client = "open" /\ acks' > acks
  <2>1. acks \in Nat /\ acks' \in Nat /\ Len(frames) \in Nat /\ acks' <= Len(frames)
    BY AcksBound DEF SafeInv, TypeInv, TypeOK
  <2>2. \A i \in 1..acks' : frames[i] \in stored
    BY DEF AckedFramesStored
  <2>3. acks' \in (acks + 1)..Len(frames)
    BY <1>2, <2>1
  <2>4. Stream!Acknowledge
    BY <1>2, <2>2, <2>3 DEF Stream!Acknowledge, Stream!AllStored
  <2> QED
    BY <2>4 DEF StreamStep, Stream!Next
<1> QED
  BY <1>1, <1>2

\* drain() sends acks only to an open client.
LEMMA DrainAcks ==
  ASSUME TypeOK, NEW f, NEW st, NEW n, DrainTo(f, st, n)
  PROVE  acks' = acks \/ (client = "open" /\ acks' > acks)
<1>1. acks \in Nat /\ head \in Nat
  BY DEF TypeOK
<1>2. n \in Nat /\ n >= head /\ acks' = IF client = "open" THEN acks + (n - head) ELSE acks
  BY <1>1 DEF DrainTo, DrainsTo
<1> QED
  BY <1>1, <1>2

LEMMA InitStream == Init => Stream!Init
  BY DEF Init, Stream!Init

LEMMA ClientMessageStream ==
  ASSUME SafeInv, SafeInv', AckedFramesStored', NEW p \in Payload, OnClientMessage(p)
  PROVE  StreamStep
<1>1. frames' = Append(frames, p) /\ UNCHANGED <<stored, client>>
  BY DEF OnClientMessage
<1>2. acks' = acks \/ (client = "open" /\ acks' > acks)
  BY DrainAcks DEF OnClientMessage, SafeInv, TypeInv
<1>3. acks \in Nat /\ acks' \in Nat /\ Len(frames') \in Nat /\ acks' <= Len(frames')
      /\ \A i \in 1..acks' : frames'[i] \in stored
  BY <1>1, AcksBound DEF SafeInv, TypeInv, TypeOK, AckedFramesStored
<1>4. acks' \in acks..Len(frames')
  BY <1>2, <1>3
<1>5. Stream!Submit(p)
  <2>1. acks' > acks => client = "open" /\ \A i \in 1..acks' : frames'[i] \in stored
    BY <1>2, <1>3
  <2>2. \E n \in acks..Len(frames') :
          /\ n > acks => client = "open" /\ \A i \in 1..n : frames'[i] \in stored
          /\ acks' = n
    BY <1>4, <2>1
  <2> QED
    BY <1>1, <2>2 DEF Stream!Submit, Stream!AllStored
<1> QED
  BY <1>5 DEF StreamStep, Stream!Next

\* Every step of the session is a step of the stream or does not show.
LEMMA NextStream ==
  ASSUME Faults = {}
  PROVE  SimInv /\ SimInv' /\ [Next]_vars => StreamStep
<1> SUFFICES ASSUME SimInv, SimInv', [Next]_vars PROVE StreamStep
  OBVIOUS
<1> USE DEF SimInv
<1>1. CASE \E p \in Payload : OnClientMessage(p)
  BY <1>1, ClientMessageStream
<1>2. CASE OnUpstreamMessage
  <2>1. UNCHANGED <<frames, stored, client>>
    BY <1>2 DEF OnUpstreamMessage, OnAck, OnText, queueVars
  <2>2. acks' = acks \/ (client = "open" /\ acks' > acks)
    BY <1>2, DrainAcks DEF OnUpstreamMessage, OnAck, OnText, queueVars, SafeInv, TypeInv
  <2> QED
    BY <2>1, <2>2, AckStep
<1>3. CASE OnUpstreamClose
  <2>1. UNCHANGED <<frames, stored>> /\ (client' = "open" => client = "open")
    BY <1>3 DEF OnUpstreamClose, CloseClient
  <2>2. acks' = acks
    <3>1. CASE client = "closed"
      BY <1>3, <3>1 DEF OnUpstreamClose
    <3>2. CASE client # "closed"
      <4>1. PICK n \in head..(Len(frames) + 1) : DrainTo(frames, state, n)
        BY <1>3, <3>2 DEF OnUpstreamClose
      <4>2. head \in Nat /\ Len(frames) \in Nat /\ Len(state) = Len(frames) /\ acks \in Nat
        BY DEF SafeInv, TypeInv, TypeOK
      <4>3. n = head
        BY <4>1, <4>2 DEF DrainTo, DrainsTo, RobustInv, NoAckHeldBack
      <4> QED
        BY <4>1, <4>2, <4>3 DEF DrainTo
    <3> QED
      BY <3>1, <3>2
  <2> QED
    BY <2>1, <2>2, QuietStep
<1>4. CASE BeeStores
  <2>1. /\ wire # <<>> /\ stored' = stored \cup {frames[Head(wire)]}
        /\ UNCHANGED <<frames, acks, client>>
    BY <1>4 DEF BeeStores, clientVars, queueVars
  <2>2. Head(wire) \in DOMAIN frames
    BY <2>1, TailFacts DEF SafeInv, TypeInv, TypeOK
  <2>3. Stream!Store
    BY <2>1, <2>2 DEF Stream!Store
  <2> QED
    BY <2>3 DEF StreamStep, Stream!Next
<1>5. ASSUME UNCHANGED <<queueVars, beeVars>> \/ UNCHANGED <<queueVars, stored>>,
             client' = "open" => client = "open"
      PROVE  StreamStep
  BY <1>5, QuietStep DEF queueVars, beeVars
<1>6. CASE OnClientText \/ ConnectFail \/ ConnectWake \/ UpstreamCloses
  BY <1>5, <1>6 DEF OnClientText, ConnectFail, ConnectWake, UpstreamCloses, CloseClient, clientVars
<1>7. CASE ClientCloses \/ OnClientClose \/ IdleTimeout
  BY <1>5, <1>7 DEF ClientCloses, OnClientClose, IdleTimeout, CloseClient
<1>8. CASE ConnectOpen
  BY <1>8, QuietStep DEF ConnectOpen, clientVars
<1>9. CASE BeeDropsSilently \/ BeeRejects
  BY <1>9 DEF BeeDropsSilently, BeeRejects
<1>10. CASE UNCHANGED vars
  BY <1>5, <1>10 DEF vars, clientVars
<1> QED
  BY <1>1, <1>2, <1>3, <1>4, <1>6, <1>7, <1>8, <1>9, <1>10 DEF Next

\* With a Bee that acknowledges every chunk, what the client sees of the
\* session, through cache, lost connections and replays, is one acknowledged
\* stream: the n-th ack is sent only when the first n chunks are stored, and
\* nothing is acknowledged after the close (ws-proxy.ts:3-14).
THEOREM SessionImplementsStream ==
  ASSUME Faults = {}
  PROVE  Spec => StreamSpec
<1>1. Init /\ SimInv => Stream!Init
  BY InitStream
<1>2. SimInv /\ SimInv' /\ [Next]_vars => [Stream!Next]_(Stream!vars)
  BY NextStream DEF StreamStep
<1>3. Spec => []SimInv
  BY SafeInvHolds, RobustInvHolds, AckedFramesAreStored, PTL DEF SimInv
<1> QED
  BY <1>1, <1>2, <1>3, PTL DEF Spec, StreamSpec, Stream!Spec

-----------------------------------------------------------------------------
(* The HTTP side.                                                          *)

\* What the conjuncts of HttpInv say of one request.
Good(r) ==
  /\ pc[r] \in {"idle", "streaming", "hanging"} => ask[r] = Nothing
  /\ pc[r] \in {"reading"} \cup AtUpstream => ask[r] \in Ask
  /\ pc[r] = "reading" => ask[r].method = "POST"
  /\ pc[r] = "backoff" => attempts[r] < MaxAttempts
  /\ pc[r] = "replying" \/ (pc[r] = "answered" /\ ask[r] # Nothing) =>
       answer[r] \in Success \cup {Refusal}
  /\ pc[r] = "replying" /\ answer[r].ok => answer[r] = Fits(ask[r]) /\ ask[r] \in served
  /\ pc[r] = "answered" /\ ask[r] # Nothing /\ ask[r].method = "POST" /\ answer[r].ok =>
       answer[r] \in Given("POST", ask[r].body) /\ ask[r].body \in atBee
  /\ pc[r] = "answered" /\ ask[r] # Nothing /\ ask[r].method = "GET" /\ answer[r].ok =>
       answer[r] \in Given("GET", ask[r].body)

\* What they say of the rows, and of what Bee gave.
GoodRows ==
  /\ \A w \in uploads : w.answer \in Given("POST", w.body) /\ w.body \in atBee
  /\ \A w \in downloads : w.answer \in Given("GET", w.body)
  /\ \A q \in served : q.body \in atBee

LEMMA HttpInvParts == HttpInv <=> HttpTypeOK /\ GoodRows /\ \A r \in Request : Good(r)
BY DEF HttpInv, Coherent, RepliesSound, UploadsSound, DownloadsSound, Good, GoodRows

LEMMA HttpInvMade == HttpTypeOK' /\ GoodRows' /\ (\A r \in Request : Good(r)') => HttpInv'
BY DEF HttpInv, Coherent, RepliesSound, UploadsSound, DownloadsSound, Good, GoodRows

\* What Bee gave, it gave.
LEMMA GivenGrows ==
  ASSUME served \subseteq served', NEW method, NEW b
  PROVE  Given(method, b) \subseteq Given(method, b)'
BY DEF Given

LEMMA GivenIs ==
  ASSUME NEW q \in served
  PROVE  Fits(q) \in Given(q.method, q.body)
BY DEF Given

LEMMA GivenSucceeds ==
  ASSUME HttpTypeOK, NEW method, NEW b
  PROVE  \A a \in Given(method, b) : a \in Success
<1> SUFFICES ASSUME NEW a \in Given(method, b) PROVE a \in Success
  OBVIOUS
<1>1. PICK q \in served : a = Fits(q)
  BY DEF Given
<1>2. q \in Ask
  BY DEF HttpTypeOK
<1> QED
  BY <1>1, <1>2 DEF Fits, Ask, Success

-----------------------------------------------------------------------------
(* One request at a time.                                                  *)

Same(r) == pc'[r] = pc[r] /\ ask'[r] = ask[r] /\ attempts'[r] = attempts[r] /\ answer'[r] = answer[r]

LEMMA OthersStayGood ==
  ASSUME NEW r \in Request, Good(r), Same(r), atBee \subseteq atBee', served \subseteq served'
  PROVE  Good(r)'
<1>1. \A method, b : Given(method, b) \subseteq Given(method, b)'
  BY GivenGrows
<1> QED
  BY <1>1 DEF Good, Same, Fits

\* A step of one request leaves the others alone.
LEMMA OneGood ==
  ASSUME NEW r \in Request, \A q \in Request : Good(q), atBee \subseteq atBee', served \subseteq served',
         \A q \in Request \ {r} : Same(q), Good(r)'
  PROVE  \A q \in Request : Good(q)'
BY OthersStayGood

\* What store() leaves in a cache.
LEMMA StoredFacts ==
  ASSUME NEW rows, NEW b \in Body, NEW a \in Success \cup {Refusal},
         rows \subseteq [body : Body, answer : Success]
  PROVE  /\ Stored(rows, b, a) \subseteq [body : Body, answer : Success]
         /\ \A w \in Stored(rows, b, a) : w \in rows \/ (a \in Success /\ w.body = b /\ w.answer = a)
<1>1. CASE a \in Success
  <2>1. a.ok
    BY <1>1 DEF Success
  <2>2. Stored(rows, b, a) = {w \in rows : w.body # b} \cup {[body |-> b, answer |-> a]}
    BY <2>1 DEF Stored
  <2>3. [body |-> b, answer |-> a] \in [body : Body, answer : Success]
    BY <1>1
  <2> QED
    BY <1>1, <2>2, <2>3
<1>2. CASE a = Refusal
  BY <1>2 DEF Stored, Refusal
<1> QED
  BY <1>1, <1>2

LEMMA InitHttpInv == HttpInit => HttpInv
<1> SUFFICES ASSUME HttpInit PROVE HttpTypeOK /\ GoodRows /\ \A r \in Request : Good(r)
  BY HttpInvParts
<1> QED
  BY HttpProxyAssumption DEF HttpInit, HttpTypeOK, GoodRows, Good, AtUpstream

\* A row is an answer Bee gave.
LEMMA RowIsGiven ==
  ASSUME HttpInv, NEW method \in {"GET", "POST"}, NEW b,
         NEW a \in Rows(IF method = "POST" THEN uploads ELSE downloads, b)
  PROVE  a \in Given(method, b) /\ a \in Success /\ (method = "POST" => b \in atBee)
<1>0. HttpTypeOK /\ GoodRows
  BY HttpInvParts
<1>1. CASE method = "POST"
  <2>1. PICK w \in uploads : w.body = b /\ w.answer = a
    BY <1>1 DEF Rows
  <2>2. w.answer \in Given("POST", w.body) /\ w.body \in atBee
    BY <1>0 DEF GoodRows
  <2> QED
    BY <1>0, <1>1, <2>1, <2>2, GivenSucceeds
<1>2. CASE method = "GET"
  <2>1. PICK w \in downloads : w.body = b /\ w.answer = a
    BY <1>2 DEF Rows
  <2>2. w.answer \in Given("GET", w.body)
    BY <1>0 DEF GoodRows
  <2> QED
    BY <1>0, <1>2, <2>1, <2>2, GivenSucceeds
<1> QED
  BY <1>1, <1>2

\* A request is answered from a cache, or sent to Bee.
LEMMA LookUpKeeps ==
  ASSUME HttpInv, NEW r \in Request, NEW q \in Ask, ask' = [ask EXCEPT ![r] = q],
         LookUp(r, IF q.method = "POST" THEN uploads ELSE downloads, q.body),
         UNCHANGED <<uploads, downloads, atBee, late, served>>
  PROVE  HttpInv'
<1>0. HttpTypeOK /\ GoodRows /\ \A p \in Request : Good(p)
  BY HttpInvParts
<1>1. GoodRows' /\ \A method, b : Given(method, b)' = Given(method, b)
  BY <1>0 DEF GoodRows, Given
<1>2. q.method \in {"GET", "POST"} /\ ask'[r] = q
  BY <1>0 DEF HttpTypeOK, Ask
<1>3. HttpTypeOK' /\ Good(r)' /\ \A p \in Request \ {r} : Same(p)
  <2> DEFINE rows == Rows(IF q.method = "POST" THEN uploads ELSE downloads, q.body)
  <2>1. CASE rows # {}
    <3>1. PICK a \in rows : answer' = [answer EXCEPT ![r] = a]
      BY <2>1 DEF LookUp
    <3>2. a \in Given(q.method, q.body) /\ a \in Success /\ (q.method = "POST" => q.body \in atBee)
      BY <1>2, RowIsGiven
    <3>3. pc' = [pc EXCEPT ![r] = "answered"] /\ attempts' = [attempts EXCEPT ![r] = 0]
      BY <2>1 DEF LookUp, Ends, Moves
    <3> HIDE DEF rows
    <3>4. HttpTypeOK'
      BY <1>0, <3>1, <3>2, <3>3, HttpProxyAssumption DEF HttpTypeOK, Ended
    <3>5. pc'[r] = "answered" /\ answer'[r] = a
      BY <1>0, <3>1, <3>3 DEF HttpTypeOK
    <3>6. Good(r)'
      BY <1>1, <1>2, <3>2, <3>5 DEF Good, AtUpstream
    <3>7. \A p \in Request \ {r} : Same(p)
      BY <1>0, <3>1, <3>3 DEF HttpTypeOK, Same
    <3> QED
      BY <3>4, <3>6, <3>7
  <2>2. CASE rows = {}
    <3>1. pc' = [pc EXCEPT ![r] = "trying"] /\ attempts' = [attempts EXCEPT ![r] = 1] /\ answer' = answer
      BY <2>2 DEF LookUp, Moves
    <3> HIDE DEF rows
    <3>2. HttpTypeOK'
      BY <1>0, <3>1, HttpProxyAssumption DEF HttpTypeOK, AtUpstream
    <3>3. pc'[r] = "trying"
      BY <1>0, <3>1 DEF HttpTypeOK
    <3>4. Good(r)'
      BY <1>2, <3>3 DEF Good, AtUpstream
    <3>5. \A p \in Request \ {r} : Same(p)
      BY <1>0, <3>1 DEF HttpTypeOK, Same
    <3> QED
      BY <3>2, <3>4, <3>5
  <2> QED
    BY <2>1, <2>2
<1> QED
  BY <1>0, <1>1, <1>3, OneGood, HttpInvMade

\* A step of one request that leaves the caches alone.
LEMMA StepKeeps ==
  ASSUME HttpInv, HttpTypeOK', NEW r \in Request, Good(r)', \A q \in Request \ {r} : Same(q),
         atBee \subseteq atBee', served \subseteq served', \A q \in served' : q.body \in atBee',
         UNCHANGED <<uploads, downloads>>
  PROVE  HttpInv'
<1>1. GoodRows /\ \A q \in Request : Good(q)
  BY HttpInvParts
<1>2. GoodRows'
  <2>1. \A method, b : Given(method, b) \subseteq Given(method, b)'
    BY GivenGrows
  <2> QED
    BY <1>1, <2>1 DEF GoodRows
<1> QED
  BY <1>1, <1>2, OneGood, HttpInvMade

\* One that Bee has no part in.
LEMMA QuietKeeps ==
  ASSUME HttpInv, HttpTypeOK', NEW r \in Request, Good(r)', \A q \in Request \ {r} : Same(q),
         UNCHANGED <<uploads, downloads, atBee, served>>
  PROVE  HttpInv'
<1>1. GoodRows
  BY HttpInvParts
<1>2. \A q \in served' : q.body \in atBee'
  BY <1>1 DEF GoodRows
<1> QED
  BY <1>2, StepKeeps

LEMMA ArriveKeeps ==
  ASSUME HttpInv, NEW r \in Request, Arrive(r)
  PROVE  HttpInv'
<1>0. HttpTypeOK /\ Good(r)
  BY HttpInvParts
<1>1. CASE ArriveGet(r)
  <2>1. PICK q \in Ask : /\ q.method = "GET" /\ ask' = [ask EXCEPT ![r] = q]
                         /\ LookUp(r, downloads, q.body)
    BY <1>1, HttpProxyAssumption DEF ArriveGet
  <2>2. LookUp(r, IF q.method = "POST" THEN uploads ELSE downloads, q.body)
    BY <2>1
  <2> QED
    BY <1>1, <2>1, <2>2, LookUpKeeps DEF ArriveGet
<1>2. CASE ArrivePost(r)
  <2>1. PICK q \in Ask : q.method = "POST" /\ ask' = [ask EXCEPT ![r] = q]
    BY <1>2, HttpProxyAssumption DEF ArrivePost
  <2>2. pc' = [pc EXCEPT ![r] = "reading"] /\ UNCHANGED <<attempts, answer, uploads, downloads, atBee, late, served>>
    BY <1>2 DEF ArrivePost, Moves
  <2>3. HttpTypeOK'
    BY <1>0, <2>1, <2>2 DEF HttpTypeOK
  <2>4. Good(r)'
    BY <1>0, <2>1, <2>2 DEF HttpTypeOK, Good
  <2>5. \A q2 \in Request \ {r} : Same(q2)
    BY <1>0, <2>1, <2>2 DEF HttpTypeOK, Same
  <2> QED
    BY <2>2, <2>3, <2>4, <2>5, QuietKeeps
<1>3. CASE ArriveOther(r)
  <2>1. HttpTypeOK' /\ Good(r)' /\ (\A q \in Request \ {r} : Same(q)) /\ UNCHANGED <<uploads, downloads, atBee, served>>
    BY <1>0, <1>3 DEF ArriveOther, Moves, HttpTypeOK, Good, Same, AtUpstream
  <2> QED
    BY <2>1, QuietKeeps
<1> QED
  BY <1>1, <1>2, <1>3 DEF Arrive

LEMMA BodyKeeps ==
  ASSUME HttpInv, NEW r \in Request, BodyRead(r) \/ BodyLost(r)
  PROVE  HttpInv'
<1>0. HttpTypeOK /\ Good(r)
  BY HttpInvParts
<1>1. CASE BodyRead(r)
  <2>1. ask[r] \in Ask /\ ask[r].method = "POST" /\ ask' = [ask EXCEPT ![r] = ask[r]]
    BY <1>0, <1>1 DEF BodyRead, Good, HttpTypeOK
  <2>2. LookUp(r, IF ask[r].method = "POST" THEN uploads ELSE downloads, ask[r].body)
    BY <1>1, <2>1 DEF BodyRead
  <2> QED
    BY <1>1, <2>1, <2>2, LookUpKeeps DEF BodyRead
<1>2. CASE BodyLost(r)
  <2>1. HttpTypeOK' /\ Good(r)' /\ (\A q \in Request \ {r} : Same(q)) /\ UNCHANGED <<uploads, downloads, atBee, served>>
    BY <1>0, <1>2 DEF BodyLost, Moves, HttpTypeOK, Good, Same, Ended, AtUpstream
  <2> QED
    BY <2>1, QuietKeeps
<1> QED
  BY <1>1, <1>2

LEMMA BeeAnswersKeeps ==
  ASSUME HttpInv, NEW r \in Request, BeeCarriesOut(r) \/ BeeRefuses(r)
  PROVE  HttpInv'
<1>0. HttpTypeOK /\ Good(r)
  BY HttpInvParts
<1>1. pc[r] = "trying" /\ ask[r] \in Ask /\ pc' = [pc EXCEPT ![r] = "replying"]
      /\ UNCHANGED <<ask, attempts, uploads, downloads, late>>
  BY <1>0 DEF BeeCarriesOut, BeeRefuses, Good, AtUpstream, Moves
<1>2. PICK a \in Success \cup {Refusal} :
        /\ answer' = [answer EXCEPT ![r] = a]
        /\ (a = Fits(ask[r]) /\ ask[r].body \in atBee' /\ served' = served \cup {ask[r]}) \/ (a = Refusal /\ served' = served)
        /\ atBee \subseteq atBee' /\ atBee' \subseteq Body
  <2>1. Fits(ask[r]) \in Success /\ ask[r].body \in Body
    BY <1>1 DEF Fits, Ask, Success
  <2>2. CASE BeeCarriesOut(r)
    <3>1. atBee \subseteq atBee' /\ atBee' \subseteq Body
      BY <1>0, <2>1, <2>2 DEF BeeCarriesOut, HttpTypeOK
    <3>2. CASE ask[r].body \in atBee'
      BY <2>1, <2>2, <3>1, <3>2 DEF BeeCarriesOut
    <3>3. CASE ask[r].body \notin atBee'
      BY <2>2, <3>1, <3>3 DEF BeeCarriesOut
    <3> QED
      BY <3>2, <3>3
  <2>3. CASE BeeRefuses(r)
    BY <1>0, <2>3 DEF HttpTypeOK, BeeRefuses
  <2> QED
    BY <2>2, <2>3
<1>3. HttpTypeOK'
  <2>1. served' \subseteq Ask
    BY <1>0, <1>1, <1>2 DEF HttpTypeOK
  <2> QED
    BY <1>0, <1>1, <1>2, <2>1 DEF HttpTypeOK, AtUpstream
<1>4. answer'[r] = a /\ pc'[r] = "replying" /\ ask'[r] = ask[r]
  BY <1>0, <1>1, <1>2 DEF HttpTypeOK
<1>5. a.ok => a = Fits(ask[r]) /\ ask[r] \in served'
  BY <1>2 DEF Refusal
<1>6. Good(r)'
  BY <1>1, <1>2, <1>4, <1>5 DEF Good, Fits, AtUpstream
<1>7. \A q \in Request \ {r} : Same(q)
  BY <1>0, <1>1, <1>2 DEF HttpTypeOK, Same
<1>8. \A q \in served' : q.body \in atBee'
  <2>1. \A q \in served : q.body \in atBee
    BY HttpInvParts DEF GoodRows
  <2> QED
    BY <1>2, <2>1
<1>9. served \subseteq served'
  BY <1>2
<1> QED
  BY <1>1, <1>2, <1>3, <1>6, <1>7, <1>8, <1>9, StepKeeps

LEMMA BreaksKeeps ==
  ASSUME HttpInv, NEW r \in Request, Breaks(r)
  PROVE  HttpInv'
<1>0. HttpTypeOK /\ Good(r)
  BY HttpInvParts
<1>1. ask[r] \in Ask /\ answer' = [answer EXCEPT ![r] = Nothing] /\ late' \subseteq Body
      /\ UNCHANGED <<ask, uploads, downloads, atBee, served>>
  BY <1>0 DEF Breaks, Good, AtUpstream, HttpTypeOK, Ask
<1>2. CASE attempts[r] < MaxAttempts /\ pc' = [pc EXCEPT ![r] = "backoff"] /\ attempts' = attempts
  <2>1. HttpTypeOK'
    BY <1>0, <1>1, <1>2 DEF HttpTypeOK, AtUpstream
  <2>2. Good(r)' /\ \A q \in Request \ {r} : Same(q)
    BY <1>0, <1>1, <1>2 DEF HttpTypeOK, Good, Same
  <2> QED
    BY <1>1, <2>1, <2>2, QuietKeeps
<1>3. CASE pc' = [pc EXCEPT ![r] = "failed"] /\ attempts' = [attempts EXCEPT ![r] = 0]
  <2>1. HttpTypeOK'
    BY <1>0, <1>1, <1>3, HttpProxyAssumption DEF HttpTypeOK, Ended
  <2>2. Good(r)' /\ \A q \in Request \ {r} : Same(q)
    BY <1>0, <1>1, <1>3 DEF HttpTypeOK, Good, Same, AtUpstream
  <2> QED
    BY <1>1, <2>1, <2>2, QuietKeeps
<1> QED
  BY <1>2, <1>3 DEF Breaks, Retries, Moves, Ends

LEMMA WakeKeeps ==
  ASSUME HttpInv, NEW r \in Request, Wake(r)
  PROVE  HttpInv'
<1>0. HttpTypeOK /\ Good(r)
  BY HttpInvParts
<1>1. attempts[r] + 1 \in 0..MaxAttempts
  BY <1>0, HttpProxyAssumption DEF Wake, Good, HttpTypeOK
<1>2. HttpTypeOK'
  <2>1. pc' \in [Request -> {"idle", "reading", "streaming", "hanging"} \cup AtUpstream \cup Ended]
    BY <1>0 DEF Wake, Moves, HttpTypeOK, AtUpstream
  <2>2. attempts' \in [Request -> 0..MaxAttempts]
    BY <1>0, <1>1 DEF Wake, HttpTypeOK
  <2> QED
    BY <1>0, <2>1, <2>2 DEF Wake, HttpTypeOK
<1>3. Good(r)' /\ \A q \in Request \ {r} : Same(q)
  BY <1>0 DEF Wake, Moves, HttpTypeOK, Good, Same, AtUpstream
<1> QED
  BY <1>2, <1>3, QuietKeeps DEF Wake

LEMMA StreamEndsKeeps ==
  ASSUME HttpInv, NEW r \in Request, StreamEnds(r)
  PROVE  HttpInv'
<1>0. HttpTypeOK /\ Good(r)
  BY HttpInvParts
<1>1. PICK to \in {"answered", "failed", "hanging"} : pc' = [pc EXCEPT ![r] = to]
  BY DEF StreamEnds, Moves
<1>2. HttpTypeOK'
  BY <1>0, <1>1 DEF StreamEnds, HttpTypeOK, Ended
<1>3. Good(r)' /\ \A q \in Request \ {r} : Same(q)
  BY <1>0, <1>1 DEF StreamEnds, HttpTypeOK, Good, Same, AtUpstream
<1> QED
  BY <1>2, <1>3, QuietKeeps DEF StreamEnds

\* The answer becomes a row only if it is a success.
LEMMA ReplyKeeps ==
  ASSUME HttpInv, NEW r \in Request, Forward(r)
  PROVE  HttpInv'
<1>0. HttpTypeOK /\ GoodRows /\ \A q \in Request : Good(q)
  BY HttpInvParts
<1>1. /\ pc[r] = "replying" /\ ask[r] \in Ask /\ answer[r] \in Success \cup {Refusal}
      /\ answer[r].ok => answer[r] = Fits(ask[r]) /\ ask[r] \in served
  BY <1>0 DEF Forward, Good, AtUpstream
<1>2. pc' = [pc EXCEPT ![r] = "answered"] /\ attempts' = [attempts EXCEPT ![r] = 0]
      /\ UNCHANGED <<ask, answer, atBee, late, served>>
  BY DEF Forward, Ends, Moves
<1>3. ask[r].body \in Body /\ ask[r].method \in {"GET", "POST"}
  BY <1>1 DEF Ask
<1>4. answer[r].ok => answer[r] \in Given(ask[r].method, ask[r].body) /\ ask[r].body \in atBee
  BY <1>0, <1>1, GivenIs DEF GoodRows
<1>4a. answer[r] \in Success => answer[r].ok
  BY DEF Success
<1>4b. \A method, b : Given(method, b)' = Given(method, b)
  BY <1>2 DEF Given
<1>5. uploads' \subseteq [body : Body, answer : Success] /\ downloads' \subseteq [body : Body, answer : Success]
      /\ GoodRows'
  <2>1. CASE ask[r].method = "POST"
    <3>1. uploads' = Stored(uploads, ask[r].body, answer[r]) /\ downloads' = downloads
      BY <2>1 DEF Forward
    <3>2. /\ uploads' \subseteq [body : Body, answer : Success]
          /\ \A w \in uploads' : w \in uploads \/ (answer[r] \in Success /\ w.body = ask[r].body /\ w.answer = answer[r])
      BY <1>0, <1>1, <1>3, <3>1, StoredFacts DEF HttpTypeOK
    <3> QED
      BY <1>0, <1>2, <1>3, <1>4, <1>4a, <1>4b, <2>1, <3>1, <3>2 DEF HttpTypeOK, GoodRows
  <2>2. CASE ask[r].method # "POST"
    <3>1. downloads' = Stored(downloads, ask[r].body, answer[r]) /\ uploads' = uploads
      BY <2>2 DEF Forward
    <3>2. /\ downloads' \subseteq [body : Body, answer : Success]
          /\ \A w \in downloads' : w \in downloads \/ (answer[r] \in Success /\ w.body = ask[r].body /\ w.answer = answer[r])
      BY <1>0, <1>1, <1>3, <3>1, StoredFacts DEF HttpTypeOK
    <3> QED
      BY <1>0, <1>2, <1>3, <1>4, <1>4a, <1>4b, <2>2, <3>1, <3>2 DEF HttpTypeOK, GoodRows
  <2> QED
    BY <2>1, <2>2
<1>6. HttpTypeOK'
  BY <1>0, <1>2, <1>5, HttpProxyAssumption DEF HttpTypeOK, Ended
<1>7. Good(r)' /\ \A q \in Request \ {r} : Same(q)
  BY <1>0, <1>1, <1>2, <1>4, <1>4b DEF HttpTypeOK, Good, Same, AtUpstream
<1> QED
  BY <1>0, <1>2, <1>5, <1>6, <1>7, OneGood, HttpInvMade

LEMMA BeeCarriesOutLateKeeps ==
  ASSUME HttpInv, NEW b \in Body, BeeCarriesOutLate(b)
  PROVE  HttpInv'
<1>0. HttpTypeOK /\ GoodRows /\ \A q \in Request : Good(q)
  BY HttpInvParts
<1>1. atBee \subseteq atBee' /\ served' = served /\ \A q \in Request : Same(q)
  BY DEF BeeCarriesOutLate, Same
<1>2. \A q \in Request : Good(q)'
  BY <1>0, <1>1, OthersStayGood
<1>3. HttpTypeOK' /\ GoodRows'
  BY <1>0 DEF BeeCarriesOutLate, HttpTypeOK, GoodRows, Given
<1> QED
  BY <1>2, <1>3, HttpInvMade

\* What was under way is forgotten, the rows stay.
LEMMA RestartKeeps ==
  ASSUME HttpInv, Restart
  PROVE  HttpInv'
<1>0. HttpTypeOK /\ GoodRows /\ \A q \in Request : Good(q)
  BY HttpInvParts
<1>1. \A q \in Request :
        \/ pc'[q] = "gone"
        \/ pc'[q] = pc[q] /\ pc[q] \in {"idle", "answered", "failed", "gone"} /\ ask'[q] = ask[q] /\ answer'[q] = answer[q]
  BY DEF Restart, Ended
<1>2. \A q \in Request : Good(q)'
  BY <1>0, <1>1 DEF Good, Given, Fits, Restart, AtUpstream
<1>3. late' \subseteq Body
  <2>1. \A q \in Request : pc[q] = "trying" => ask[q].body \in Body
    BY <1>0 DEF Good, Ask, AtUpstream
  <2> QED
    BY <1>0, <2>1 DEF Restart, HttpTypeOK
<1>4. pc' \in [Request -> {"idle"} \cup Ended]
  BY <1>0 DEF Restart, Ended
<1>5. HttpTypeOK' /\ GoodRows'
  BY <1>0, <1>3, <1>4, HttpProxyAssumption DEF Restart, HttpTypeOK, GoodRows, Given
<1> QED
  BY <1>2, <1>5, HttpInvMade

-----------------------------------------------------------------------------
(* The theorems.                                                           *)

LEMMA NextHttpInv == HttpInv /\ [HttpNext]_httpVars => HttpInv'
<1> SUFFICES ASSUME HttpInv, [HttpNext]_httpVars PROVE HttpInv'
  OBVIOUS
<1>1. ASSUME NEW r \in Request, Arrive(r) PROVE HttpInv'
  BY <1>1, ArriveKeeps
<1>2. ASSUME NEW r \in Request, BodyRead(r) \/ BodyLost(r) PROVE HttpInv'
  BY <1>2, BodyKeeps
<1>3. ASSUME NEW r \in Request, BeeCarriesOut(r) \/ BeeRefuses(r) PROVE HttpInv'
  BY <1>3, BeeAnswersKeeps
<1>4. ASSUME NEW r \in Request, Breaks(r) PROVE HttpInv'
  BY <1>4, BreaksKeeps
<1>5. ASSUME NEW r \in Request, Forward(r) PROVE HttpInv'
  BY <1>5, ReplyKeeps
<1>6. ASSUME NEW r \in Request, Wake(r) PROVE HttpInv'
  BY <1>6, WakeKeeps
<1>7. ASSUME NEW r \in Request, StreamEnds(r) PROVE HttpInv'
  BY <1>7, StreamEndsKeeps
<1>8. ASSUME NEW b \in Body, BeeCarriesOutLate(b) PROVE HttpInv'
  BY <1>8, BeeCarriesOutLateKeeps
<1>9. CASE Restart
  BY <1>9, RestartKeeps
<1>10. CASE UNCHANGED httpVars
  BY <1>10 DEF httpVars, HttpInv, HttpTypeOK, Coherent, RepliesSound, UploadsSound, DownloadsSound, Given
<1> QED
  BY <1>1, <1>2, <1>3, <1>4, <1>5, <1>6, <1>7, <1>8, <1>9, <1>10 DEF HttpNext, Step

\* The invariant of the proxy's caches and requests.
THEOREM HttpInvHolds == HttpSpec => []HttpInv
BY InitHttpInv, NextHttpInv, PTL DEF HttpSpec

\* Every reachable state is well typed; no upload is tried more than
\* MaxAttempts times.
THEOREM HttpTypeCorrect == HttpSpec => []HttpTypeOK
<1>1. HttpInv => HttpTypeOK
  BY DEF HttpInv
<1> QED
  BY <1>1, HttpInvHolds, PTL

\* However uploads overlap, break and are tried again, one that is answered
\* with success is at Bee, the answer is one to this upload, and so is every row
\* (proxy.ts:217-306).
THEOREM UploadsAreSound == HttpSpec => []UploadsSound
<1>1. HttpInv => UploadsSound
  BY DEF HttpInv
<1> QED
  BY <1>1, HttpInvHolds, PTL

\* However downloads overlap and break, and whichever parts they ask for, one
\* that is answered with success gets what Bee gave to a download of the same
\* reference, and no refusal becomes a row (proxy.ts:153-209).
THEOREM DownloadsAreSound == HttpSpec => []DownloadsSound
<1>1. HttpInv => DownloadsSound
  BY DEF HttpInv
<1> QED
  BY <1>1, HttpInvHolds, PTL
=============================================================================
