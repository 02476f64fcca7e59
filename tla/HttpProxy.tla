----------------------------- MODULE HttpProxy -----------------------------
(***************************************************************************)
(* The HTTP side of the proxy in front of a Bee node                       *)
(* (packages/proxy/src: proxy.ts, cache.ts).                               *)
(*                                                                         *)
(* Every request is a coroutine of its own; a cache is looked up before an *)
(* await and written after it.  Bee is content-addressed: what is uploaded *)
(* as body b is found under the reference of b.  A variant of a request is *)
(* what is not in the key of a cache and matters to Bee: the query, and    *)
(* headers like Range.                                                     *)
(***************************************************************************)
EXTENDS Naturals, FiniteSets

CONSTANTS
  Request,      \* requests
  Body,         \* bodies of uploads
  Variant,      \* variants of requests
  Asked,        \* bound: what is asked for
  MaxAttempts   \* MAX_ATTEMPTS

Ask == [method : {"GET", "POST"}, body : Body, variant : Variant]

ASSUME HttpProxyAssumption == MaxAttempts \in Nat \ {0} /\ Asked \subseteq Ask

VARIABLES
  pc,         \* where the coroutine of each request is
  ask,        \* what the request asks for
  attempts,   \* the attempt under way
  answer,     \* what Bee, or a cache, answered
  uploads,    \* upload_cache: rows [body, answer]
  downloads,  \* download_cache: rows [body, answer]
  atBee,      \* bodies Bee has
  late,       \* bodies of broken attempts that Bee may still carry out
  served      \* history: the requests Bee has answered with success

httpVars == <<pc, ask, attempts, answer, uploads, downloads, atBee, late, served>>

Success == [ok : {TRUE}, body : Body, variant : Variant]
Refusal == [ok |-> FALSE]
Nothing == [method |-> "none"]

\* What Bee answers to a request it can carry out.
Fits(q) == [ok |-> TRUE, body |-> q.body, variant |-> q.variant]

AtUpstream == {"trying", "replying", "backoff"}
Ended      == {"answered", "failed", "gone"}

HttpTypeOK ==
  /\ pc \in [Request -> {"idle", "reading", "streaming", "hanging"} \cup AtUpstream \cup Ended]
  /\ ask \in [Request -> Ask \cup {Nothing}]
  /\ attempts \in [Request -> 0..MaxAttempts]
  /\ answer \in [Request -> Success \cup {Refusal, Nothing}]
  /\ uploads \subseteq [body : Body, answer : Success]
  /\ downloads \subseteq [body : Body, answer : Success]
  /\ atBee \cup late \subseteq Body
  /\ served \subseteq Ask

\* The caches are new; Bee may hold some of the bodies.
HttpInit ==
  /\ pc = [r \in Request |-> "idle"]
  /\ ask = [r \in Request |-> Nothing]
  /\ attempts = [r \in Request |-> 0]
  /\ answer = [r \in Request |-> Nothing]
  /\ atBee \in SUBSET Body
  /\ uploads = {}
  /\ downloads = {}
  /\ late = {}
  /\ served = {}

Moves(r, to) == pc' = [pc EXCEPT ![r] = to]

\* The coroutine ends, and its variables with it.
Ends(r, to) == Moves(r, to) /\ attempts' = [attempts EXCEPT ![r] = 0]

-----------------------------------------------------------------------------
(* The caches.                                                             *)

Rows(cache, b) == {w.answer : w \in {x \in cache : x.body = b}}

\* Mutant: whatever Bee answered is stored.
StoredAny(cache, b, a) == {w \in cache : w.body # b} \cup {[body |-> b, answer |-> a]}

\* store(), INSERT OR REPLACE, of an answer that is a success.
Stored(cache, b, a) ==
  IF a.ok THEN {w \in cache : w.body # b} \cup {[body |-> b, answer |-> a]} ELSE cache

\* A row of the cache is the answer, or Bee is asked.
LookUp(r, cache, b) ==
  IF Rows(cache, b) # {}
  THEN /\ Ends(r, "answered")
       /\ \E a \in Rows(cache, b) : answer' = [answer EXCEPT ![r] = a]
  ELSE /\ Moves(r, "trying")
       /\ attempts' = [attempts EXCEPT ![r] = 1]
       /\ UNCHANGED answer

-----------------------------------------------------------------------------
(* Requests arrive.                                                        *)

\* GET /bytes/{ref} or /chunks/{ref}
ArriveGet(r) ==
  /\ pc[r] = "idle"
  /\ \E q \in Asked :
       /\ q.method = "GET"
       /\ ask' = [ask EXCEPT ![r] = q]
       /\ LookUp(r, downloads, q.body)
  /\ UNCHANGED <<uploads, downloads, atBee, late, served>>

\* POST with a postage batch to /bytes, /chunks, /bzz or /soc
ArrivePost(r) ==
  /\ pc[r] = "idle"
  /\ \E q \in Asked : q.method = "POST" /\ ask' = [ask EXCEPT ![r] = q]
  /\ Moves(r, "reading")
  /\ UNCHANGED <<attempts, answer, uploads, downloads, atBee, late, served>>

\* Everything else is streamed.
ArriveOther(r) ==
  /\ pc[r] = "idle"
  /\ Moves(r, "streaming")
  /\ UNCHANGED <<ask, attempts, answer, uploads, downloads, atBee, late, served>>

\* readBody() has all of the body.
BodyRead(r) ==
  /\ pc[r] = "reading"
  /\ LookUp(r, uploads, ask[r].body)
  /\ UNCHANGED <<ask, uploads, downloads, atBee, late, served>>

\* The client leaves, or the body is too large: leaving the loop over it
\* destroys the request, and the stream it should fall back to with it.
BodyLost(r) ==
  /\ pc[r] = "reading"
  /\ Moves(r, "gone")
  /\ ask' = [ask EXCEPT ![r] = Nothing]
  /\ UNCHANGED <<attempts, answer, uploads, downloads, atBee, late, served>>

-----------------------------------------------------------------------------
(* Bee.                                                                    *)

\* Bee carries the request out, or answers 404 where it has nothing.
BeeCarriesOut(r) ==
  /\ pc[r] = "trying"
  /\ Moves(r, "replying")
  /\ atBee' = IF ask[r].method = "POST" THEN atBee \cup {ask[r].body} ELSE atBee
  /\ IF ask[r].body \in atBee'
     THEN /\ answer' = [answer EXCEPT ![r] = Fits(ask[r])]
          /\ served' = served \cup {ask[r]}
     ELSE /\ answer' = [answer EXCEPT ![r] = Refusal]
          /\ UNCHANGED served
  /\ UNCHANGED <<ask, attempts, uploads, downloads, late>>

BeeRefuses(r) ==
  /\ pc[r] = "trying"
  /\ Moves(r, "replying")
  /\ answer' = [answer EXCEPT ![r] = Refusal]
  /\ UNCHANGED <<ask, attempts, uploads, downloads, atBee, late, served>>

\* An attempt the proxy has given up reaches Bee after all.
BeeCarriesOutLate(b) ==
  /\ b \in late
  /\ atBee' = atBee \cup {b}
  /\ late' = late \ {b}
  /\ UNCHANGED <<pc, ask, attempts, answer, uploads, downloads, served>>

-----------------------------------------------------------------------------
(* The answer, and what comes instead of it.                               *)

\* The answer is there: it is passed on, and stored.
Forward(r) ==
  /\ pc[r] = "replying"
  /\ Ends(r, "answered")
  /\ IF ask[r].method = "POST"
     THEN /\ uploads' = Stored(uploads, ask[r].body, answer[r])
          /\ UNCHANGED downloads
     ELSE /\ downloads' = Stored(downloads, ask[r].body, answer[r])
          /\ UNCHANGED uploads
  /\ UNCHANGED <<ask, answer, atBee, late, served>>

\* Only uploads are tried again.
Retries(r) == ask[r].method = "POST" /\ attempts[r] < MaxAttempts

\* Mutant: what came of an answer before the connection broke is taken for it.
BreaksUnseen(r) ==
  /\ pc[r] \in {"trying", "replying"}
  /\ late' = IF pc[r] = "trying" /\ ask[r].method = "POST" THEN late \cup {ask[r].body} ELSE late
  /\ IF pc[r] = "replying" /\ answer[r].ok
     THEN /\ \E v \in Variant : answer' = [answer EXCEPT ![r] = [answer[r] EXCEPT !.variant = v]]
          /\ UNCHANGED <<pc, attempts>>
     ELSE /\ answer' = [answer EXCEPT ![r] = Nothing]
          /\ \/ Retries(r) /\ Moves(r, "backoff") /\ UNCHANGED attempts
             \/ Ends(r, "failed")
  /\ UNCHANGED <<ask, uploads, downloads, atBee, served>>

\* The connection to Bee breaks before all of the answer is there.  Bee may
\* have got the request.  Errors that are not retryable end it.
Breaks(r) ==
  /\ pc[r] \in {"trying", "replying"}
  /\ late' = IF pc[r] = "trying" /\ ask[r].method = "POST" THEN late \cup {ask[r].body} ELSE late
  /\ answer' = [answer EXCEPT ![r] = Nothing]
  /\ \/ Retries(r) /\ Moves(r, "backoff") /\ UNCHANGED attempts
     \/ Ends(r, "failed")
  /\ UNCHANGED <<ask, uploads, downloads, atBee, served>>

\* Mutant: attempts are not counted.
WakeUncounted(r) ==
  /\ pc[r] = "backoff"
  /\ Moves(r, "trying")
  /\ UNCHANGED <<ask, attempts, answer, uploads, downloads, atBee, late, served>>

\* The pause is over.
Wake(r) ==
  /\ pc[r] = "backoff"
  /\ Moves(r, "trying")
  /\ attempts' = [attempts EXCEPT ![r] = @ + 1]
  /\ UNCHANGED <<ask, answer, uploads, downloads, atBee, late, served>>

\* A streamed request is answered, or fails before Bee's answer began, or Bee
\* closes the connection in the middle of its answer, which nothing handles.
StreamEnds(r) ==
  /\ pc[r] = "streaming"
  /\ \E to \in {"answered", "failed", "hanging"} : Moves(r, to)
  /\ UNCHANGED <<ask, attempts, answer, uploads, downloads, atBee, late, served>>

\* The process ends and another one starts: the caches are on disk.
Restart ==
  /\ late' = late \cup {ask[r].body : r \in {x \in Request : pc[x] = "trying" /\ ask[x].method = "POST"}}
  /\ pc' = [r \in Request |-> IF pc[r] \in {"idle"} \cup Ended THEN pc[r] ELSE "gone"]
  /\ attempts' = [r \in Request |-> 0]
  /\ ask' = [r \in Request |-> IF pc'[r] = "gone" THEN Nothing ELSE ask[r]]
  /\ answer' = [r \in Request |-> IF pc'[r] = "gone" THEN Nothing ELSE answer[r]]
  /\ UNCHANGED <<uploads, downloads, atBee, served>>

-----------------------------------------------------------------------------
Arrive(r) == ArriveGet(r) \/ ArrivePost(r) \/ ArriveOther(r)

\* What is bound to happen to a request that is being handled.
Step(r) ==
  \/ BodyRead(r) \/ BodyLost(r)
  \/ BeeCarriesOut(r) \/ BeeRefuses(r) \/ Breaks(r)
  \/ Forward(r)
  \/ Wake(r)

HttpNext ==
  \/ \E r \in Request : Arrive(r) \/ Step(r) \/ StreamEnds(r)
  \/ \E b \in Body : BeeCarriesOutLate(b)
  \/ Restart

HttpSpec == HttpInit /\ [][HttpNext]_httpVars

\* Clients send or leave, Bee answers or the connection breaks, timers go off.
HttpFairSpec == HttpSpec /\ \A r \in Request : WF_httpVars(Step(r))

-----------------------------------------------------------------------------
(* Properties.                                                             *)

\* What Bee gave to those who asked for b in this way, in whatever variant.
Given(method, b) == {Fits(q) : q \in {x \in served : x.method = method /\ x.body = b}}

\* An upload that is answered with success is at Bee, and the answer, by Bee or
\* from the cache, is one that Bee gave to an upload of this body: whatever
\* breaks, is sent again, overlaps or is restarted, no upload gets the answer
\* to another one, and no row is about what Bee lacks.
UploadsSound ==
  /\ \A r \in Request :
       pc[r] = "answered" /\ ask[r] # Nothing /\ ask[r].method = "POST" /\ answer[r].ok =>
         answer[r] \in Given("POST", ask[r].body) /\ ask[r].body \in atBee
  /\ \A w \in uploads : w.answer \in Given("POST", w.body) /\ w.body \in atBee

\* A download that is answered with success gets what Bee gave to a download of
\* this reference, never what is left of a broken one, and what Bee did not have
\* is asked for again.  As long as nobody was given another part of the
\* reference, it is what was asked for; SameBytes says that it always is.
DownloadsSound ==
  /\ \A r \in Request :
       pc[r] = "answered" /\ ask[r] # Nothing /\ ask[r].method = "GET" /\ answer[r].ok =>
         answer[r] \in Given("GET", ask[r].body)
  /\ \A w \in downloads : w.answer \in Given("GET", w.body)

\* "Keyed by path only - same ref always returns same bytes" (cache.ts:113-114):
\* a download gets what it asked for, whoever asked for what before.
SameBytes ==
  \A r \in Request :
    pc[r] = "answered" /\ ask[r] # Nothing /\ ask[r].method = "GET" /\ answer[r].ok =>
      answer[r] = Fits(ask[r])

\* Every request that is buffered is answered in the end.
EveryRequestEnds ==
  \A r \in Request : pc[r] \in {"reading"} \cup AtUpstream ~> pc[r] \in Ended

-----------------------------------------------------------------------------
(* What UploadsSound and DownloadsSound need to be preserved.              *)

\* A coroutine has a request, an answer once Bee has answered, and attempts
\* left when it pauses.
Coherent ==
  \A r \in Request :
    /\ pc[r] \in {"idle", "streaming", "hanging"} => ask[r] = Nothing
    /\ pc[r] \in {"reading"} \cup AtUpstream => ask[r] \in Ask
    /\ pc[r] = "reading" => ask[r].method = "POST"
    /\ pc[r] = "backoff" => attempts[r] < MaxAttempts
    /\ pc[r] = "replying" \/ (pc[r] = "answered" /\ ask[r] # Nothing) =>
         answer[r] \in Success \cup {Refusal}

\* An answer under way is Bee's to its request, and Bee has what it gave.
RepliesSound ==
  /\ \A r \in Request : pc[r] = "replying" /\ answer[r].ok => answer[r] = Fits(ask[r]) /\ ask[r] \in served
  /\ \A q \in served : q.body \in atBee

HttpInv == HttpTypeOK /\ Coherent /\ RepliesSound /\ UploadsSound /\ DownloadsSound
=============================================================================
