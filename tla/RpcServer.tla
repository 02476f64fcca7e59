----------------------------- MODULE RpcServer -----------------------------
(***************************************************************************)
(* The JSON-RPC server over the data directory (packages/rpc/src): what it *)
(* loads when it starts, and how it answers from files that commands may   *)
(* be writing anew.                                                        *)
(***************************************************************************)
EXTENDS EraData

CONSTANT HasTxs  \* blocks that have transactions

ASSUME RpcServerAssumption == HasTxs \subseteq Block

VARIABLES
  server,   \* "down", "loading" or "up"
  unread,   \* eras whose summary is to be read
  loaded,   \* eras: those whose summary was read
  hashes,   \* byBlockHash: blocks of the index lines that were read
  line,     \* lines read of the index of the era that was read last
  request,  \* a call that is being answered, with its progress; a batch is many
  steady    \* eras whose index file was whole all the time the server loaded

store == <<loaded, hashes>>
rpc   == <<server, unread, store, line, request, steady>>
vars  == <<dataVars, rpc>>

\* A hash is told by the number of its block; beyond Block none is known.
Number  == 0..(Eras * PerEra)
Call(method, n, full) == [method |-> method, n |-> n, full |-> full]
Calls ==
  {Call(m, 0, FALSE) : m \in {"unsupported", "invalid", "blockNumber", "latest"}}
    \cup {Call("byNumber", n, FALSE) : n \in Number} \cup {Call("byNumber", n, TRUE) : n \in HasTxs}
    \cup {Call("byHash", n, FALSE) : n \in Number}

NoAnswer   == [is |-> "none", n |-> 0]
Null       == [is |-> "null", n |-> 0]
Error(c)   == [is |-> "error", n |-> c]
Result(b)  == [is |-> "block", n |-> b]
Quantity(n) == [is |-> "quantity", n |-> n]
Unscanned  == -1

NoMethod       == -32601
InvalidParams  == -32602
InternalError  == -32603
Unsupported    == -32004

Answers ==
  {NoAnswer, Null} \cup {Error(c) : c \in {NoMethod, InvalidParams, InternalError, Unsupported}}
    \cup {Result(b) : b \in Block} \cup {Quantity(b) : b \in Block}

\* A call that reads lines for block n, or is answered.  `still`: the file it
\* reads was whole all the time.
Asked(c)  == [call |-> c, n |-> Unscanned, read |-> 0, answer |-> NoAnswer, still |-> TRUE]
NoCall    == Call("no request", 0, FALSE)
NoRequest == Asked(NoCall)
Request   == [call : Calls \cup {NoCall}, n : {Unscanned} \cup Block, read : 0..PerEra, answer : Answers, still : BOOLEAN]

TypeOK ==
  /\ DataTypeOK
  /\ server \in {"down", "loading", "up"}
  /\ unread \cup loaded \cup steady \subseteq Era /\ hashes \subseteq Block
  /\ server = "up" => loaded # {} /\ unread = {}
  /\ line \in 0..PerEra
  /\ request \in Request /\ (request # NoRequest => request.call \in Calls)
  /\ request.n # Unscanned => \E e \in loaded : request.n \in BlocksOf(e)

Init ==
  /\ DataInit
  /\ server = "down" /\ unread = {} /\ loaded = {} /\ hashes = {} /\ line = 0
  /\ request = NoRequest /\ steady = {}

-----------------------------------------------------------------------------
(* load().                                                                 *)

\* Commands that run beside the server: extract() touches no file the server
\* reads, so it is let run without.
Apart == at # "idle" => ~Is({"extract"})

StartServer ==
  /\ server = "down" /\ Apart
  /\ server' = "loading"
  /\ unread' = {e \in Era : summary[e] # "absent"}
  /\ steady' = {e \in Era : index[e] = Whole}
  /\ UNCHANGED <<dataVars, store, line, request>>

\* The server's process ends: it is stopped, or refuses to start.
StopServer ==
  /\ server' = "down" /\ unread' = {} /\ loaded' = {} /\ hashes' = {} /\ line' = 0
  /\ request' = NoRequest /\ steady' = {}

LoadSummary ==
  /\ server = "loading" /\ unread # {}
  /\ LET e == Min(unread)
     IN /\ e \notin loaded
        /\ IF summary[e] = "whole"
           THEN loaded' = loaded \cup {e} /\ UNCHANGED <<server, unread, hashes, line, request, steady>>
           ELSE StopServer
  /\ UNCHANGED dataVars

\* ingestIndex() reads a line, meets half a line, or comes to the end.
IngestLine ==
  /\ server = "loading" /\ unread # {} /\ Min(unread) \in loaded
  /\ LET e == Min(unread)
     IN CASE line < index[e].lines ->
               /\ hashes' = hashes \cup {e * PerEra + line} /\ line' = line + 1
               /\ UNCHANGED <<server, unread, loaded, request, steady>>
          [] line = index[e].lines /\ index[e].part -> StopServer
          [] OTHER ->
               /\ unread' = unread \ {e} /\ line' = 0
               /\ UNCHANGED <<server, loaded, hashes, request, steady>>
  /\ UNCHANGED dataVars

\* Mutant: a server without eras serves.
ListenAlways ==
  /\ server = "loading" /\ unread = {}
  /\ server' = "up"
  /\ UNCHANGED <<dataVars, unread, store, line, request, steady>>

\* A server without eras stops.
Listen ==
  /\ server = "loading" /\ unread = {}
  /\ IF loaded = {} THEN StopServer
                    ELSE server' = "up" /\ UNCHANGED <<unread, store, line, request, steady>>
  /\ UNCHANGED dataVars

Stop == server # "down" /\ StopServer /\ UNCHANGED dataVars

-----------------------------------------------------------------------------
(* handle().                                                               *)

Highest == Max(loaded) * PerEra + PerEra - 1

\* Mutant: an era ends one block too late.
ErasHoldingNext(n) == {e \in loaded : e * PerEra <= n /\ n <= e * PerEra + PerEra}

\* eraForNumber(): the first era that holds the block.
ErasHolding(n) == {e \in loaded : e * PerEra <= n /\ n < e * PerEra + PerEra}
EraForNumber(n) == Min(ErasHolding(n))
Held(n) == ErasHolding(n) # {}

\* What a call asks to be read: a block's number, or nothing.
Wanted(c) ==
  CASE c.method = "latest"   -> {Highest}
    [] c.method = "byNumber" -> {c.n}
    [] c.method = "byHash"   -> {c.n} \cap hashes

\* readBlockByNumber() answers null without a read when no era holds the block.
Scanned(c) ==
  LET readable == {n \in Wanted(c) : Held(n)}
  IN IF readable = {}
     THEN [Asked(c) EXCEPT !.answer = Null]
     ELSE LET n == Min(readable)
          IN [Asked(c) EXCEPT !.n = n, !.still = blocks[EraForNumber(n)] = Whole]

\* handle() answers the calls of a batch each by itself, in their order, and
\* what the server has loaded never changes: one call shows all.  dispatch()
\* and the handler run up to the read at once.
Receive(c) ==
  /\ server = "up" /\ request = NoRequest
  /\ request' = CASE c.method = "unsupported" -> [Asked(c) EXCEPT !.answer = Error(NoMethod)]
                  [] c.method = "invalid"     -> [Asked(c) EXCEPT !.answer = Error(InvalidParams)]
                  [] c.method = "blockNumber" -> [Asked(c) EXCEPT !.answer = Quantity(Highest)]
                  [] OTHER                    -> Scanned(c)
  /\ UNCHANGED <<dataVars, server, unread, store, line, steady>>

Open == request # NoRequest /\ request.answer = NoAnswer

\* shapeBlock()
Shaped(c, b) == IF c.full /\ b \in HasTxs THEN Error(Unsupported) ELSE Result(b)

\* readBlockByNumber() reads a line, half a line, or comes to the end.
ReadLine ==
  /\ Open
  /\ LET e    == EraForNumber(request.n)
         row  == e * PerEra + request.read
         more == request.read < blocks[e].lines
         torn == request.read = blocks[e].lines /\ blocks[e].part
     IN \/ /\ more /\ row # request.n
           /\ request' = [request EXCEPT !.read = @ + 1]
        \/ /\ more /\ row = request.n
           /\ request' = [request EXCEPT !.answer = Shaped(request.call, row)]
        \/ /\ ~more
           /\ request' = [request EXCEPT !.answer = IF torn THEN Error(InternalError) ELSE Null]
  /\ UNCHANGED <<dataVars, server, unread, store, line, steady>>

Reply ==
  /\ request # NoRequest /\ ~Open
  /\ request' = NoRequest
  /\ UNCHANGED <<dataVars, server, unread, store, line, steady>>

-----------------------------------------------------------------------------
\* What is remembered for the properties: files that stayed whole.
Watch ==
  /\ request' = IF request.n = Unscanned THEN request
                ELSE [request EXCEPT !.still = @ /\ blocks'[EraForNumber(request.n)] = Whole]
  /\ steady' = IF server = "loading" THEN {e \in steady : index'[e] = Whole} ELSE steady
  /\ UNCHANGED <<server, unread, store, line>>

CommandNext ==
  /\ \/ \E c \in Commands : c.lo <= c.hi /\ (c.name = "extract" => server = "down") /\ Start(c)
     \/ CommandStep
     \/ Crash
  /\ Watch

ServerStep ==
  \/ LoadSummary \/ IngestLine \/ Listen
  \/ ReadLine \/ Reply

Next ==
  \/ CommandNext
  \/ ServerStep
  \/ StartServer \/ Stop
  \/ \E c \in Calls : Receive(c)

Spec == Init /\ [][Next]_vars

\* A command that is not killed goes on.
FairSpec == Spec /\ WF_vars(CommandStep /\ Watch)

-----------------------------------------------------------------------------
(* Properties.                                                             *)

\* The block that a call is about.
AskedFor(c) == IF c.method = "latest" THEN Highest ELSE c.n

\* Whatever commands write while the server starts and answers: a block is
\* answered only where that block was asked for, and null only where the
\* server does not hold the block, where its file was not whole all the time,
\* or, for a hash, where the index was not whole all the time it was loaded.
AnswersTrue ==
  LET c     == request.call
      asked == AskedFor(c)
      a     == request.answer
  IN /\ a.is = "block" => c.method \in {"latest", "byNumber", "byHash"} /\ a.n = asked
     /\ a.is = "null" /\ Held(asked) =>
          \/ request.n # Unscanned /\ ~request.still
          \/ c.method = "byHash" /\ EraForNumber(asked) \notin steady
     /\ a = Error(InternalError) => ~request.still

-----------------------------------------------------------------------------
(* The inductive invariant behind TypeOK and AnswersTrue.                  *)

\* What the server has in memory while it loads and afterwards: of an era whose
\* index stays whole, all lines that were read.
ServerKept ==
  /\ server = "down" => unread = {} /\ loaded = {} /\ line = 0
  /\ server # "up" => request = NoRequest
  /\ server = "loading" =>
       /\ \A e \in loaded \cap unread : e = Min(unread)
       /\ line # 0 => unread # {} /\ Min(unread) \in loaded
       /\ \A e \in steady : index[e] = Whole
  /\ \A e \in loaded \cap steady :
       /\ e \in unread => (e * PerEra)..(e * PerEra + line - 1) \subseteq hashes
       /\ e \notin unread => BlocksOf(e) \subseteq hashes

\* A call whose lines are being read has not passed the one it looks for.
RequestKept ==
  /\ Open => request.n # Unscanned
  /\ request.n # Unscanned =>
       request.n = AskedFor(request.call) /\ request.call.method \in {"latest", "byNumber", "byHash"}
  /\ Open => /\ EraForNumber(request.n) * PerEra + request.read <= request.n
             /\ request.still => blocks[EraForNumber(request.n)] = Whole

RpcInv == TypeOK /\ DataInv /\ ServerKept /\ RequestKept /\ AnswersTrue

\* A command ends: it is refused what it cannot do, and what it takes up from
\* an earlier one, the state of a checkpoint and the parent of a block, is there.
CommandEnds == at # "idle" ~> at = "idle"
=============================================================================
