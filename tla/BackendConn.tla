---------------------------- MODULE BackendConn ----------------------------
(***************************************************************************)
(* One backend connection worker of the proxy (BackendConn, part_002).    *)
(* The router pushes requests into the bounded channel bc.input; the      *)
(* writer goroutine (run / loopWriter) pipelines them onto the socket of  *)
(* its round and hands each one, in order, to that round's reader         *)
(* goroutine (loopReader) through the bounded channel tasks; the reader   *)
(* pairs every task with the next reply decoded from the socket.  A       *)
(* failed round is followed by a reconnect, immediately or after the      *)
(* backoff of delayBeforeRetry.  KeepAlive probes and the single          *)
(* keepAliveCallback goroutine drive the health state machine             *)
(* 0 -> Connected -> DataStale -> Connected -> 0.                         *)
(*                                                                         *)
(* A request is a model value; what the model keeps of it is whether it  *)
(* is broken, what it asks the backend (a command, PING or INFO), its     *)
(* result and the number of setResponse calls made on it.  Bytes, the     *)
(* RESP encoding and timing are abstracted away; the FlushEncoder's       *)
(* MaxInterval timer is a nondeterministic choice.                        *)
(***************************************************************************)
EXTENDS Naturals, Sequences, Functions

CONSTANTS
  Reqs,         \* requests the router pushes, each at most once
  Broken,       \* the read-only requests flagged broken
  Probes,       \* Request objects KeepAlive may create (PING or INFO)
  InputCap,     \* capacity of bc.input (1024 in NewBackendConn)
  MaxPipeline,  \* capacity of tasks (config.BackendMaxPipeline)
  RetryLimit,   \* failures retried at once before backing off (10)
  CallbackCap,  \* capacity of keepAliveCallback (128)
  MaxRounds,    \* bound: rounds whose dial succeeds
  MaxFaults,    \* bound: dial failures, socket breaks, read timeouts
  MaxFlips,     \* bound: changes of the backend's health
  NoReq         \* "no request"

ASSUME ConstantsAssumption ==
  /\ Broken \subseteq Reqs
  /\ Reqs \cap Probes = {}
  /\ NoReq \notin Reqs \cup Probes
  /\ InputCap \in Nat \ {0}
  /\ MaxPipeline \in Nat \ {0}
  /\ RetryLimit \in Nat
  /\ CallbackCap \in Nat \ {0}
  /\ MaxRounds \in Nat
  /\ MaxFaults \in Nat
  /\ MaxFlips \in Nat

AllReqs == Reqs \cup Probes
Rounds == 1 .. MaxRounds

\* bc.state: 0 (disconnected), stateConnected, stateDataStale
stateConnected == 1
stateDataStale == 2

\* What the backend answers: a normal reply, a -MASTERDOWN / -LOADING
\* error, and the two readings of an INFO reply.
ReplyVals == {"ok", "stale", "infoUp", "infoDown"}
\* What setResponse may store: a reply, or one of the sentinel errors.
Results == ReplyVals \cup {"reset", "broken", "failure"}

VARIABLES
  input,        \* bc.input: the buffered requests
  inputClosed,  \* close(bc.input) has been called
  closed,       \* bc.closed
  state,        \* bc.state
  fails,        \* bc.retry.fails (saturated at RetryLimit + 1)
  wpc,          \* writer goroutine: where it is in run / loopWriter
  wreq,         \* writer goroutine: the request r it holds
  wbuf,         \* requests encoded into the FlushEncoder, not yet flushed
  round,        \* number of rounds whose dial succeeded
  tasks,        \* per round: the tasks channel
  tclosed,      \* per round: close(tasks) has been called
  rpc,          \* per round: where its reader goroutine is
  sock,        \* per round: the socket, "none" / "open" / "broken" / "closed"
  sent,         \* per round: requests flushed to the backend, unanswered
  replies,      \* per round: replies in transit to the reader
  health,       \* the backend: "up", or "stale" (master down / loading)
  faults,       \* faults injected so far
  flips,        \* health changes so far
  pushed,       \* requests pushed into bc.input so far
  kind,         \* per request: "cmd", "ping", "info" ("none" before creation)
  res,          \* per request: r.Resp / r.Err as set by setResponse
  src,          \* per request: the request whose reply was stored in it
  ndone,        \* per request: number of setResponse calls on it
  cpc,          \* the caller of Close: "open", "closing", "closed"
  kpc,          \* the caller of KeepAlive: "idle", or "callback" when it sends
  kprobe,       \* the INFO request whose callback KeepAlive is sending
  cbq,          \* keepAliveCallback: the queued callbacks (by their request)
  cbpc,         \* the callback goroutine: "idle", or "wait" in m.Batch.Wait()
  cbm           \* the request m of the callback being run

writerVars == <<input, inputClosed, closed, state, fails, wpc, wreq, wbuf, round>>
roundVars == <<tasks, tclosed, rpc, sock, sent, replies>>
envVars == <<health, faults, flips, pushed, kind, cpc, kpc, kprobe>>
reqVars == <<res, src, ndone>>
cbVars == <<cbq, cbpc, cbm>>
vars == <<writerVars, roundVars, envVars, reqVars, cbVars>>

-----------------------------------------------------------------------------
(* setResponse(r, resp, err): store the result and count the call (the    *)
(* Group.Done / Batch.Done it makes).  who is the request whose reply is  *)
(* stored, NoReq for an error.                                            *)
SetResponse(r, v, who) ==
  /\ res' = [res EXCEPT ![r] = v]
  /\ src' = [src EXCEPT ![r] = who]
  /\ ndone' = [ndone EXCEPT ![r] = @ + 1]

\* setResponse(r, nil, ErrBackendConnReset) for every r in S
ResetAll(S) ==
  /\ res' = [r \in AllReqs |-> IF r \in S THEN "reset" ELSE res[r]]
  /\ src' = [r \in AllReqs |-> IF r \in S THEN NoReq ELSE src[r]]
  /\ ndone' = [r \in AllReqs |-> IF r \in S THEN ndone[r] + 1 ELSE ndone[r]]

\* The deferred drain of loopWriter: fail what is buffered in bc.input.
DrainInput ==
  /\ input' = <<>>
  /\ ResetAll(Range(input))

\* delayBeforeRetry: count the failure; retry at once while fails <= 10,
\* else wait for the backoff timer.
AfterFailure ==
  /\ fails' = IF fails > RetryLimit THEN fails ELSE fails + 1
  /\ wpc' = IF fails + 1 <= RetryLimit THEN "start" ELSE "backoff"

\* What the backend answers to request r.
Answer(r) ==
  IF kind[r] = "info"
    THEN IF health = "up" THEN "infoUp" ELSE "infoDown"
    ELSE IF health = "up" THEN "ok" ELSE "stale"

-----------------------------------------------------------------------------
(* The router and the pool's keepalive timer.                             *)

\* PushBack(r): Batch.Add(1), then bc.input <- r (blocks while full).  The
\* router never pushes once it has started Close (that would panic).
PushBack(r) ==
  /\ cpc = "open"
  /\ r \in Reqs \ pushed
  /\ Len(input) < InputCap
  /\ input' = Append(input, r)
  /\ pushed' = pushed \cup {r}
  /\ UNCHANGED <<inputClosed, closed, state, fails, wpc, wreq, wbuf, round>>
  /\ UNCHANGED <<roundVars, health, faults, flips, kind, cpc, kpc, kprobe>>
  /\ UNCHANGED <<reqVars, cbVars>>

\* Close: stop.Do(close(bc.input)), then bc.closed.Set(true).
CloseInput ==
  /\ cpc = "open"
  /\ cpc' = "closing"
  /\ inputClosed' = TRUE
  /\ UNCHANGED <<input, closed, state, fails, wpc, wreq, wbuf, round>>
  /\ UNCHANGED <<roundVars, health, faults, flips, pushed, kind, kpc, kprobe>>
  /\ UNCHANGED <<reqVars, cbVars>>

SetClosed ==
  /\ cpc = "closing"
  /\ cpc' = "closed"
  /\ closed' = TRUE
  /\ UNCHANGED <<input, inputClosed, state, fails, wpc, wreq, wbuf, round>>
  /\ UNCHANGED <<roundVars, health, faults, flips, pushed, kind, kpc, kprobe>>
  /\ UNCHANGED <<reqVars, cbVars>>

\* KeepAlive: nothing while bc.input holds requests; else push a PING, or,
\* in DataStale, an INFO with a Batch whose callback is sent next.
KeepAlive(p) ==
  /\ cpc = "open"
  /\ kpc = "idle"
  /\ p \in Probes \ pushed
  /\ Len(input) = 0
  /\ input' = Append(input, p)
  /\ pushed' = pushed \cup {p}
  /\ IF state = stateDataStale
       THEN /\ kind' = [kind EXCEPT ![p] = "info"]
            /\ kpc' = "callback"
            /\ kprobe' = p
       ELSE /\ kind' = [kind EXCEPT ![p] = "ping"]
            /\ UNCHANGED <<kpc, kprobe>>
  /\ UNCHANGED <<inputClosed, closed, state, fails, wpc, wreq, wbuf, round>>
  /\ UNCHANGED <<roundVars, health, faults, flips, cpc, reqVars, cbVars>>

\* keepAliveCallback <- func(){...}: blocks while the channel is full.
KeepAliveSendCallback ==
  /\ kpc = "callback"
  /\ Len(cbq) < CallbackCap
  /\ cbq' = Append(cbq, kprobe)
  /\ kpc' = "idle"
  /\ kprobe' = NoReq
  /\ UNCHANGED <<writerVars, roundVars, health, faults, flips, pushed, kind>>
  /\ UNCHANGED <<cpc, reqVars, cbpc, cbm>>

\* The callback goroutine takes the next callback ...
CallbackRecv ==
  /\ cbpc = "idle"
  /\ cbq # <<>>
  /\ cbm' = Head(cbq)
  /\ cbq' = Tail(cbq)
  /\ cbpc' = "wait"
  /\ UNCHANGED <<writerVars, roundVars, envVars, reqVars>>

\* Mutant: bc.state.Set(stateConnected) in place of the CompareAndSwap.
RecoveredStateSet(m) == IF res[m] = "infoUp" THEN stateConnected ELSE state

\* The callback's bc.state.CompareAndSwap(stateDataStale, stateConnected),
\* made when the INFO reply shows the backend up.
RecoveredState(m) ==
  IF res[m] = "infoUp" /\ state = stateDataStale THEN stateConnected ELSE state

\* ... and, once m.Batch.Wait() returns, moves DataStale to Connected when
\* the INFO reply shows neither master_link_status:down nor loading:1.
CallbackRun ==
  /\ cbpc = "wait"
  /\ ndone[cbm] > 0
  /\ state' = RecoveredState(cbm)
  /\ cbpc' = "idle"
  /\ cbm' = NoReq
  /\ UNCHANGED <<input, inputClosed, closed, fails, wpc, wreq, wbuf, round>>
  /\ UNCHANGED <<roundVars, envVars, reqVars, cbq>>

-----------------------------------------------------------------------------
(* The writer goroutine: run, newBackendReader, loopWriter and            *)
(* delayBeforeRetry.                                                      *)

\* `for ; bc.closed.IsFalse(); ` fails: run returns.
RunExit ==
  /\ wpc = "start"
  /\ closed
  /\ wpc' = "done"
  /\ UNCHANGED <<input, inputClosed, closed, state, fails, wreq, wbuf, round>>
  /\ UNCHANGED <<roundVars, envVars, reqVars, cbVars>>

\* newBackendReader succeeds (dial, AUTH, SELECT): the reader of the new
\* round starts; state = Connected; the retry counter is reset.
DialOK ==
  /\ wpc = "start"
  /\ ~closed
  /\ round < MaxRounds
  /\ round' = round + 1
  /\ sock' = [sock EXCEPT ![round + 1] = "open"]
  /\ rpc' = [rpc EXCEPT ![round + 1] = "loop"]
  /\ state' = stateConnected
  /\ fails' = 0
  /\ wpc' = "loop"
  /\ UNCHANGED <<input, inputClosed, closed, wreq, wbuf>>
  /\ UNCHANGED <<tasks, tclosed, sent, replies, envVars, reqVars, cbVars>>

\* newBackendReader fails: loopWriter returns the error after draining
\* bc.input, then delayBeforeRetry.  It fails as a fault, or always once
\* MaxRounds rounds have been used (the backend then stays unreachable).
DialFail ==
  /\ wpc = "start"
  /\ ~closed
  /\ \/ /\ round < MaxRounds
        /\ faults < MaxFaults
        /\ faults' = faults + 1
     \/ /\ round = MaxRounds
        /\ UNCHANGED faults
  /\ DrainInput
  /\ AfterFailure
  /\ UNCHANGED <<inputClosed, closed, state, wreq, wbuf, round>>
  /\ UNCHANGED <<roundVars, health, flips, pushed, kind, cpc, kpc, kprobe>>
  /\ UNCHANGED cbVars

\* Mutant: the broken check made after p.EncodeMultiBulk(r.Multi).
SkipBrokenEncoded(r) ==
  SetResponse(r, "broken", NoReq) /\ wbuf' = Append(wbuf, r) /\ UNCHANGED <<wpc, wreq>>

\* setResponse(r, nil, ErrRequestIsBroken); continue
SkipBroken(r) ==
  SetResponse(r, "broken", NoReq) /\ UNCHANGED <<wpc, wreq, wbuf>>

\* `for r := range bc.input`: a broken read-only request is failed at once.
WriterRecv ==
  /\ wpc = "loop"
  /\ input # <<>>
  /\ input' = Tail(input)
  /\ IF Head(input) \in Broken
       THEN SkipBroken(Head(input))
       ELSE /\ wreq' = Head(input)
            /\ wpc' = "flush"
            /\ UNCHANGED <<reqVars, wbuf>>
  /\ UNCHANGED <<inputClosed, closed, state, fails, round>>
  /\ UNCHANGED <<roundVars, envVars, cbVars>>

\* The range over the closed, empty bc.input ends: loopWriter returns nil.
WriterRangeEnd ==
  /\ wpc = "loop"
  /\ input = <<>>
  /\ inputClosed
  /\ wpc' = "exitOk"
  /\ UNCHANGED <<input, inputClosed, closed, state, fails, wreq, wbuf, round>>
  /\ UNCHANGED <<roundVars, envVars, reqVars, cbVars>>

\* Mutant: p.Flush(false), never forced.
FlushWritesUnforced(due) == Len(wbuf) + 1 > MaxPipeline \div 2 \/ due

\* Whether p.Flush(len(bc.input) == 0) writes: when forced, when more than
\* MaxBuffered = cap(tasks)/2 requests are buffered, or when MaxInterval
\* has elapsed since the last flush (due).
FlushWrites(due) == Len(input) = 0 \/ Len(wbuf) + 1 > MaxPipeline \div 2 \/ due

\* Mutant: the failed request is still handed to the reader (no return).
FlushFailedNoReturn == SetResponse(wreq, "failure", NoReq) /\ wpc' = "push"

\* return bc.setResponse(r, nil, fmt.Errorf("backend conn failure, %s", err))
FlushFailed == SetResponse(wreq, "failure", NoReq) /\ wpc' = "exitErr"

\* p.EncodeMultiBulk(r.Multi) then p.Flush(len(bc.input) == 0).  The
\* FlushEncoder writes when forced, when MaxBuffered = cap(tasks)/2
\* requests are buffered, or when MaxInterval has elapsed (due).  A write
\* on a socket that is not open fails, and so may the encode once the
\* buffer holds earlier requests: r fails and loopWriter returns.
WriterFlush ==
  /\ wpc = "flush"
  /\ \E due \in BOOLEAN :
       LET writes == FlushWrites(due)
       IN  \/ /\ ~writes
              /\ wbuf' = Append(wbuf, wreq)
              /\ wpc' = "push"
              /\ UNCHANGED <<sent, reqVars>>
           \/ /\ writes
              /\ sock[round] = "open"
              /\ sent' = [sent EXCEPT ![round] = @ \o wbuf \o <<wreq>>]
              /\ wbuf' = <<>>
              /\ wpc' = "push"
              /\ UNCHANGED reqVars
           \/ /\ writes \/ wbuf # <<>>
              /\ sock[round] # "open"
              /\ FlushFailed
              /\ UNCHANGED <<sent, wbuf>>
  /\ UNCHANGED <<input, inputClosed, closed, state, fails, wreq, round>>
  /\ UNCHANGED <<tasks, tclosed, rpc, sock, replies, envVars, cbVars>>

\* Mutant: the send ignores the capacity of tasks.
PipelineRoomUnchecked == TRUE

\* tasks has room for one more request
PipelineRoom == Len(tasks[round]) < MaxPipeline

\* tasks <- r: blocks while the reader's pipeline is full.
WriterPush ==
  /\ wpc = "push"
  /\ PipelineRoom
  /\ tasks' = [tasks EXCEPT ![round] = Append(@, wreq)]
  /\ wreq' = NoReq
  /\ wpc' = "loop"
  /\ UNCHANGED <<input, inputClosed, closed, state, fails, wbuf, round>>
  /\ UNCHANGED <<tclosed, rpc, sock, sent, replies, envVars, reqVars, cbVars>>

\* Mutant: loopWriter without its `defer close(tasks)`.
CloseTasksMissing == UNCHANGED tclosed

\* close(tasks) of the current round
CloseTasks == tclosed' = [tclosed EXCEPT ![round] = TRUE]

\* The deferred calls of loopWriter, last in first out: state.Set(0),
\* close(tasks), drain bc.input; then run goes round again, through
\* delayBeforeRetry when the round failed.
WriterDefers ==
  /\ wpc \in {"exitOk", "exitErr"}
  /\ state' = 0
  /\ CloseTasks
  /\ wbuf' = <<>>
  /\ wreq' = NoReq
  /\ DrainInput
  /\ IF wpc = "exitErr"
       THEN AfterFailure
       ELSE /\ wpc' = "start"
            /\ UNCHANGED fails
  /\ UNCHANGED <<inputClosed, closed, round>>
  /\ UNCHANGED <<tasks, rpc, sock, sent, replies, envVars, cbVars>>

\* delayBeforeRetry's loop: the backoff timer fires (or bc.closed is seen).
BackoffTimeout ==
  /\ wpc = "backoff"
  /\ wpc' = "start"
  /\ UNCHANGED <<input, inputClosed, closed, state, fails, wreq, wbuf, round>>
  /\ UNCHANGED <<roundVars, envVars, reqVars, cbVars>>

\* ... a request arrives and is failed at once ...
BackoffReset ==
  /\ wpc = "backoff"
  /\ ~closed
  /\ input # <<>>
  /\ input' = Tail(input)
  /\ SetResponse(Head(input), "reset", NoReq)
  /\ UNCHANGED <<inputClosed, closed, state, fails, wpc, wreq, wbuf, round>>
  /\ UNCHANGED <<roundVars, envVars, cbVars>>

\* ... or bc.input is closed and empty (!ok).
BackoffInputClosed ==
  /\ wpc = "backoff"
  /\ ~closed
  /\ input = <<>>
  /\ inputClosed
  /\ wpc' = "start"
  /\ UNCHANGED <<input, inputClosed, closed, state, fails, wreq, wbuf, round>>
  /\ UNCHANGED <<roundVars, envVars, reqVars, cbVars>>

-----------------------------------------------------------------------------
(* The reader goroutine of round k: loopReader and its deferred cleanup.  *)

\* Decode the next reply and give it to the next task; a -MASTERDOWN or
\* -LOADING error moves Connected to DataStale (CompareAndSwap).
ReaderRecv(k) ==
  /\ rpc[k] = "loop"
  /\ tasks[k] # <<>>
  /\ replies[k] # <<>>
  /\ LET r == Head(tasks[k])
         rep == Head(replies[k])
     IN  /\ state' = IF rep.val = "stale" /\ state = stateConnected
                       THEN stateDataStale ELSE state
         /\ SetResponse(r, rep.val, rep.req)
  /\ tasks' = [tasks EXCEPT ![k] = Tail(@)]
  /\ replies' = [replies EXCEPT ![k] = Tail(@)]
  /\ UNCHANGED <<input, inputClosed, closed, fails, wpc, wreq, wbuf, round>>
  /\ UNCHANGED <<tclosed, rpc, sock, sent, envVars, cbVars>>

\* Decode fails: the task gets "backend conn failure", loopReader returns
\* and its defer closes the socket.  The read fails because the socket is
\* broken or closed, or as a fault (read timeout, malformed frame).
ReaderFail(k) ==
  /\ rpc[k] = "loop"
  /\ tasks[k] # <<>>
  /\ \/ /\ sock[k] # "open"
        /\ replies[k] = <<>>
        /\ UNCHANGED faults
     \/ /\ sock[k] = "open"
        /\ faults < MaxFaults
        /\ faults' = faults + 1
  /\ SetResponse(Head(tasks[k]), "failure", NoReq)
  /\ tasks' = [tasks EXCEPT ![k] = Tail(@)]
  /\ sock' = [sock EXCEPT ![k] = "closed"]
  /\ rpc' = [rpc EXCEPT ![k] = "drain"]
  /\ UNCHANGED <<writerVars, tclosed, sent, replies>>
  /\ UNCHANGED <<health, flips, pushed, kind, cpc, kpc, kprobe, cbVars>>

\* The range over the closed, empty tasks ends; the defer closes the socket.
ReaderEnd(k) ==
  /\ rpc[k] = "loop"
  /\ tasks[k] = <<>>
  /\ tclosed[k]
  /\ sock' = [sock EXCEPT ![k] = "closed"]
  /\ rpc' = [rpc EXCEPT ![k] = "done"]
  /\ UNCHANGED <<writerVars, tasks, tclosed, sent, replies>>
  /\ UNCHANGED <<envVars, reqVars, cbVars>>

\* The defer's `for r := range tasks`: every remaining task is reset.
ReaderDrain(k) ==
  /\ rpc[k] = "drain"
  /\ tasks[k] # <<>>
  /\ SetResponse(Head(tasks[k]), "reset", NoReq)
  /\ tasks' = [tasks EXCEPT ![k] = Tail(@)]
  /\ UNCHANGED <<writerVars, tclosed, rpc, sock, sent, replies>>
  /\ UNCHANGED <<envVars, cbVars>>

ReaderDrainEnd(k) ==
  /\ rpc[k] = "drain"
  /\ tasks[k] = <<>>
  /\ tclosed[k]
  /\ rpc' = [rpc EXCEPT ![k] = "done"]
  /\ UNCHANGED <<writerVars, tasks, tclosed, sock, sent, replies>>
  /\ UNCHANGED <<envVars, reqVars, cbVars>>

-----------------------------------------------------------------------------
(* The backend redis and the faults of the network.                       *)

\* The backend answers the oldest request it has received, in order.
ServerReply(k) ==
  /\ sock[k] = "open"
  /\ sent[k] # <<>>
  /\ replies' = [replies EXCEPT ![k] =
                   Append(@, [req |-> Head(sent[k]), val |-> Answer(Head(sent[k]))])]
  /\ sent' = [sent EXCEPT ![k] = Tail(@)]
  /\ UNCHANGED <<writerVars, tasks, tclosed, rpc, sock, envVars, reqVars, cbVars>>

\* The connection of round k breaks (reset, write timeout).
SocketBreak(k) ==
  /\ sock[k] = "open"
  /\ faults < MaxFaults
  /\ faults' = faults + 1
  /\ sock' = [sock EXCEPT ![k] = "broken"]
  /\ UNCHANGED <<writerVars, tasks, tclosed, rpc, sent, replies>>
  /\ UNCHANGED <<health, flips, pushed, kind, cpc, kpc, kprobe, reqVars, cbVars>>

\* The backend starts or stops loading / losing its master.
HealthFlip ==
  /\ flips < MaxFlips
  /\ flips' = flips + 1
  /\ health' = IF health = "up" THEN "stale" ELSE "up"
  /\ UNCHANGED <<writerVars, roundVars, faults, pushed, kind, cpc, kpc, kprobe>>
  /\ UNCHANGED <<reqVars, cbVars>>

-----------------------------------------------------------------------------
Init ==
  /\ input = <<>>
  /\ inputClosed = FALSE
  /\ closed = FALSE
  /\ state = 0
  /\ fails = 0
  /\ wpc = "start"
  /\ wreq = NoReq
  /\ wbuf = <<>>
  /\ round = 0
  /\ tasks = [k \in Rounds |-> <<>>]
  /\ tclosed = [k \in Rounds |-> FALSE]
  /\ rpc = [k \in Rounds |-> "idle"]
  /\ sock = [k \in Rounds |-> "none"]
  /\ sent = [k \in Rounds |-> <<>>]
  /\ replies = [k \in Rounds |-> <<>>]
  /\ health \in {"up", "stale"}
  /\ faults = 0
  /\ flips = 0
  /\ pushed = {}
  /\ kind = [r \in AllReqs |-> IF r \in Reqs THEN "cmd" ELSE "none"]
  /\ res = [r \in AllReqs |-> "none"]
  /\ src = [r \in AllReqs |-> NoReq]
  /\ ndone = [r \in AllReqs |-> 0]
  /\ cpc = "open"
  /\ kpc = "idle"
  /\ kprobe = NoReq
  /\ cbq = <<>>
  /\ cbpc = "idle"
  /\ cbm = NoReq

\* The writer goroutine's steps that are not faults.
Writer ==
  \/ RunExit \/ DialOK \/ (DialFail /\ round = MaxRounds)
  \/ WriterRecv \/ WriterRangeEnd \/ WriterFlush \/ WriterPush
  \/ WriterDefers \/ BackoffTimeout \/ BackoffReset \/ BackoffInputClosed

\* The reader goroutine of round k, its steps that are not faults.
Reader(k) ==
  \/ ReaderRecv(k) \/ (ReaderFail(k) /\ sock[k] # "open")
  \/ ReaderEnd(k) \/ ReaderDrain(k) \/ ReaderDrainEnd(k)

Callback == CallbackRecv \/ CallbackRun

Next ==
  \/ \E r \in Reqs : PushBack(r)
  \/ \E p \in Probes : KeepAlive(p)
  \/ CloseInput \/ SetClosed \/ KeepAliveSendCallback
  \/ RunExit \/ DialOK \/ DialFail
  \/ WriterRecv \/ WriterRangeEnd \/ WriterFlush \/ WriterPush \/ WriterDefers
  \/ BackoffTimeout \/ BackoffReset \/ BackoffInputClosed
  \/ \E k \in Rounds :
       \/ ReaderRecv(k) \/ ReaderFail(k) \/ ReaderEnd(k)
       \/ ReaderDrain(k) \/ ReaderDrainEnd(k)
       \/ ServerReply(k) \/ SocketBreak(k)
  \/ HealthFlip
  \/ CallbackRecv \/ CallbackRun

\* Goroutines that can run do run; the backend answers what it received;
\* the caller of Close and of KeepAlive finish their call.  Faults, the
\* router's pushes and the keepalive timer are never forced.
Fairness ==
  /\ WF_vars(Writer)
  /\ \A k \in Rounds : WF_vars(Reader(k)) /\ WF_vars(ServerReply(k))
  /\ WF_vars(Callback)
  /\ WF_vars(SetClosed)
  /\ WF_vars(KeepAliveSendCallback)

Spec == Init /\ [][Next]_vars
FairSpec == Spec /\ Fairness

-----------------------------------------------------------------------------
(* Properties.                                                            *)

WriterPcs == {"start", "loop", "flush", "push", "exitOk", "exitErr", "backoff", "done"}
ReaderPcs == {"idle", "loop", "drain", "done"}
Reply == [req : AllReqs, val : ReplyVals]

\* The types of the writer's variables, of the per-round variables, of
\* the environment's, of the per-request results and of the callback's.
WriterTypeOK ==
  /\ input \in Seq(AllReqs) /\ Len(input) <= InputCap
  /\ inputClosed \in BOOLEAN
  /\ closed \in BOOLEAN
  /\ state \in {0, stateConnected, stateDataStale}
  /\ fails \in 0 .. RetryLimit + 1
  /\ wpc \in WriterPcs
  /\ wreq \in AllReqs \cup {NoReq}
  /\ wbuf \in Seq(AllReqs)
  /\ round \in 0 .. MaxRounds

RoundTypeOK ==
  /\ tasks \in [Rounds -> Seq(AllReqs)]
  /\ \A k \in Rounds : Len(tasks[k]) <= MaxPipeline
  /\ tclosed \in [Rounds -> BOOLEAN]
  /\ rpc \in [Rounds -> ReaderPcs]
  /\ sock \in [Rounds -> {"none", "open", "broken", "closed"}]
  /\ sent \in [Rounds -> Seq(AllReqs)]
  /\ replies \in [Rounds -> Seq(Reply)]

EnvTypeOK ==
  /\ health \in {"up", "stale"}
  /\ faults \in 0 .. MaxFaults
  /\ flips \in 0 .. MaxFlips
  /\ pushed \subseteq AllReqs
  /\ kind \in [AllReqs -> {"cmd", "ping", "info", "none"}]
  /\ cpc \in {"open", "closing", "closed"}
  /\ kpc \in {"idle", "callback"}
  /\ kprobe \in Probes \cup {NoReq}

ReqTypeOK ==
  /\ res \in [AllReqs -> Results \cup {"none"}]
  /\ src \in [AllReqs -> AllReqs \cup {NoReq}]
  /\ ndone \in [AllReqs -> Nat]

CallbackTypeOK ==
  /\ cbq \in Seq(Probes)
  /\ cbpc \in {"idle", "wait"}
  /\ cbm \in Probes \cup {NoReq}

TypeOK == WriterTypeOK /\ RoundTypeOK /\ EnvTypeOK /\ ReqTypeOK /\ CallbackTypeOK

\* setResponse is called at most once on every request, whatever the
\* interleaving of writer, readers of old and new rounds, faults and
\* Close: a second call would run Batch.Done / Group.Done twice.
CompletedAtMostOnce == \A r \in AllReqs : ndone[r] <= 1

\* A request that got a backend reply got the reply to itself: the order
\* in which loopWriter writes requests is the order in which it hands
\* them to loopReader through tasks, in every round.
ReplyMatchesRequest == \A r \in AllReqs : src[r] \in {r, NoReq}

\* IsConnected() / DataStale hold only while a round of loopWriter runs:
\* its deferred state.Set(0) and the CompareAndSwaps of loopReader and of
\* the keepalive callback never leave a stale health behind.
HealthOnlyInRound ==
  state # 0 => wpc \in {"loop", "flush", "push", "exitOk", "exitErr"}

\* Every request pushed into bc.input is eventually completed (setResponse),
\* also across failed rounds and Close: nothing is dropped silently.
EveryRequestCompleted == \A r \in AllReqs : r \in pushed ~> ndone[r] > 0

\* The only requests never completed are those still buffered in bc.input
\* when run returned: every other pushed request, whether in the input
\* channel, in the writer's hand, unflushed in the encoder, in flight or in
\* the tasks of an old round, eventually gets its setResponse.
CompletedUnlessLeftInInput ==
  \A r \in AllReqs :
    r \in pushed ~> (ndone[r] > 0 \/ (wpc = "done" /\ r \in Range(input)))

\* After Close, run returns and every reader goroutine exits.
CloseTerminates ==
  cpc = "closed" ~> (wpc = "done" /\ \A k \in Rounds : rpc[k] \in {"idle", "done"})

\* Spec (4.5): "any I/O error in writer or reader aborts the round" and the
\* state goes to Disconnected.  Stated: while IsConnected() is true, the
\* reader of the current round is still reading its socket.
ConnectedOnlyWithLiveReader ==
  state = stateConnected => round \in Rounds /\ rpc[round] = "loop"

\* Spec (4.5): the writer flushes "when the input queue has momentarily
\* drained".  Stated: when loopWriter waits on an empty bc.input, nothing it
\* encoded is left unflushed in the FlushEncoder.
NothingBufferedWhenIdle == (wpc = "loop" /\ input = <<>>) => wbuf = <<>>

\* Spec (9): the keepalive callback channel is bounded and "overflow drops
\* the probe silently".  Stated: KeepAlive never waits on a full channel.
KeepAliveNeverBlocks == kpc = "callback" => Len(cbq) < CallbackCap

=============================================================================
