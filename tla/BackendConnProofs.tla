------------------------- MODULE BackendConnProofs -------------------------
(***************************************************************************)
(* Proofs about the backend connection worker of module BackendConn, for  *)
(* every value of its constants.                                          *)
(***************************************************************************)
EXTENDS BackendConn, SequenceTheorems, TLAPS

USE ConstantsAssumption

(* TypeOK is not inductive by itself: the writer appends the request it   *)
(* holds to the encoder buffer and to tasks, and KeepAlive appends the    *)
(* INFO request it holds to the callback channel, so these must be real   *)
(* requests whenever they are used.                                       *)
HandTypeOK ==
  /\ wpc \in {"loop", "flush", "push", "exitOk", "exitErr"} => round \in Rounds
  /\ wpc \in {"flush", "push"} => wreq \in AllReqs
  /\ kpc = "callback" => kprobe \in Probes

TypeInv == TypeOK /\ HandTypeOK

TypeParts == WriterTypeOK /\ RoundTypeOK /\ EnvTypeOK /\ ReqTypeOK /\ CallbackTypeOK

LEMMA InitTypeInv == Init => TypeInv
<1> SUFFICES ASSUME Init PROVE TypeInv
  OBVIOUS
<1>1. WriterTypeOK
  <2>1. input \in Seq(AllReqs) /\ Len(input) <= InputCap /\ wbuf \in Seq(AllReqs)
    BY EmptySeq DEF Init
  <2>2. fails \in 0 .. RetryLimit + 1 /\ round \in 0 .. MaxRounds
    BY DEF Init
  <2>3. QED
    BY <2>1, <2>2 DEF Init, WriterTypeOK, WriterPcs
<1>2. RoundTypeOK
  <2>1. \A k \in Rounds : <<>> \in Seq(AllReqs) /\ <<>> \in Seq(Reply) /\ Len(<<>>) <= MaxPipeline
    BY EmptySeq
  <2>2. QED
    BY <2>1 DEF Init, RoundTypeOK, ReaderPcs
<1>3. EnvTypeOK
  BY DEF Init, EnvTypeOK
<1>4. ReqTypeOK
  BY DEF Init, ReqTypeOK, Results
<1>5. CallbackTypeOK
  BY EmptySeq DEF Init, CallbackTypeOK
<1>6. QED
  BY <1>1, <1>2, <1>3, <1>4, <1>5 DEF TypeInv, TypeOK, HandTypeOK, Init

(* setResponse on one request keeps the per-request functions typed.      *)
LEMMA SetResponseType ==
  ASSUME ReqTypeOK, NEW r \in AllReqs, NEW v \in Results, NEW who \in AllReqs \cup {NoReq},
         SetResponse(r, v, who)
  PROVE  ReqTypeOK'
BY DEF SetResponse, ReqTypeOK

(* The drain of bc.input empties it and keeps the results typed.          *)
LEMMA DrainInputType ==
  ASSUME ReqTypeOK, DrainInput
  PROVE  ReqTypeOK' /\ input' \in Seq(AllReqs) /\ Len(input') = 0
BY EmptySeq DEF DrainInput, ResetAll, ReqTypeOK, Results

LEMMA AfterFailureType ==
  ASSUME WriterTypeOK, AfterFailure
  PROVE  fails' \in 0 .. RetryLimit + 1 /\ wpc' \in WriterPcs
BY DEF AfterFailure, WriterTypeOK, WriterPcs

(* Taking the head of the channel of one round keeps the channels typed  *)
(* and no longer.                                                         *)
LEMMA TailRound ==
  ASSUME NEW S, NEW f \in [Rounds -> Seq(S)], NEW k \in Rounds, f[k] # <<>>
  PROVE  /\ [f EXCEPT ![k] = Tail(@)] \in [Rounds -> Seq(S)]
         /\ Head(f[k]) \in S
         /\ \A j \in Rounds : Len([f EXCEPT ![k] = Tail(@)][j]) <= Len(f[j])
BY HeadTailProperties

LEMMA NextTypeInv == TypeInv /\ [Next]_vars => TypeInv'
<1> SUFFICES ASSUME TypeInv, [Next]_vars PROVE TypeInv'
  OBVIOUS
<1> USE DEF TypeInv, TypeOK, HandTypeOK
<1>1. ASSUME NEW r \in Reqs, PushBack(r) PROVE TypeInv'
  BY <1>1, AppendProperties
  DEF PushBack, WriterTypeOK, RoundTypeOK, EnvTypeOK, ReqTypeOK, CallbackTypeOK, roundVars, reqVars, cbVars, AllReqs
<1>2. ASSUME NEW p \in Probes, KeepAlive(p) PROVE TypeInv'
  <2>1. input' \in Seq(AllReqs) /\ Len(input') <= InputCap /\ pushed' \subseteq AllReqs
    BY <1>2, AppendProperties DEF KeepAlive, WriterTypeOK, EnvTypeOK, AllReqs
  <2>2. kind' \in [AllReqs -> {"cmd", "ping", "info", "none"}]
    BY <1>2 DEF KeepAlive, EnvTypeOK, AllReqs
  <2>3. kpc' \in {"idle", "callback"} /\ kprobe' \in Probes \cup {NoReq}
        /\ (kpc' = "callback" => kprobe' \in Probes)
    BY <1>2 DEF KeepAlive, EnvTypeOK
  <2>4. QED
    BY <1>2, <2>1, <2>2, <2>3 DEF KeepAlive, WriterTypeOK, RoundTypeOK, EnvTypeOK, ReqTypeOK, CallbackTypeOK, roundVars, reqVars, cbVars
<1>3. CASE CloseInput
  BY <1>3 DEF CloseInput, WriterTypeOK, RoundTypeOK, EnvTypeOK, ReqTypeOK, CallbackTypeOK, roundVars, reqVars, cbVars
<1>4. CASE SetClosed
  BY <1>4 DEF SetClosed, WriterTypeOK, RoundTypeOK, EnvTypeOK, ReqTypeOK, CallbackTypeOK, roundVars, reqVars, cbVars
<1>5. CASE KeepAliveSendCallback
  BY <1>5, AppendProperties
  DEF KeepAliveSendCallback, WriterTypeOK, RoundTypeOK, EnvTypeOK, ReqTypeOK, CallbackTypeOK, writerVars, roundVars, reqVars
<1>6. CASE CallbackRecv
  BY <1>6, HeadTailProperties
  DEF CallbackRecv, WriterTypeOK, RoundTypeOK, EnvTypeOK, ReqTypeOK, CallbackTypeOK, writerVars, roundVars, envVars, reqVars
<1>7. CASE CallbackRun
  BY <1>7 DEF CallbackRun, RecoveredState, WriterTypeOK, RoundTypeOK, EnvTypeOK, ReqTypeOK, CallbackTypeOK, roundVars, envVars, reqVars
<1>8. CASE RunExit
  BY <1>8 DEF RunExit, WriterTypeOK, RoundTypeOK, EnvTypeOK, ReqTypeOK, CallbackTypeOK, WriterPcs, roundVars, envVars, reqVars, cbVars
<1>9. CASE DialOK
  BY <1>9 DEF DialOK, WriterTypeOK, RoundTypeOK, EnvTypeOK, ReqTypeOK, CallbackTypeOK, WriterPcs, ReaderPcs, Rounds, envVars, reqVars, cbVars
<1>10. CASE DialFail
  <2>1. ReqTypeOK' /\ input' \in Seq(AllReqs) /\ Len(input') = 0
    BY <1>10, DrainInputType DEF DialFail
  <2>2. fails' \in 0 .. RetryLimit + 1 /\ wpc' \in WriterPcs /\ wpc' \in {"start", "backoff"}
    BY <1>10, AfterFailureType DEF DialFail, AfterFailure
  <2>3. faults' \in 0 .. MaxFaults
    BY <1>10 DEF DialFail, EnvTypeOK
  <2>4. QED
    BY <1>10, <2>1, <2>2, <2>3 DEF DialFail, WriterTypeOK, RoundTypeOK, EnvTypeOK, ReqTypeOK, CallbackTypeOK, roundVars, cbVars
<1>11. CASE WriterRecv
  <2>1. Head(input) \in AllReqs /\ input' \in Seq(AllReqs) /\ Len(input') <= InputCap
    BY <1>11, HeadTailProperties DEF WriterRecv, WriterTypeOK
  <2>2. CASE Head(input) \in Broken
    <3>1. ReqTypeOK'
      BY <1>11, <2>1, <2>2, SetResponseType DEF WriterRecv, SkipBroken, Results
    <3>2. QED
      BY <1>11, <2>1, <2>2, <3>1 DEF WriterRecv, SkipBroken, WriterTypeOK, RoundTypeOK, EnvTypeOK, ReqTypeOK, CallbackTypeOK, roundVars, envVars, cbVars
  <2>3. CASE Head(input) \notin Broken
    BY <1>11, <2>1, <2>3 DEF WriterRecv, WriterTypeOK, RoundTypeOK, EnvTypeOK, ReqTypeOK, CallbackTypeOK, WriterPcs, roundVars, envVars, reqVars, cbVars
  <2>4. QED
    BY <2>2, <2>3
<1>12. CASE WriterRangeEnd
  BY <1>12 DEF WriterRangeEnd, WriterTypeOK, RoundTypeOK, EnvTypeOK, ReqTypeOK, CallbackTypeOK, WriterPcs, roundVars, envVars, reqVars, cbVars
<1>13. CASE WriterFlush
  <2>1. round \in Rounds /\ wreq \in AllReqs
    BY <1>13 DEF WriterFlush
  <2>2. PICK due \in BOOLEAN :
          \/ /\ ~FlushWrites(due)
             /\ wbuf' = Append(wbuf, wreq)
             /\ wpc' = "push"
             /\ UNCHANGED <<sent, reqVars>>
          \/ /\ FlushWrites(due)
             /\ sock[round] = "open"
             /\ sent' = [sent EXCEPT ![round] = @ \o wbuf \o <<wreq>>]
             /\ wbuf' = <<>>
             /\ wpc' = "push"
             /\ UNCHANGED reqVars
          \/ /\ FlushWrites(due) \/ wbuf # <<>>
             /\ sock[round] # "open"
             /\ FlushFailed
             /\ UNCHANGED <<sent, wbuf>>
    BY <1>13 DEF WriterFlush
  <2>3. \A t \in Seq(AllReqs) : t \o wbuf \o <<wreq>> \in Seq(AllReqs)
    BY <2>1, ConcatProperties, AppendIsConcat, AppendProperties DEF WriterTypeOK
  <2>4. UNCHANGED <<input, inputClosed, closed, state, fails, wreq, round>>
        /\ UNCHANGED <<tasks, tclosed, rpc, sock, replies, envVars, cbVars>>
    BY <1>13 DEF WriterFlush
  <2>5. CASE ~FlushWrites(due) /\ wbuf' = Append(wbuf, wreq) /\ wpc' = "push"
             /\ UNCHANGED <<sent, reqVars>>
    BY <2>1, <2>4, <2>5, AppendProperties DEF WriterTypeOK, RoundTypeOK, EnvTypeOK, ReqTypeOK, CallbackTypeOK, WriterPcs, envVars, cbVars, reqVars
  <2>6. CASE FlushWrites(due) /\ sock[round] = "open"
             /\ sent' = [sent EXCEPT ![round] = @ \o wbuf \o <<wreq>>]
             /\ wbuf' = <<>> /\ wpc' = "push" /\ UNCHANGED reqVars
    <3>1. sent' \in [Rounds -> Seq(AllReqs)]
      BY <2>1, <2>3, <2>6 DEF RoundTypeOK
    <3>2. QED
      BY <2>1, <2>4, <2>6, <3>1, EmptySeq DEF WriterTypeOK, RoundTypeOK, EnvTypeOK, ReqTypeOK, CallbackTypeOK, WriterPcs, envVars, cbVars, reqVars
  <2>7. CASE (FlushWrites(due) \/ wbuf # <<>>) /\ sock[round] # "open"
             /\ FlushFailed /\ UNCHANGED <<sent, wbuf>>
    <3>1. ReqTypeOK'
      BY <2>1, <2>7, SetResponseType DEF FlushFailed, Results
    <3>2. QED
      BY <2>1, <2>4, <2>7, <3>1 DEF FlushFailed, WriterTypeOK, RoundTypeOK, EnvTypeOK, ReqTypeOK, CallbackTypeOK, WriterPcs, envVars, cbVars
  <2>8. QED
    BY <2>2, <2>5, <2>6, <2>7
<1>14. CASE WriterPush
  <2>1. round \in Rounds /\ wreq \in AllReqs
    BY <1>14 DEF WriterPush
  <2>2. tasks' \in [Rounds -> Seq(AllReqs)] /\ \A k \in Rounds : Len(tasks'[k]) <= MaxPipeline
    BY <1>14, <2>1, AppendProperties DEF WriterPush, PipelineRoom, RoundTypeOK
  <2>3. QED
    BY <1>14, <2>1, <2>2 DEF WriterPush, WriterTypeOK, RoundTypeOK, EnvTypeOK, ReqTypeOK, CallbackTypeOK, WriterPcs, envVars, reqVars, cbVars
<1>15. CASE WriterDefers
  <2>1. ReqTypeOK' /\ input' \in Seq(AllReqs) /\ Len(input') = 0
    BY <1>15, DrainInputType DEF WriterDefers
  <2>2. fails' \in 0 .. RetryLimit + 1 /\ wpc' \in {"start", "backoff"}
    BY <1>15, AfterFailureType DEF WriterDefers, AfterFailure, WriterTypeOK
  <2>3. tclosed' \in [Rounds -> BOOLEAN]
    BY <1>15 DEF WriterDefers, CloseTasks, RoundTypeOK
  <2>4. QED
    BY <1>15, <2>1, <2>2, <2>3, EmptySeq DEF WriterDefers, WriterTypeOK, RoundTypeOK, EnvTypeOK, ReqTypeOK, CallbackTypeOK, WriterPcs, envVars, cbVars
<1>16. CASE BackoffTimeout
  BY <1>16 DEF BackoffTimeout, WriterTypeOK, RoundTypeOK, EnvTypeOK, ReqTypeOK, CallbackTypeOK, WriterPcs, roundVars, envVars, reqVars, cbVars
<1>17. CASE BackoffReset
  <2>1. Head(input) \in AllReqs /\ input' \in Seq(AllReqs) /\ Len(input') <= InputCap
    BY <1>17, HeadTailProperties DEF BackoffReset, WriterTypeOK
  <2>2. ReqTypeOK'
    BY <1>17, <2>1, SetResponseType DEF BackoffReset, Results
  <2>3. QED
    BY <1>17, <2>1, <2>2 DEF BackoffReset, WriterTypeOK, RoundTypeOK, EnvTypeOK, ReqTypeOK, CallbackTypeOK, roundVars, envVars, cbVars
<1>18. CASE BackoffInputClosed
  BY <1>18 DEF BackoffInputClosed, WriterTypeOK, RoundTypeOK, EnvTypeOK, ReqTypeOK, CallbackTypeOK, WriterPcs, roundVars, envVars, reqVars, cbVars
<1>19. ASSUME NEW k \in Rounds, ReaderRecv(k) PROVE TypeInv'
  <2>1. /\ tasks' \in [Rounds -> Seq(AllReqs)] /\ Head(tasks[k]) \in AllReqs
        /\ \A j \in Rounds : Len(tasks'[j]) <= MaxPipeline
    BY <1>19, TailRound DEF ReaderRecv, RoundTypeOK
  <2>2. replies' \in [Rounds -> Seq(Reply)] /\ Head(replies[k]) \in Reply
    BY <1>19, TailRound DEF ReaderRecv, RoundTypeOK
  <2>3. ReqTypeOK'
    BY <1>19, <2>1, <2>2, SetResponseType DEF ReaderRecv, Reply, Results
  <2>4. state' \in {0, stateConnected, stateDataStale}
    BY <1>19 DEF ReaderRecv, WriterTypeOK
  <2>5. QED
    BY <1>19, <2>1, <2>2, <2>3, <2>4 DEF ReaderRecv, WriterTypeOK, RoundTypeOK, EnvTypeOK, ReqTypeOK, CallbackTypeOK, writerVars, envVars, cbVars
<1>20. ASSUME NEW k \in Rounds, ReaderFail(k) PROVE TypeInv'
  <2>1. /\ tasks' \in [Rounds -> Seq(AllReqs)] /\ Head(tasks[k]) \in AllReqs
        /\ \A j \in Rounds : Len(tasks'[j]) <= MaxPipeline
    BY <1>20, TailRound DEF ReaderFail, RoundTypeOK
  <2>2. ReqTypeOK'
    BY <1>20, <2>1, SetResponseType DEF ReaderFail, Results
  <2>3. faults' \in 0 .. MaxFaults
    BY <1>20 DEF ReaderFail, EnvTypeOK
  <2>4. sock' \in [Rounds -> {"none", "open", "broken", "closed"}] /\ rpc' \in [Rounds -> ReaderPcs]
    BY <1>20 DEF ReaderFail, RoundTypeOK, ReaderPcs
  <2>5. UNCHANGED <<writerVars, tclosed, sent, replies>>
        /\ UNCHANGED <<health, flips, pushed, kind, cpc, kpc, kprobe, cbVars>>
    BY <1>20 DEF ReaderFail
  <2>6. WriterTypeOK' /\ CallbackTypeOK' /\ HandTypeOK'
    BY <2>5 DEF WriterTypeOK, CallbackTypeOK, HandTypeOK, writerVars, cbVars
  <2>7. RoundTypeOK'
    BY <2>1, <2>4, <2>5 DEF RoundTypeOK
  <2>8. EnvTypeOK'
    BY <2>3, <2>5 DEF EnvTypeOK
  <2>9. QED
    BY <2>2, <2>6, <2>7, <2>8
<1>21. ASSUME NEW k \in Rounds, ReaderEnd(k) PROVE TypeInv'
  BY <1>21 DEF ReaderEnd, WriterTypeOK, RoundTypeOK, EnvTypeOK, ReqTypeOK, CallbackTypeOK, ReaderPcs, writerVars, envVars, reqVars, cbVars
<1>22. ASSUME NEW k \in Rounds, ReaderDrain(k) PROVE TypeInv'
  <2>1. /\ tasks' \in [Rounds -> Seq(AllReqs)] /\ Head(tasks[k]) \in AllReqs
        /\ \A j \in Rounds : Len(tasks'[j]) <= MaxPipeline
    BY <1>22, TailRound DEF ReaderDrain, RoundTypeOK
  <2>2. ReqTypeOK'
    BY <1>22, <2>1, SetResponseType DEF ReaderDrain, Results
  <2>3. RoundTypeOK'
    BY <1>22, <2>1 DEF ReaderDrain, RoundTypeOK
  <2>4. WriterTypeOK' /\ EnvTypeOK' /\ CallbackTypeOK' /\ HandTypeOK'
    BY <1>22 DEF ReaderDrain, WriterTypeOK, EnvTypeOK, CallbackTypeOK, writerVars,
                 envVars, cbVars
  <2>5. QED
    BY <2>2, <2>3, <2>4
<1>23. ASSUME NEW k \in Rounds, ReaderDrainEnd(k) PROVE TypeInv'
  BY <1>23 DEF ReaderDrainEnd, WriterTypeOK, RoundTypeOK, EnvTypeOK, ReqTypeOK, CallbackTypeOK, ReaderPcs, writerVars, envVars, reqVars, cbVars
<1>24. ASSUME NEW k \in Rounds, ServerReply(k) PROVE TypeInv'
  <2>1. sent' \in [Rounds -> Seq(AllReqs)] /\ Head(sent[k]) \in AllReqs
    BY <1>24, TailRound DEF ServerReply, RoundTypeOK
  <2>2. [req |-> Head(sent[k]), val |-> Answer(Head(sent[k]))] \in Reply
    BY <2>1 DEF Answer, Reply, ReplyVals
  <2>3. replies' \in [Rounds -> Seq(Reply)]
    BY <1>24, <2>2, AppendProperties DEF ServerReply, RoundTypeOK
  <2>4. QED
    BY <1>24, <2>1, <2>3 DEF ServerReply, WriterTypeOK, RoundTypeOK, EnvTypeOK, ReqTypeOK, CallbackTypeOK, writerVars, envVars, reqVars, cbVars
<1>25. ASSUME NEW k \in Rounds, SocketBreak(k) PROVE TypeInv'
  BY <1>25 DEF SocketBreak, WriterTypeOK, RoundTypeOK, EnvTypeOK, ReqTypeOK, CallbackTypeOK, writerVars, reqVars, cbVars
<1>26. CASE HealthFlip
  BY <1>26 DEF HealthFlip, WriterTypeOK, RoundTypeOK, EnvTypeOK, ReqTypeOK, CallbackTypeOK, writerVars, roundVars, reqVars, cbVars
<1>27. CASE UNCHANGED vars
  BY <1>27 DEF vars, WriterTypeOK, RoundTypeOK, EnvTypeOK, ReqTypeOK, CallbackTypeOK, writerVars, roundVars, envVars, reqVars, cbVars
<1>28. QED
  BY <1>1, <1>2, <1>3, <1>4, <1>5, <1>6, <1>7, <1>8, <1>9, <1>10, <1>11, <1>12,
     <1>13, <1>14, <1>15, <1>16, <1>17, <1>18, <1>19, <1>20, <1>21, <1>22,
     <1>23, <1>24, <1>25, <1>26, <1>27 DEF Next
(* Every reachable state has the types of TypeOK: the bounded channels  *)
(* bc.input and tasks never exceed their capacities, the retry counter of *)
(* delayBeforeRetry stays in 0 .. RetryLimit + 1, and every value handed  *)
(* between the goroutines is a request.                                   *)
THEOREM TypeCorrect == Spec => []TypeOK
<1>1. Init => TypeInv
  BY InitTypeInv
<1>2. TypeInv /\ [Next]_vars => TypeInv'
  BY NextTypeInv
<1>3. TypeInv => TypeOK
  BY DEF TypeInv
<1>4. QED
  BY <1>1, <1>2, <1>3, PTL DEF Spec

-----------------------------------------------------------------------------
(* The health state machine.                                              *)


LEMMA InitHealth == Init => HealthOnlyInRound
BY DEF Init, HealthOnlyInRound

(* A step keeps HealthOnlyInRound: the only writes of a non-zero state    *)
(* outside the deferred state.Set(0) are the Connected of a new round and *)
(* the two CompareAndSwaps, which need a non-zero state already.          *)
LEMMA NextHealth == TypeOK /\ HealthOnlyInRound /\ [Next]_vars => HealthOnlyInRound'
<1> SUFFICES ASSUME TypeOK, HealthOnlyInRound, [Next]_vars PROVE HealthOnlyInRound'
  OBVIOUS
<1> USE DEF HealthOnlyInRound
<1>1. CASE \E k \in Rounds : ReaderRecv(k)
  BY <1>1 DEF ReaderRecv, stateConnected, stateDataStale
<1>2. CASE CallbackRun
  BY <1>2 DEF CallbackRun, RecoveredState, stateConnected, stateDataStale
<1>3. CASE DialOK \/ WriterDefers \/ RunExit \/ DialFail
  BY <1>3 DEF DialOK, WriterDefers, RunExit, DialFail, AfterFailure
<1>4. CASE WriterRecv \/ WriterRangeEnd \/ WriterFlush \/ WriterPush
  BY <1>4 DEF WriterRecv, SkipBroken, WriterRangeEnd, WriterFlush, FlushFailed, WriterPush
<1>5. CASE BackoffTimeout \/ BackoffReset \/ BackoffInputClosed
  BY <1>5 DEF BackoffTimeout, BackoffReset, BackoffInputClosed
<1>6. CASE \/ \E r \in Reqs : PushBack(r)
           \/ \E p \in Probes : KeepAlive(p)
           \/ CloseInput \/ SetClosed \/ KeepAliveSendCallback \/ CallbackRecv
  BY <1>6 DEF PushBack, KeepAlive, CloseInput, SetClosed, KeepAliveSendCallback,
              CallbackRecv, writerVars
<1>7. CASE \E k \in Rounds :
             \/ ReaderFail(k) \/ ReaderEnd(k) \/ ReaderDrain(k) \/ ReaderDrainEnd(k)
             \/ ServerReply(k) \/ SocketBreak(k)
  BY <1>7 DEF ReaderFail, ReaderEnd, ReaderDrain, ReaderDrainEnd, ServerReply,
              SocketBreak, writerVars
<1>8. CASE HealthFlip \/ UNCHANGED vars
  BY <1>8 DEF HealthFlip, vars, writerVars
<1>9. QED
  BY <1>1, <1>2, <1>3, <1>4, <1>5, <1>6, <1>7, <1>8 DEF Next

(* IsConnected() and DataStale hold only while a round of loopWriter is   *)
(* running: the writer's deferred state.Set(0) and the CompareAndSwaps of *)
(* loopReader and of the keepalive callback never leave a non-zero state  *)
(* behind once run has left the round.                                    *)
THEOREM HealthInvariant == Spec => []HealthOnlyInRound
BY InitHealth, NextHealth, TypeCorrect, PTL DEF Spec

=============================================================================
