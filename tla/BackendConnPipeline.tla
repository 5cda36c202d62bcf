------------------------ MODULE BackendConnPipeline -------------------------
(***************************************************************************)
(* Proofs that setResponse is called at most once on every request and   *)
(* that a request only ever gets the reply to itself, for every value of *)
(* the constants of BackendConn.                                          *)
(***************************************************************************)
EXTENDS BackendConnProofs

(* Where a request waits for its setResponse.  A pushed, uncompleted      *)
(* request is in exactly one of: bc.input, the writer's hand (while it    *)
(* encodes, flushes and pushes it), or the tasks of one round; once it is *)
(* completed it is in none of them.  The encoder buffer and the socket    *)
(* hold copies of requests that are in tasks or in the writer's hand.     *)

\* The request loopWriter holds between its receive and its push.
InHand == IF wpc \in {"flush", "push"} THEN {wreq} ELSE {}

\* Each place holds a request once, and no request is in two places.
Disjoint ==
  /\ IsInjective(input)
  /\ \A k \in Rounds : IsInjective(tasks[k])
  /\ Range(input) \cap InHand = {}
  /\ \A k \in Rounds : Range(tasks[k]) \cap (Range(input) \cup InHand) = {}
  /\ \A k, j \in Rounds : k # j => Range(tasks[k]) \cap Range(tasks[j]) = {}

\* What is in a place has been pushed and is not completed; what has not
\* been pushed is not completed; nothing is completed twice.
Waiting ==
  /\ \A r \in Range(input) \cup InHand : r \in pushed /\ ndone[r] = 0
  /\ \A k \in Rounds : \A r \in Range(tasks[k]) : r \in pushed /\ ndone[r] = 0
  /\ \A r \in AllReqs \ pushed : ndone[r] = 0
  /\ \A r \in AllReqs : ndone[r] \in {0, 1}

OwnInv == TypeInv /\ Disjoint /\ Waiting

(* The order of a round.  While the reader of round k still reads, the    *)
(* requests whose replies are in transit, then those the backend has not  *)
(* answered yet, then those still in the encoder, are the tasks of round  *)
(* k in order, followed by the request the writer is about to push.  Once *)
(* the writer has left the round, what was sent is a prefix of the tasks. *)

\* The requests a sequence of replies answers, in order.
ReqsOf(rs) == [i \in 1 .. Len(rs) |-> rs[i].req]

\* The requests the replies in transit answer, then those the backend has
\* received and not answered yet.
Stream(k) == ReqsOf(replies[k]) \o sent[k]

\* The request the writer has flushed or buffered and not yet pushed.
Pending == IF wpc = "push" THEN <<wreq>> ELSE <<>>

\* s is a prefix of t.
PrefixOf(s, t) == Len(s) <= Len(t) /\ \A i \in 1 .. Len(s) : s[i] = t[i]

\* The writer is inside round k.
InRound(k) == round = k /\ wpc \in {"loop", "flush", "push"}

\* The order of round k while its reader reads.
OrderedAt(k) ==
  rpc[k] = "loop" =>
    IF InRound(k)
      THEN Stream(k) \o wbuf = tasks[k] \o Pending
      ELSE PrefixOf(Stream(k), tasks[k])

Ordered == \A k \in Rounds : OrderedAt(k)

\* Rounds not yet started are empty, and so is the encoder outside a round.
Fresh ==
  /\ \A k \in Rounds : k > round =>
       /\ tasks[k] = <<>> /\ sent[k] = <<>> /\ replies[k] = <<>>
       /\ rpc[k] = "idle" /\ sock[k] = "none"
  /\ wpc \in {"start", "backoff", "done"} => wbuf = <<>>

MatchInv == TypeInv /\ Ordered /\ Fresh /\ ReplyMatchesRequest

-----------------------------------------------------------------------------
(* Lemmas on the channels: what Append and Tail do to the set of values a *)
(* channel holds and to its holding each value once.                      *)

LEMMA EmptyChannel == Range(<<>>) = {} /\ IsInjective(<<>>)
BY DEF Range, IsInjective

LEMMA AppendChannel ==
  ASSUME NEW S, NEW s \in Seq(S), NEW x \in S
  PROVE  /\ Range(Append(s, x)) = Range(s) \cup {x}
         /\ IsInjective(s) /\ x \notin Range(s) => IsInjective(Append(s, x))
<1>1. DOMAIN Append(s, x) = 1 .. Len(s) + 1 /\ DOMAIN s = 1 .. Len(s)
  BY AppendProperties
<1>2. \A i \in 1 .. Len(s) : Append(s, x)[i] = s[i]
  BY AppendProperties
<1>3. Append(s, x)[Len(s) + 1] = x
  BY AppendProperties
<1>4. Range(Append(s, x)) = Range(s) \cup {x}
  BY <1>1, <1>2, <1>3 DEF Range
<1>5. IsInjective(s) /\ x \notin Range(s) => IsInjective(Append(s, x))
  BY <1>1, <1>2, <1>3 DEF Range, IsInjective
<1> QED
  BY <1>4, <1>5

LEMMA TailChannel ==
  ASSUME NEW S, NEW s \in Seq(S), s # <<>>
  PROVE  /\ Head(s) \in Range(s)
         /\ Range(Tail(s)) \subseteq Range(s)
         /\ IsInjective(s) => /\ IsInjective(Tail(s))
                              /\ Range(Tail(s)) = Range(s) \ {Head(s)}
<1>1. Len(s) >= 1 /\ DOMAIN s = 1 .. Len(s)
  BY EmptySeq, LenProperties
<1>2. DOMAIN Tail(s) = 1 .. Len(s) - 1 /\ \A i \in 1 .. Len(s) - 1 : Tail(s)[i] = s[i + 1]
  BY HeadTailProperties
<1>3. Head(s) = s[1]
  OBVIOUS
<1>4. Head(s) \in Range(s) /\ Range(Tail(s)) \subseteq Range(s)
  BY <1>1, <1>2, <1>3 DEF Range
<1>5. Range(s) \ {Head(s)} \subseteq Range(Tail(s))
  <2> SUFFICES ASSUME NEW i \in 1 .. Len(s), s[i] # Head(s) PROVE s[i] \in Range(Tail(s))
    BY <1>1 DEF Range
  <2>1. i - 1 \in 1 .. Len(s) - 1 /\ Tail(s)[i - 1] = s[i]
    BY <1>1, <1>2, <1>3
  <2> QED
    BY <1>2, <2>1 DEF Range
<1>6. ASSUME IsInjective(s) PROVE IsInjective(Tail(s)) /\ Head(s) \notin Range(Tail(s))
  BY <1>1, <1>2, <1>3, <1>6 DEF Range, IsInjective
<1> QED
  BY <1>4, <1>5, <1>6

-----------------------------------------------------------------------------
(* How each kind of step moves a request between the places.             *)

\* A step that moves no request and completes none.
LEMMA OwnFrame ==
  ASSUME Disjoint, Waiting, input' = input, tasks' = tasks, ndone' = ndone,
         pushed' = pushed, InHand' = InHand
  PROVE  Disjoint' /\ Waiting'
BY DEF Disjoint, Waiting

\* PushBack and KeepAlive: a request never pushed before enters bc.input.
LEMMA OwnNew ==
  ASSUME TypeInv, Disjoint, Waiting, NEW x \in AllReqs \ pushed,
         input' = Append(input, x), pushed' = pushed \cup {x},
         tasks' = tasks, ndone' = ndone, InHand' = InHand
  PROVE  Disjoint' /\ Waiting'
<1>1. input \in Seq(AllReqs)
  BY DEF TypeInv, TypeOK, WriterTypeOK
<1>2. x \notin Range(input) \cup InHand /\ \A k \in Rounds : x \notin Range(tasks[k])
  BY DEF Waiting
<1>3. Range(input') = Range(input) \cup {x} /\ IsInjective(input')
  BY <1>1, <1>2, AppendChannel DEF Disjoint
<1>4. ndone[x] = 0
  BY DEF Waiting
<1>5. Disjoint'
  <2>1. IsInjective(input') /\ \A k \in Rounds : IsInjective(tasks'[k])
    BY <1>3 DEF Disjoint
  <2>2. Range(input') \cap InHand' = {}
    BY <1>2, <1>3 DEF Disjoint
  <2>3. \A k \in Rounds : Range(tasks'[k]) \cap (Range(input') \cup InHand') = {}
    BY <1>2, <1>3 DEF Disjoint
  <2>4. \A k, j \in Rounds : k # j => Range(tasks'[k]) \cap Range(tasks'[j]) = {}
    BY DEF Disjoint
  <2> QED
    BY <2>1, <2>2, <2>3, <2>4 DEF Disjoint
<1>6. Waiting'
  <2>1. \A r \in Range(input') \cup InHand' : r \in pushed' /\ ndone'[r] = 0
    BY <1>3, <1>4 DEF Waiting
  <2>2. \A k \in Rounds : \A r \in Range(tasks'[k]) : r \in pushed' /\ ndone'[r] = 0
    BY DEF Waiting
  <2>3. \A r \in AllReqs \ pushed' : ndone'[r] = 0
    BY DEF Waiting
  <2>4. \A r \in AllReqs : ndone'[r] \in {0, 1}
    BY DEF Waiting
  <2> QED
    BY <2>1, <2>2, <2>3, <2>4 DEF Waiting
<1> QED
  BY <1>5, <1>6

\* WriterRecv: the head of bc.input goes into the writer's hand.
LEMMA OwnInputToHand ==
  ASSUME TypeInv, Disjoint, Waiting, input # <<>>, input' = Tail(input),
         InHand = {}, InHand' = {Head(input)},
         tasks' = tasks, ndone' = ndone, pushed' = pushed
  PROVE  Disjoint' /\ Waiting'
<1>1. input \in Seq(AllReqs)
  BY DEF TypeInv, TypeOK, WriterTypeOK
<1>2. /\ Head(input) \in Range(input)
      /\ IsInjective(input') /\ Range(input') = Range(input) \ {Head(input)}
  BY <1>1, TailChannel DEF Disjoint
<1>3. Disjoint'
  <2>1. IsInjective(input') /\ \A k \in Rounds : IsInjective(tasks'[k])
    BY <1>2 DEF Disjoint
  <2>2. Range(input') \cap InHand' = {}
    BY <1>2
  <2>3. \A k \in Rounds : Range(tasks'[k]) \cap (Range(input') \cup InHand') = {}
    BY <1>2 DEF Disjoint
  <2>4. \A k, j \in Rounds : k # j => Range(tasks'[k]) \cap Range(tasks'[j]) = {}
    BY DEF Disjoint
  <2> QED
    BY <2>1, <2>2, <2>3, <2>4 DEF Disjoint
<1>4. Waiting'
  <2>1. \A r \in Range(input') \cup InHand' : r \in pushed' /\ ndone'[r] = 0
    BY <1>2 DEF Waiting
  <2>2. \A k \in Rounds : \A r \in Range(tasks'[k]) : r \in pushed' /\ ndone'[r] = 0
    BY DEF Waiting
  <2>3. \A r \in AllReqs \ pushed' : ndone'[r] = 0
    BY DEF Waiting
  <2>4. \A r \in AllReqs : ndone'[r] \in {0, 1}
    BY DEF Waiting
  <2> QED
    BY <2>1, <2>2, <2>3, <2>4 DEF Waiting
<1> QED
  BY <1>3, <1>4

\* setResponse on a request the step takes out of its place: the places
\* afterwards hold none of it, and it was waiting.
LEMMA OwnComplete ==
  ASSUME TypeInv, Disjoint, Waiting, NEW x,
         x \in Range(input) \cup InHand \cup UNION {Range(tasks[k]) : k \in Rounds},
         ndone' = [ndone EXCEPT ![x] = @ + 1], pushed' = pushed,
         Disjoint',
         x \notin Range(input') \cup InHand' \cup UNION {Range(tasks'[k]) : k \in Rounds},
         Range(input') \cup InHand' \cup UNION {Range(tasks'[k]) : k \in Rounds}
           \subseteq Range(input) \cup InHand \cup UNION {Range(tasks[k]) : k \in Rounds}
  PROVE  Waiting'
<1>3. pushed \subseteq AllReqs
  BY DEF TypeInv, TypeOK, EnvTypeOK
<1>1. x \in pushed /\ ndone[x] = 0 /\ x \in AllReqs
  <2>1. CASE x \in Range(input) \cup InHand
    BY <2>1, <1>3 DEF Waiting
  <2>2. CASE \E k \in Rounds : x \in Range(tasks[k])
    BY <2>2, <1>3 DEF Waiting
  <2> QED
    BY <2>1, <2>2
<1>2. ndone'[x] = 1 /\ \A y \in AllReqs \ {x} : ndone'[y] = ndone[y]
  BY <1>1 DEF TypeInv, TypeOK, ReqTypeOK
<1>4. \A r \in Range(input') \cup InHand' : r \in pushed' /\ ndone'[r] = 0
  BY <1>2, <1>3 DEF Waiting
<1>5. \A k \in Rounds : \A r \in Range(tasks'[k]) : r \in pushed' /\ ndone'[r] = 0
  <2> SUFFICES ASSUME NEW k \in Rounds, NEW r \in Range(tasks'[k]) PROVE r \in pushed' /\ ndone'[r] = 0
    OBVIOUS
  <2>1. r # x /\ r \in Range(input) \cup InHand \cup UNION {Range(tasks[j]) : j \in Rounds}
    OBVIOUS
  <2>2. r \in pushed /\ ndone[r] = 0
    BY <2>1 DEF Waiting
  <2> QED
    BY <1>2, <1>3, <2>1, <2>2
<1>6. \A r \in AllReqs \ pushed' : ndone'[r] = 0
  BY <1>1, <1>2 DEF Waiting
<1>7. \A r \in AllReqs : ndone'[r] \in {0, 1}
  BY <1>1, <1>2 DEF Waiting
<1> QED
  BY <1>4, <1>5, <1>6, <1>7 DEF Waiting

\* WriterRecv of a broken request and BackoffReset: the head of bc.input
\* is completed.
LEMMA OwnInputDone ==
  ASSUME TypeInv, Disjoint, Waiting, input # <<>>, input' = Tail(input),
         ndone' = [ndone EXCEPT ![Head(input)] = @ + 1],
         tasks' = tasks, pushed' = pushed, InHand' = InHand
  PROVE  Disjoint' /\ Waiting'
<1>1. input \in Seq(AllReqs)
  BY DEF TypeInv, TypeOK, WriterTypeOK
<1>2. /\ Head(input) \in Range(input)
      /\ IsInjective(input') /\ Range(input') = Range(input) \ {Head(input)}
  BY <1>1, TailChannel DEF Disjoint
<1>3. Disjoint'
  <2>1. IsInjective(input') /\ \A k \in Rounds : IsInjective(tasks'[k])
    BY <1>2 DEF Disjoint
  <2>2. Range(input') \cap InHand' = {}
    BY <1>2 DEF Disjoint
  <2>3. \A k \in Rounds : Range(tasks'[k]) \cap (Range(input') \cup InHand') = {}
    BY <1>2 DEF Disjoint
  <2>4. \A k, j \in Rounds : k # j => Range(tasks'[k]) \cap Range(tasks'[j]) = {}
    BY DEF Disjoint
  <2> QED
    BY <2>1, <2>2, <2>3, <2>4 DEF Disjoint
<1>4. Head(input) \notin InHand \cup UNION {Range(tasks[k]) : k \in Rounds}
  BY <1>2 DEF Disjoint
<1> QED
  BY <1>2, <1>3, <1>4, OwnComplete

\* The deferred drain of bc.input (DialFail, WriterDefers): every request
\* in it is completed, outside any round's hand.
LEMMA OwnDrain ==
  ASSUME TypeInv, Disjoint, Waiting, input' = <<>>, InHand = {}, InHand' = {},
         ndone' = [r \in AllReqs |-> IF r \in Range(input) THEN ndone[r] + 1 ELSE ndone[r]],
         tasks' = tasks, pushed' = pushed
  PROVE  Disjoint' /\ Waiting'
<1>1. Range(input') = {} /\ IsInjective(input')
  BY EmptyChannel
<1>2. Disjoint'
  BY <1>1 DEF Disjoint
<1>3. \A r \in AllReqs : r \notin Range(input) => ndone'[r] = ndone[r]
  OBVIOUS
<1>4. \A r \in Range(input) : ndone[r] = 0 /\ r \in AllReqs
  BY DEF Waiting, TypeInv, TypeOK, EnvTypeOK
<1>5. \A r \in AllReqs : ndone'[r] \in {0, 1}
  BY <1>4 DEF Waiting
<1>6. \A k \in Rounds : \A r \in Range(tasks'[k]) : r \in pushed' /\ ndone'[r] = 0
  <2> SUFFICES ASSUME NEW k \in Rounds, NEW r \in Range(tasks[k]) PROVE r \in pushed /\ ndone'[r] = 0
    OBVIOUS
  <2>1. r \notin Range(input) /\ r \in pushed /\ ndone[r] = 0 /\ r \in AllReqs
    BY DEF Disjoint, Waiting, TypeInv, TypeOK, EnvTypeOK
  <2> QED
    BY <1>3, <2>1
<1>7. \A r \in AllReqs \ pushed' : ndone'[r] = 0
  <2> SUFFICES ASSUME NEW r \in AllReqs \ pushed PROVE ndone'[r] = 0
    OBVIOUS
  <2>1. r \notin Range(input) /\ ndone[r] = 0
    BY DEF Waiting
  <2> QED
    BY <1>3, <2>1
<1> QED
  BY <1>1, <1>2, <1>5, <1>6, <1>7 DEF Waiting

\* FlushFailed: the request in the writer's hand is completed.
LEMMA OwnHandDone ==
  ASSUME TypeInv, Disjoint, Waiting, NEW w, InHand = {w}, InHand' = {},
         ndone' = [ndone EXCEPT ![w] = @ + 1],
         input' = input, tasks' = tasks, pushed' = pushed
  PROVE  Disjoint' /\ Waiting'
<1>1. Disjoint'
  BY DEF Disjoint
<1>2. w \notin Range(input) \cup UNION {Range(tasks[k]) : k \in Rounds}
  BY DEF Disjoint
<1> QED
  BY <1>1, <1>2, OwnComplete

\* WriterPush: the request in the writer's hand goes into tasks of round k.
LEMMA OwnHandToTasks ==
  ASSUME TypeInv, Disjoint, Waiting, NEW w \in AllReqs, NEW k \in Rounds,
         InHand = {w}, InHand' = {},
         tasks' = [tasks EXCEPT ![k] = Append(@, w)],
         input' = input, ndone' = ndone, pushed' = pushed
  PROVE  Disjoint' /\ Waiting'
<1>1. tasks[k] \in Seq(AllReqs)
  BY DEF TypeInv, TypeOK, RoundTypeOK
<1>2. w \notin Range(tasks[k])
  BY DEF Disjoint
<1>3. Range(tasks'[k]) = Range(tasks[k]) \cup {w} /\ IsInjective(tasks'[k])
  BY <1>1, <1>2, AppendChannel DEF Disjoint, TypeInv, TypeOK, RoundTypeOK
<1>4. \A j \in Rounds \ {k} : tasks'[j] = tasks[j]
  BY DEF TypeInv, TypeOK, RoundTypeOK
<1>5. Disjoint'
  <2>1. IsInjective(input') /\ \A j \in Rounds : IsInjective(tasks'[j])
    BY <1>3, <1>4 DEF Disjoint
  <2>2. Range(input') \cap InHand' = {}
    OBVIOUS
  <2>3. \A j \in Rounds : Range(tasks'[j]) \cap (Range(input') \cup InHand') = {}
    BY <1>3, <1>4 DEF Disjoint
  <2>4. \A i, j \in Rounds : i # j => Range(tasks'[i]) \cap Range(tasks'[j]) = {}
    BY <1>3, <1>4 DEF Disjoint
  <2> QED
    BY <2>1, <2>2, <2>3, <2>4 DEF Disjoint
<1>6. Waiting'
  <2>1. \A r \in Range(input') \cup InHand' : r \in pushed' /\ ndone'[r] = 0
    BY DEF Waiting
  <2>2. \A j \in Rounds : \A r \in Range(tasks'[j]) : r \in pushed' /\ ndone'[r] = 0
    BY <1>3, <1>4 DEF Waiting
  <2> QED
    BY <2>1, <2>2 DEF Waiting
<1> QED
  BY <1>5, <1>6

\* ReaderRecv, ReaderFail, ReaderDrain: the head of tasks of round k is
\* completed.
LEMMA OwnTaskDone ==
  ASSUME TypeInv, Disjoint, Waiting, NEW k \in Rounds, tasks[k] # <<>>,
         tasks' = [tasks EXCEPT ![k] = Tail(@)],
         ndone' = [ndone EXCEPT ![Head(tasks[k])] = @ + 1],
         input' = input, pushed' = pushed, InHand' = InHand
  PROVE  Disjoint' /\ Waiting'
<1>1. tasks[k] \in Seq(AllReqs)
  BY DEF TypeInv, TypeOK, RoundTypeOK
<1> DEFINE x == Head(tasks[k])
<1>2. /\ x \in Range(tasks[k])
      /\ IsInjective(tasks'[k]) /\ Range(tasks'[k]) = Range(tasks[k]) \ {x}
  BY <1>1, TailChannel DEF Disjoint, TypeInv, TypeOK, RoundTypeOK
<1>3. \A j \in Rounds \ {k} : tasks'[j] = tasks[j]
  BY DEF TypeInv, TypeOK, RoundTypeOK
<1>4. Disjoint'
  <2>1. IsInjective(input') /\ \A j \in Rounds : IsInjective(tasks'[j])
    BY <1>2, <1>3 DEF Disjoint
  <2>2. Range(input') \cap InHand' = {}
    BY DEF Disjoint
  <2>3. \A j \in Rounds : Range(tasks'[j]) \cap (Range(input') \cup InHand') = {}
    BY <1>2, <1>3 DEF Disjoint
  <2>4. \A i, j \in Rounds : i # j => Range(tasks'[i]) \cap Range(tasks'[j]) = {}
    BY <1>2, <1>3 DEF Disjoint
  <2> QED
    BY <2>1, <2>2, <2>3, <2>4 DEF Disjoint
<1>5. x \notin Range(input') \cup InHand' \cup UNION {Range(tasks'[j]) : j \in Rounds}
  <2>1. x \notin Range(input') \cup InHand'
    BY <1>2 DEF Disjoint
  <2>2. x \notin Range(tasks'[k])
    BY <1>2
  <2>3. ASSUME NEW j \in Rounds \ {k} PROVE x \notin Range(tasks'[j])
    <3>1. tasks'[j] = tasks[j]
      BY <1>3
    <3>2. Range(tasks[k]) \cap Range(tasks[j]) = {}
      BY DEF Disjoint
    <3> QED
      BY <1>2, <3>1, <3>2
  <2> QED
    BY <2>1, <2>2, <2>3
<1>6. Range(input') \cup InHand' \cup UNION {Range(tasks'[j]) : j \in Rounds}
        \subseteq Range(input) \cup InHand \cup UNION {Range(tasks[j]) : j \in Rounds}
  BY <1>2, <1>3
<1> QED
  BY <1>2, <1>4, <1>5, <1>6, OwnComplete

LEMMA InitOwn == Init => OwnInv
<1> SUFFICES ASSUME Init PROVE OwnInv
  OBVIOUS
<1>1. TypeInv
  BY InitTypeInv
<1>2. InHand = {}
  BY DEF Init, InHand
<1>3. Disjoint
  BY <1>2, EmptyChannel DEF Init, Disjoint
<1>4. Waiting
  BY <1>2, EmptyChannel DEF Init, Waiting
<1> QED
  BY <1>1, <1>3, <1>4 DEF OwnInv

LEMMA NextOwn == OwnInv /\ [Next]_vars => OwnInv'
<1> SUFFICES ASSUME TypeInv, Disjoint, Waiting, [Next]_vars PROVE OwnInv'
  BY DEF OwnInv
<1>1. TypeInv'
  BY NextTypeInv
<1>2. Disjoint' /\ Waiting'
  <2>1. ASSUME NEW r \in Reqs, PushBack(r) PROVE Disjoint' /\ Waiting'
    <3>1. /\ r \in AllReqs \ pushed
          /\ input' = Append(input, r) /\ pushed' = pushed \cup {r}
          /\ tasks' = tasks /\ ndone' = ndone /\ InHand' = InHand
      BY <2>1 DEF PushBack, AllReqs, InHand, roundVars, reqVars
    <3> HIDE DEF Disjoint, Waiting, TypeInv, InHand
    <3> QED
      BY <3>1, OwnNew
  <2>2. ASSUME NEW r \in Probes, KeepAlive(r) PROVE Disjoint' /\ Waiting'
    <3>1. /\ r \in AllReqs \ pushed
          /\ input' = Append(input, r) /\ pushed' = pushed \cup {r}
          /\ tasks' = tasks /\ ndone' = ndone /\ InHand' = InHand
      BY <2>2 DEF KeepAlive, AllReqs, InHand, roundVars, reqVars
    <3> HIDE DEF Disjoint, Waiting, TypeInv, InHand
    <3> QED
      BY <3>1, OwnNew
  <2>3. ASSUME \/ CloseInput \/ SetClosed \/ KeepAliveSendCallback \/ RunExit
               \/ DialOK \/ WriterRangeEnd \/ BackoffTimeout \/ BackoffInputClosed
               \/ HealthFlip \/ CallbackRecv \/ CallbackRun \/ UNCHANGED vars
        PROVE  Disjoint' /\ Waiting'
    <3>1. input' = input /\ tasks' = tasks /\ ndone' = ndone /\ pushed' = pushed
          /\ InHand' = InHand
      BY <2>3 DEF CloseInput, SetClosed, KeepAliveSendCallback, RunExit, DialOK,
                  WriterRangeEnd, BackoffTimeout, BackoffInputClosed, HealthFlip,
                  CallbackRecv, CallbackRun, vars, writerVars, roundVars, envVars,
                  reqVars, InHand
    <3> QED
      BY <3>1, OwnFrame
  <2>4. ASSUME NEW k \in Rounds,
               ReaderEnd(k) \/ ReaderDrainEnd(k) \/ ServerReply(k) \/ SocketBreak(k)
        PROVE  Disjoint' /\ Waiting'
    <3>1. input' = input /\ tasks' = tasks /\ ndone' = ndone /\ pushed' = pushed
          /\ InHand' = InHand
      BY <2>4 DEF ReaderEnd, ReaderDrainEnd, ServerReply, SocketBreak,
                  writerVars, envVars, reqVars, InHand
    <3> QED
      BY <3>1, OwnFrame
  <2>5. ASSUME DialFail \/ WriterDefers PROVE Disjoint' /\ Waiting'
    <3>1. /\ input' = <<>>
          /\ ndone' = [r \in AllReqs |-> IF r \in Range(input) THEN ndone[r] + 1 ELSE ndone[r]]
          /\ tasks' = tasks /\ pushed' = pushed
      BY <2>5 DEF DialFail, WriterDefers, DrainInput, ResetAll, roundVars, envVars
    <3>2. wpc \in {"start", "exitOk", "exitErr"} /\ wpc' \in {"start", "backoff"}
      BY <2>5 DEF DialFail, WriterDefers, AfterFailure
    <3>3. InHand = {} /\ InHand' = {}
      BY <3>2 DEF InHand
    <3>4. Disjoint' /\ Waiting'
      <4> HIDE DEF Disjoint, Waiting, TypeInv, InHand
      <4> QED
        BY <3>1, <3>3, OwnDrain
    <3> QED
      BY <3>4
  <2>6. ASSUME WriterRecv PROVE Disjoint' /\ Waiting'
    <3>1. /\ input # <<>> /\ input' = Tail(input) /\ InHand = {}
          /\ tasks' = tasks /\ pushed' = pushed
      BY <2>6 DEF WriterRecv, InHand, roundVars, envVars
    <3>2. CASE Head(input) \in Broken
      <4>1. ndone' = [ndone EXCEPT ![Head(input)] = @ + 1] /\ InHand' = InHand
        BY <2>6, <3>2 DEF WriterRecv, SkipBroken, SetResponse, InHand
      <4> HIDE DEF Disjoint, Waiting, TypeInv, InHand
      <4> QED
        BY <3>1, <4>1, OwnInputDone
    <3>3. CASE Head(input) \notin Broken
      <4>1. ndone' = ndone /\ InHand' = {Head(input)}
        BY <2>6, <3>3 DEF WriterRecv, InHand, reqVars
      <4> HIDE DEF Disjoint, Waiting, TypeInv, InHand
      <4> QED
        BY <3>1, <4>1, OwnInputToHand
    <3> QED
      BY <3>2, <3>3
  <2>7. ASSUME WriterFlush PROVE Disjoint' /\ Waiting'
    <3>1. input' = input /\ tasks' = tasks /\ pushed' = pushed /\ wreq' = wreq
          /\ wpc = "flush" /\ wpc' \in {"push", "exitErr"}
      BY <2>7 DEF WriterFlush, FlushFailed, envVars
    <3>2. CASE wpc' = "push"
      <4>1. ndone' = ndone /\ InHand' = InHand
        BY <2>7, <3>1, <3>2 DEF WriterFlush, FlushFailed, reqVars, InHand
      <4> QED
        BY <3>1, <4>1, OwnFrame
    <3>3. CASE wpc' = "exitErr"
      <4>1. ndone' = [ndone EXCEPT ![wreq] = @ + 1] /\ InHand = {wreq} /\ InHand' = {}
        BY <2>7, <3>1, <3>3 DEF WriterFlush, FlushFailed, SetResponse, InHand
      <4> HIDE DEF Disjoint, Waiting, TypeInv, InHand
      <4> QED
        BY <3>1, <4>1, OwnHandDone
    <3> QED
      BY <3>1, <3>2, <3>3
  <2>8. ASSUME WriterPush PROVE Disjoint' /\ Waiting'
    <3>1. /\ wreq \in AllReqs /\ round \in Rounds
          /\ InHand = {wreq} /\ InHand' = {}
          /\ tasks' = [tasks EXCEPT ![round] = Append(@, wreq)]
          /\ input' = input /\ ndone' = ndone /\ pushed' = pushed
      BY <2>8 DEF WriterPush, TypeInv, HandTypeOK, InHand, envVars, reqVars
    <3> HIDE DEF Disjoint, Waiting, TypeInv, InHand
    <3> QED
      BY <3>1, OwnHandToTasks
  <2>9. ASSUME BackoffReset PROVE Disjoint' /\ Waiting'
    <3>1. /\ input # <<>> /\ input' = Tail(input)
          /\ ndone' = [ndone EXCEPT ![Head(input)] = @ + 1]
          /\ tasks' = tasks /\ pushed' = pushed /\ InHand' = InHand
      BY <2>9 DEF BackoffReset, SetResponse, envVars, InHand, roundVars
    <3> HIDE DEF Disjoint, Waiting, TypeInv, InHand
    <3> QED
      BY <3>1, OwnInputDone
  <2>10. ASSUME NEW k \in Rounds, ReaderRecv(k) \/ ReaderFail(k) \/ ReaderDrain(k)
         PROVE  Disjoint' /\ Waiting'
    <3>1. /\ tasks[k] # <<>> /\ tasks' = [tasks EXCEPT ![k] = Tail(@)]
          /\ ndone' = [ndone EXCEPT ![Head(tasks[k])] = @ + 1]
          /\ input' = input /\ pushed' = pushed /\ InHand' = InHand
      BY <2>10 DEF ReaderRecv, ReaderFail, ReaderDrain, SetResponse, writerVars,
                   envVars, InHand
    <3> HIDE DEF Disjoint, Waiting, TypeInv, InHand
    <3> QED
      BY <3>1, OwnTaskDone
  <2> QED
    BY <2>1, <2>2, <2>3, <2>4, <2>5, <2>6, <2>7, <2>8, <2>9, <2>10 DEF Next
<1> QED
  BY <1>1, <1>2 DEF OwnInv

\* Every request the router or the keepalive timer hands to the connection
\* is answered at most once: setResponse, and with it the Batch.Done that
\* releases the caller, runs once per request whichever of the writer, the
\* deferred drain of bc.input, the reader or its deferred drain of tasks
\* completes it.
THEOREM CompletedOnce == Spec => []CompletedAtMostOnce
<1>1. OwnInv => CompletedAtMostOnce
  BY DEF OwnInv, Waiting, CompletedAtMostOnce
<1> QED
  BY InitOwn, NextOwn, <1>1, PTL DEF Spec

-----------------------------------------------------------------------------
(* Lemmas on the streams of a round: what popping the oldest reply and   *)
(* task, and the backend's answering, do to the concatenations.          *)

LEMMA ConcatHeadTail ==
  ASSUME NEW S, NEW a \in Seq(S), NEW x \in Seq(S), a # <<>>
  PROVE  /\ a \o x # <<>>
         /\ Head(a \o x) = Head(a)
         /\ Tail(a \o x) = Tail(a) \o x
<1>1. /\ Len(a) \in Nat \ {0} /\ Head(a) = a[1]
      /\ Tail(a) \in Seq(S) /\ Len(Tail(a)) = Len(a) - 1
      /\ \A i \in 1 .. Len(Tail(a)) : Tail(a)[i] = a[i + 1]
  BY HeadTailProperties, EmptySeq
<1>2. /\ a \o x \in Seq(S) /\ Len(a \o x) = Len(a) + Len(x)
      /\ \A i \in 1 .. Len(a) + Len(x) : (a \o x)[i] = IF i <= Len(a) THEN a[i] ELSE x[i - Len(a)]
  BY ConcatProperties
<1>3. /\ Tail(a) \o x \in Seq(S) /\ Len(Tail(a) \o x) = Len(Tail(a)) + Len(x)
      /\ \A i \in 1 .. Len(Tail(a)) + Len(x) :
           (Tail(a) \o x)[i] = IF i <= Len(Tail(a)) THEN Tail(a)[i] ELSE x[i - Len(Tail(a))]
  BY <1>1, ConcatProperties
<1>4. a \o x # <<>> /\ Head(a \o x) = Head(a)
  BY <1>1, <1>2, EmptySeq
<1>5. /\ Tail(a \o x) \in Seq(S) /\ Len(Tail(a \o x)) = Len(a \o x) - 1
      /\ \A i \in 1 .. Len(Tail(a \o x)) : Tail(a \o x)[i] = (a \o x)[i + 1]
  BY <1>2, <1>4, HeadTailProperties
<1>6. \A i \in 1 .. Len(Tail(a \o x)) : Tail(a \o x)[i] = (Tail(a) \o x)[i]
  BY <1>1, <1>2, <1>3, <1>5
<1> QED
  BY <1>1, <1>3, <1>4, <1>5, <1>6, SeqEqual

\* Popping the heads of a stream and of the tasks it is a prefix of.
LEMMA PrefixTail ==
  ASSUME NEW S, NEW u \in Seq(S), NEW t \in Seq(S), u # <<>>, PrefixOf(u, t)
  PROVE  /\ t # <<>>
         /\ Head(u) = Head(t)
         /\ PrefixOf(Tail(u), Tail(t))
<1>1. Len(u) \in Nat \ {0} /\ Len(t) \in Nat /\ Len(u) <= Len(t)
  BY EmptySeq, LenProperties DEF PrefixOf
<1>2. t # <<>>
  BY <1>1
<1>3. /\ Len(Tail(u)) = Len(u) - 1 /\ \A i \in 1 .. Len(Tail(u)) : Tail(u)[i] = u[i + 1]
      /\ Len(Tail(t)) = Len(t) - 1 /\ \A i \in 1 .. Len(Tail(t)) : Tail(t)[i] = t[i + 1]
  BY <1>2, HeadTailProperties
<1> QED
  BY <1>1, <1>2, <1>3 DEF PrefixOf

\* What is followed by more is a prefix.
LEMMA PrefixOfConcat ==
  ASSUME NEW S, NEW u \in Seq(S), NEW w \in Seq(S), NEW t \in Seq(S), u \o w = t
  PROVE  PrefixOf(u, t)
<1>1. Len(u \o w) = Len(u) + Len(w) /\ Len(w) \in Nat /\ Len(u) \in Nat
      /\ \A i \in 1 .. Len(u) + Len(w) : (u \o w)[i] = IF i <= Len(u) THEN u[i] ELSE w[i - Len(u)]
  BY ConcatProperties, LenProperties
<1> QED
  BY <1>1 DEF PrefixOf

\* ServerReply: the oldest request sent moves to the end of the replies.
LEMMA MoveHead ==
  ASSUME NEW S, NEW a \in Seq(S), NEW s \in Seq(S), s # <<>>
  PROVE  Append(a, Head(s)) \o Tail(s) = a \o s
<1>1. Head(s) \in S /\ Tail(s) \in Seq(S)
  BY HeadTailProperties
<1>2. Append(a, Head(s)) = a \o <<Head(s)>> /\ <<Head(s)>> \in Seq(S)
  BY <1>1, AppendIsConcat
<1>3. s = <<Head(s)>> \o Tail(s)
  <2>1. <<Head(s)>> \o Tail(s) \in Seq(S) /\ Len(<<Head(s)>> \o Tail(s)) = Len(s)
    BY <1>1, <1>2, ConcatProperties, HeadTailProperties
  <2>2. \A i \in 1 .. Len(s) : (<<Head(s)>> \o Tail(s))[i] = s[i]
    BY <1>1, <1>2, ConcatProperties, HeadTailProperties, LenProperties
  <2> QED
    BY <2>1, <2>2, SeqEqual
<1> QED
  BY <1>1, <1>2, <1>3, ConcatAssociative

LEMMA ReqsOfType ==
  ASSUME NEW rs \in Seq(Reply)
  PROVE  ReqsOf(rs) \in Seq(AllReqs) /\ Len(ReqsOf(rs)) = Len(rs)
<1>1. \A i \in 1 .. Len(rs) : rs[i].req \in AllReqs
  <2> SUFFICES ASSUME NEW i \in 1 .. Len(rs) PROVE rs[i].req \in AllReqs
    OBVIOUS
  <2>1. rs[i] \in Reply
    BY ElementOfSeq
  <2> QED
    BY <2>1 DEF Reply
<1>2. ReqsOf(rs) \in Seq(AllReqs)
  BY <1>1, LenProperties, IsASeq DEF ReqsOf
<1> QED
  BY <1>2, LenProperties DEF ReqsOf

LEMMA ReqsOfAppend ==
  ASSUME NEW rs \in Seq(Reply), NEW e \in Reply
  PROVE  ReqsOf(Append(rs, e)) = Append(ReqsOf(rs), e.req)
<1>1. ReqsOf(rs) \in Seq(AllReqs) /\ Len(ReqsOf(rs)) = Len(rs) /\ e.req \in AllReqs
  BY ReqsOfType DEF Reply
<1>2. Append(rs, e) \in Seq(Reply) /\ Len(Append(rs, e)) = Len(rs) + 1
      /\ \A i \in 1 .. Len(rs) : Append(rs, e)[i] = rs[i]
      /\ Append(rs, e)[Len(rs) + 1] = e
  BY AppendProperties
<1>3. ReqsOf(Append(rs, e)) \in Seq(AllReqs) /\ Len(ReqsOf(Append(rs, e))) = Len(rs) + 1
  BY <1>2, ReqsOfType
<1>4. Append(ReqsOf(rs), e.req) \in Seq(AllReqs) /\ Len(Append(ReqsOf(rs), e.req)) = Len(rs) + 1
      /\ \A i \in 1 .. Len(rs) : Append(ReqsOf(rs), e.req)[i] = ReqsOf(rs)[i]
      /\ Append(ReqsOf(rs), e.req)[Len(rs) + 1] = e.req
  BY <1>1, AppendProperties
<1>5. \A i \in 1 .. Len(rs) + 1 : ReqsOf(Append(rs, e))[i] = Append(ReqsOf(rs), e.req)[i]
  BY <1>2, <1>4, LenProperties DEF ReqsOf
<1> QED
  BY <1>3, <1>4, <1>5, SeqEqual

LEMMA ReqsOfTail ==
  ASSUME NEW rs \in Seq(Reply), rs # <<>>
  PROVE  /\ ReqsOf(rs) # <<>>
         /\ Head(ReqsOf(rs)) = Head(rs).req
         /\ ReqsOf(Tail(rs)) = Tail(ReqsOf(rs))
<1>1. ReqsOf(rs) \in Seq(AllReqs) /\ Len(ReqsOf(rs)) = Len(rs) /\ Len(rs) \in Nat \ {0}
  BY ReqsOfType, EmptySeq
<1>2. ReqsOf(rs) # <<>> /\ Head(ReqsOf(rs)) = Head(rs).req
  BY <1>1, EmptySeq DEF ReqsOf
<1>3. /\ Tail(rs) \in Seq(Reply) /\ Len(Tail(rs)) = Len(rs) - 1
      /\ \A i \in 1 .. Len(Tail(rs)) : Tail(rs)[i] = rs[i + 1]
  BY HeadTailProperties
<1>4. /\ Tail(ReqsOf(rs)) \in Seq(AllReqs) /\ Len(Tail(ReqsOf(rs))) = Len(rs) - 1
      /\ \A i \in 1 .. Len(rs) - 1 : Tail(ReqsOf(rs))[i] = ReqsOf(rs)[i + 1]
  BY <1>1, <1>2, HeadTailProperties
<1>5. ReqsOf(Tail(rs)) \in Seq(AllReqs) /\ Len(ReqsOf(Tail(rs))) = Len(rs) - 1
  BY <1>3, ReqsOfType
<1>6. \A i \in 1 .. Len(rs) - 1 : ReqsOf(Tail(rs))[i] = Tail(ReqsOf(rs))[i]
  BY <1>1, <1>3, <1>4 DEF ReqsOf
<1> QED
  BY <1>2, <1>4, <1>5, <1>6, SeqEqual

-----------------------------------------------------------------------------
(* What each step does to the order of one round, stated on the values   *)
(* of its replies rs, its sent requests s, the encoder buffer w and its  *)
(* tasks t.                                                               *)

\* The requests of the replies and of the socket, as one stream.
LEMMA StreamParts ==
  ASSUME NEW rs \in Seq(Reply), NEW s \in Seq(AllReqs), rs # <<>>
  PROVE  /\ ReqsOf(rs) \o s \in Seq(AllReqs) /\ ReqsOf(rs) \o s # <<>>
         /\ Head(ReqsOf(rs) \o s) = Head(rs).req
         /\ Tail(ReqsOf(rs) \o s) = ReqsOf(Tail(rs)) \o s
<1>1. /\ ReqsOf(rs) \in Seq(AllReqs) /\ ReqsOf(rs) # <<>>
      /\ Head(ReqsOf(rs)) = Head(rs).req /\ ReqsOf(Tail(rs)) = Tail(ReqsOf(rs))
  BY ReqsOfType, ReqsOfTail
<1> QED
  BY <1>1, ConcatHeadTail, ConcatProperties

\* ReaderRecv once the writer has left the round.
LEMMA PopPrefix ==
  ASSUME NEW rs \in Seq(Reply), NEW s \in Seq(AllReqs), NEW t \in Seq(AllReqs),
         rs # <<>>, PrefixOf(ReqsOf(rs) \o s, t)
  PROVE  /\ t # <<>>
         /\ Head(rs).req = Head(t)
         /\ PrefixOf(ReqsOf(Tail(rs)) \o s, Tail(t))
<1> DEFINE u == ReqsOf(rs) \o s
<1>1. /\ u \in Seq(AllReqs) /\ u # <<>> /\ Head(u) = Head(rs).req
      /\ Tail(u) = ReqsOf(Tail(rs)) \o s
  BY StreamParts
<1> QED
  BY <1>1, PrefixTail

\* The head a reply answers, as a fact for every round.
LEMMA PopHead ==
  \A rs \in Seq(Reply), sq, w, t, q \in Seq(AllReqs) :
    rs # <<>> /\ t # <<>> =>
      /\ (ReqsOf(rs) \o sq) \o w = t \o q => Head(rs).req = Head(t)
      /\ PrefixOf(ReqsOf(rs) \o sq, t) => Head(rs).req = Head(t)
<1> SUFFICES ASSUME NEW rs \in Seq(Reply), NEW sq \in Seq(AllReqs),
                    NEW w \in Seq(AllReqs), NEW t \in Seq(AllReqs),
                    NEW q \in Seq(AllReqs), rs # <<>>, t # <<>>
             PROVE  /\ (ReqsOf(rs) \o sq) \o w = t \o q => Head(rs).req = Head(t)
                    /\ PrefixOf(ReqsOf(rs) \o sq, t) => Head(rs).req = Head(t)
  OBVIOUS
<1>1. (ReqsOf(rs) \o sq) \o w = t \o q => Head(rs).req = Head(t)
  <2> HAVE (ReqsOf(rs) \o sq) \o w = t \o q
  <2> DEFINE u == ReqsOf(rs) \o sq
  <2>1. u \in Seq(AllReqs) /\ u # <<>> /\ Head(u) = Head(rs).req
    BY StreamParts
  <2>2. Head(u \o w) = Head(u)
    BY <2>1, ConcatHeadTail
  <2>3. Head(t \o q) = Head(t)
    BY ConcatHeadTail
  <2> QED
    BY <2>1, <2>2, <2>3
<1>2. PrefixOf(ReqsOf(rs) \o sq, t) => Head(rs).req = Head(t)
  <2> HAVE PrefixOf(ReqsOf(rs) \o sq, t)
  <2> QED
    BY PopPrefix
<1> QED
  BY <1>1, <1>2

\* ServerReply: the answer to the oldest request sent joins the replies.
LEMMA ServeRound ==
  ASSUME NEW rs \in Seq(Reply), NEW s \in Seq(AllReqs), s # <<>>, NEW v \in ReplyVals
  PROVE  ReqsOf(Append(rs, [req |-> Head(s), val |-> v])) \o Tail(s) = ReqsOf(rs) \o s
<1>1. Head(s) \in AllReqs
  BY HeadTailProperties
<1>2. [req |-> Head(s), val |-> v] \in Reply
  BY <1>1 DEF Reply
<1>3. ReqsOf(Append(rs, [req |-> Head(s), val |-> v])) = Append(ReqsOf(rs), Head(s))
  BY <1>2, ReqsOfAppend
<1> QED
  BY <1>3, ReqsOfType, MoveHead

\* WriterFlush without a write: the request joins the encoder buffer.
LEMMA BufferRound ==
  ASSUME NEW u \in Seq(AllReqs), NEW w \in Seq(AllReqs), NEW t \in Seq(AllReqs),
         NEW x \in AllReqs, u \o w = t \o <<>>
  PROVE  u \o Append(w, x) = t \o <<x>>
<1>1. Append(w, x) = w \o <<x>> /\ <<x>> \in Seq(AllReqs) /\ t \o <<>> = t
  BY AppendIsConcat, ConcatEmptySeq
<1>2. (u \o w) \o <<x>> = u \o (w \o <<x>>)
  BY <1>1, ConcatAssociative
<1> QED
  BY <1>1, <1>2

LEMMA SeqAssoc ==
  \A a, b, c \in Seq(AllReqs) : (a \o b) \o c = a \o (b \o c)
BY ConcatAssociative

\* WriterPush: the request the writer holds joins the tasks.
LEMMA PushRound ==
  ASSUME NEW u \in Seq(AllReqs), NEW t \in Seq(AllReqs), NEW x \in AllReqs,
         u = t \o <<x>>
  PROVE  u = Append(t, x) \o <<>>
BY AppendIsConcat, AppendProperties, ConcatEmptySeq

\* WriterRangeEnd, FlushFailed: the writer leaves the round.
LEMMA LeaveRound ==
  ASSUME NEW u \in Seq(AllReqs), NEW w \in Seq(AllReqs), NEW t \in Seq(AllReqs),
         u \o w = t \o <<>>
  PROVE  PrefixOf(u, t)
BY ConcatEmptySeq, PrefixOfConcat

\* DialOK: the round starts empty.
LEMMA StartRound == (ReqsOf(<<>>) \o <<>>) \o <<>> = <<>> \o <<>>
<1>1. ReqsOf(<<>>) = <<>>
  BY DEF ReqsOf
<1> QED
  BY <1>1, EmptySeq, ConcatEmptySeq

-----------------------------------------------------------------------------
(* The order of the rounds is inductive.                                  *)

LEMMA InitMatch == Init => MatchInv
<1> SUFFICES ASSUME Init PROVE MatchInv
  OBVIOUS
<1>1. TypeInv
  BY InitTypeInv
<1>2. Ordered
  BY DEF Init, Ordered, OrderedAt
<1>3. Fresh
  BY DEF Init, Fresh
<1>4. ReplyMatchesRequest
  BY DEF Init, ReplyMatchesRequest
<1> QED
  BY <1>1, <1>2, <1>3, <1>4 DEF MatchInv

\* The writer only touches its own round, DialOK only the next one, and
\* readers and sockets only rounds already started.
LEMMA NextFresh ==
  ASSUME TypeInv, Fresh, [Next]_vars
  PROVE  Fresh'
<1> USE DEF TypeInv, TypeOK, RoundTypeOK, WriterTypeOK, HandTypeOK
<1>1. ASSUME NEW k \in Rounds, k > round'
      PROVE  /\ tasks'[k] = <<>> /\ sent'[k] = <<>> /\ replies'[k] = <<>>
             /\ rpc'[k] = "idle" /\ sock'[k] = "none"
  <2>1. CASE DialOK
    <3>1. round' = round + 1 /\ k # round + 1 /\ k > round
      BY <1>1, <2>1 DEF DialOK, Rounds
    <3>2. tasks'[k] = tasks[k] /\ sent'[k] = sent[k] /\ replies'[k] = replies[k]
          /\ rpc'[k] = rpc[k] /\ sock'[k] = sock[k]
      BY <2>1, <3>1 DEF DialOK
    <3> QED
      BY <3>1, <3>2 DEF Fresh
  <2>2. CASE WriterFlush \/ WriterPush
    <3>1. round' = round /\ round \in Rounds
      BY <2>2 DEF WriterFlush, WriterPush
    <3> QED
      BY <1>1, <2>2, <3>1 DEF WriterFlush, WriterPush, FlushFailed, SetResponse, Fresh
  <2>3. CASE \E j \in Rounds : \/ ReaderRecv(j) \/ ReaderFail(j) \/ ReaderEnd(j)
                               \/ ReaderDrain(j) \/ ReaderDrainEnd(j)
                               \/ ServerReply(j) \/ SocketBreak(j)
    <3>1. PICK j \in Rounds : \/ ReaderRecv(j) \/ ReaderFail(j) \/ ReaderEnd(j)
                              \/ ReaderDrain(j) \/ ReaderDrainEnd(j)
                              \/ ServerReply(j) \/ SocketBreak(j)
      BY <2>3
    <3>2. round' = round
      BY <3>1 DEF ReaderRecv, ReaderFail, ReaderEnd, ReaderDrain, ReaderDrainEnd,
                  ServerReply, SocketBreak, writerVars
    <3>3. rpc[j] # "idle" \/ sock[j] # "none"
      BY <3>1 DEF ReaderRecv, ReaderFail, ReaderEnd, ReaderDrain, ReaderDrainEnd,
                  ServerReply, SocketBreak
    <3>4. j <= round
      BY <3>3 DEF Fresh, Rounds
    <3>0. /\ tasks \in [Rounds -> Seq(AllReqs)] /\ sent \in [Rounds -> Seq(AllReqs)]
          /\ replies \in [Rounds -> Seq(Reply)] /\ rpc \in [Rounds -> ReaderPcs]
          /\ sock \in [Rounds -> {"none", "open", "broken", "closed"}]
      BY DEF TypeInv, TypeOK, RoundTypeOK
    <3> HIDE DEF TypeInv, TypeOK, RoundTypeOK, WriterTypeOK, HandTypeOK
    <3>5. j # k
      BY <1>1, <3>2, <3>4 DEF TypeInv, TypeOK, WriterTypeOK, Rounds
    <3>6. tasks'[k] = tasks[k] /\ sent'[k] = sent[k] /\ replies'[k] = replies[k]
          /\ rpc'[k] = rpc[k] /\ sock'[k] = sock[k]
      <4>1. CASE ReaderRecv(j)
        BY <3>0, <3>5, <4>1 DEF ReaderRecv
      <4>2. CASE ReaderFail(j)
        BY <3>0, <3>5, <4>2 DEF ReaderFail
      <4>3. CASE ReaderEnd(j)
        BY <3>0, <3>5, <4>3 DEF ReaderEnd
      <4>4. CASE ReaderDrain(j)
        BY <3>0, <3>5, <4>4 DEF ReaderDrain
      <4>5. CASE ReaderDrainEnd(j)
        BY <3>0, <3>5, <4>5 DEF ReaderDrainEnd
      <4>6. CASE ServerReply(j)
        BY <3>0, <3>5, <4>6 DEF ServerReply
      <4>7. CASE SocketBreak(j)
        BY <3>0, <3>5, <4>7 DEF SocketBreak
      <4> QED
        BY <3>1, <4>1, <4>2, <4>3, <4>4, <4>5, <4>6, <4>7
    <3> QED
      BY <1>1, <3>2, <3>6 DEF Fresh
  <2>4. CASE \/ \E r \in Reqs : PushBack(r)
             \/ \E p \in Probes : KeepAlive(p)
             \/ CloseInput \/ SetClosed \/ KeepAliveSendCallback
             \/ RunExit \/ DialFail \/ WriterRecv \/ WriterRangeEnd \/ WriterDefers
             \/ BackoffTimeout \/ BackoffReset \/ BackoffInputClosed
             \/ HealthFlip \/ CallbackRecv \/ CallbackRun \/ UNCHANGED vars
    <3>1. round' = round /\ tasks' = tasks /\ sent' = sent /\ replies' = replies
          /\ rpc' = rpc /\ sock' = sock
      BY <2>4 DEF PushBack, KeepAlive, CloseInput, SetClosed, KeepAliveSendCallback,
                  RunExit, DialFail, WriterRecv, WriterRangeEnd, WriterDefers,
                  BackoffTimeout, BackoffReset, BackoffInputClosed, HealthFlip,
                  CallbackRecv, CallbackRun, vars, writerVars, roundVars
    <3> QED
      BY <1>1, <3>1 DEF Fresh
  <2> QED
    BY <2>1, <2>2, <2>3, <2>4 DEF Next
<1>2. wpc' \in {"start", "backoff", "done"} => wbuf' = <<>>
  <2>1. CASE WriterDefers
    BY <2>1 DEF WriterDefers
  <2>2. CASE \/ \E r \in Reqs : PushBack(r)
             \/ \E p \in Probes : KeepAlive(p)
             \/ CloseInput \/ SetClosed \/ KeepAliveSendCallback
             \/ HealthFlip \/ CallbackRecv \/ CallbackRun \/ UNCHANGED vars
             \/ \E j \in Rounds : \/ ReaderRecv(j) \/ ReaderFail(j) \/ ReaderEnd(j)
                                 \/ ReaderDrain(j) \/ ReaderDrainEnd(j)
                                 \/ ServerReply(j) \/ SocketBreak(j)
    <3>1. wpc' = wpc /\ wbuf' = wbuf
      BY <2>2 DEF PushBack, KeepAlive, CloseInput, SetClosed, KeepAliveSendCallback,
                  HealthFlip, CallbackRecv, CallbackRun, vars, writerVars,
                  ReaderRecv, ReaderFail, ReaderEnd, ReaderDrain, ReaderDrainEnd,
                  ServerReply, SocketBreak
    <3> QED
      BY <3>1 DEF Fresh
  <2>3. CASE RunExit \/ DialFail \/ BackoffTimeout \/ BackoffReset \/ BackoffInputClosed
    <3>1. wpc \in {"start", "backoff"} /\ wbuf' = wbuf
      BY <2>3 DEF RunExit, DialFail, BackoffTimeout, BackoffReset, BackoffInputClosed
    <3> QED
      BY <3>1 DEF Fresh
  <2>4. CASE DialOK \/ WriterRecv \/ WriterRangeEnd \/ WriterFlush \/ WriterPush
    <3>1. wpc' \notin {"start", "backoff", "done"}
      BY <2>4 DEF DialOK, WriterRecv, SkipBroken, WriterRangeEnd, WriterFlush,
                  FlushFailed, WriterPush
    <3> QED
      BY <3>1
  <2> QED
    BY <2>1, <2>2, <2>3, <2>4 DEF Next
<1> QED
  BY <1>1, <1>2 DEF Fresh

\* setResponse with an error keeps every request's reply its own.
LEMMA ErrorKeepsMatch ==
  ASSUME TypeInv, ReplyMatchesRequest,
         src' = src \/ \E x : src' = [src EXCEPT ![x] = NoReq]
  PROVE  ReplyMatchesRequest'
<1>1. src \in [AllReqs -> AllReqs \cup {NoReq}]
  BY DEF TypeInv, TypeOK, ReqTypeOK
<1>2. CASE src' = src
  BY <1>2 DEF ReplyMatchesRequest
<1>3. CASE \E x : src' = [src EXCEPT ![x] = NoReq]
  <2>1. PICK x : src' = [src EXCEPT ![x] = NoReq]
    BY <1>3
  <2> QED
    BY <1>1, <2>1 DEF ReplyMatchesRequest
<1> QED
  BY <1>2, <1>3

LEMMA ResetKeepsMatch ==
  ASSUME ReplyMatchesRequest, NEW S,
         src' = [r \in AllReqs |-> IF r \in S THEN NoReq ELSE src[r]]
  PROVE  ReplyMatchesRequest'
BY DEF ReplyMatchesRequest

\* Only ReaderRecv stores a backend reply; every other setResponse stores
\* an error.
LEMMA NextReplyMatch ==
  ASSUME TypeInv, Ordered, ReplyMatchesRequest, [Next]_vars
  PROVE  ReplyMatchesRequest'
<1>1. CASE \E k \in Rounds : ReaderRecv(k)
  <2>1. PICK k \in Rounds : ReaderRecv(k)
    BY <1>1
  <2>2. /\ replies[k] \in Seq(Reply) /\ sent[k] \in Seq(AllReqs)
        /\ tasks[k] \in Seq(AllReqs) /\ wbuf \in Seq(AllReqs)
        /\ Pending \in Seq(AllReqs)
    BY DEF TypeInv, TypeOK, RoundTypeOK, WriterTypeOK, HandTypeOK, Pending
  <2>3. rpc[k] = "loop" /\ replies[k] # <<>> /\ tasks[k] # <<>>
    BY <2>1 DEF ReaderRecv
  <2>4. Head(replies[k]).req = Head(tasks[k])
    <3>1. OrderedAt(k)
      BY DEF Ordered
    <3>2. \/ Stream(k) \o wbuf = tasks[k] \o Pending
          \/ PrefixOf(Stream(k), tasks[k])
      BY <2>3, <3>1 DEF OrderedAt
    <3> HIDE DEF TypeInv, TypeOK, RoundTypeOK, WriterTypeOK, HandTypeOK
    <3>3. CASE (ReqsOf(replies[k]) \o sent[k]) \o wbuf = tasks[k] \o Pending
      <4> DEFINE u == ReqsOf(replies[k]) \o sent[k]
      <4>1. u \in Seq(AllReqs) /\ u # <<>> /\ Head(u) = Head(replies[k]).req
        BY <2>2, <2>3, StreamParts
      <4>2. Head(u \o wbuf) = Head(u)
        BY <2>2, <4>1, ConcatHeadTail
      <4>3. Head(tasks[k] \o Pending) = Head(tasks[k])
        BY <2>2, <2>3, ConcatHeadTail
      <4> QED
        BY <3>3, <4>1, <4>2, <4>3
    <3>4. CASE PrefixOf(ReqsOf(replies[k]) \o sent[k], tasks[k])
      BY <2>2, <2>3, <3>4, PopHead
    <3> QED
      BY <3>2, <3>3, <3>4 DEF Stream
  <2>5. src' = [src EXCEPT ![Head(tasks[k])] = Head(replies[k]).req]
    BY <2>1 DEF ReaderRecv, SetResponse
  <2> QED
    BY <2>4, <2>5 DEF ReplyMatchesRequest
<1>2. CASE \/ WriterRecv \/ WriterFlush \/ BackoffReset
           \/ \E k \in Rounds : ReaderFail(k) \/ ReaderDrain(k)
  <2>1. src' = src \/ \E x : src' = [src EXCEPT ![x] = NoReq]
    BY <1>2 DEF WriterRecv, SkipBroken, WriterFlush, FlushFailed, BackoffReset,
                ReaderFail, ReaderDrain, SetResponse, reqVars
  <2> QED
    BY <2>1, ErrorKeepsMatch
<1>3. CASE DialFail \/ WriterDefers
  <2>1. src' = [r \in AllReqs |-> IF r \in Range(input) THEN NoReq ELSE src[r]]
    BY <1>3 DEF DialFail, WriterDefers, DrainInput, ResetAll
  <2> QED
    BY <2>1, ResetKeepsMatch
<1>4. CASE \/ \E r \in Reqs : PushBack(r)
           \/ \E p \in Probes : KeepAlive(p)
           \/ CloseInput \/ SetClosed \/ KeepAliveSendCallback
           \/ RunExit \/ DialOK \/ WriterRangeEnd \/ WriterPush
           \/ BackoffTimeout \/ BackoffInputClosed
           \/ HealthFlip \/ CallbackRecv \/ CallbackRun \/ UNCHANGED vars
           \/ \E k \in Rounds : \/ ReaderEnd(k) \/ ReaderDrainEnd(k)
                               \/ ServerReply(k) \/ SocketBreak(k)
  <2>1. src' = src
    BY <1>4 DEF PushBack, KeepAlive, CloseInput, SetClosed, KeepAliveSendCallback,
                RunExit, DialOK, WriterRangeEnd, WriterPush, BackoffTimeout,
                BackoffInputClosed, HealthFlip, CallbackRecv, CallbackRun, vars,
                reqVars, ReaderEnd, ReaderDrainEnd, ServerReply, SocketBreak
  <2> QED
    BY <2>1 DEF ReplyMatchesRequest
<1> QED
  BY <1>1, <1>2, <1>3, <1>4 DEF Next

\* Once the reader of round k has stopped reading, nothing is claimed.
LEMMA OrderedIdle ==
  ASSUME NEW k, rpc'[k] # "loop"
  PROVE  OrderedAt(k)'
BY DEF OrderedAt

LEMMA NextOrdered ==
  ASSUME TypeInv, Ordered, Fresh, [Next]_vars, NEW k \in Rounds
  PROVE  OrderedAt(k)'
<1>0. /\ replies[k] \in Seq(Reply) /\ sent[k] \in Seq(AllReqs)
      /\ tasks[k] \in Seq(AllReqs) /\ wbuf \in Seq(AllReqs)
      /\ round \in 0 .. MaxRounds /\ wpc \in WriterPcs
      /\ wpc \in {"flush", "push"} => wreq \in AllReqs /\ round \in Rounds
      /\ tasks \in [Rounds -> Seq(AllReqs)] /\ sent \in [Rounds -> Seq(AllReqs)]
      /\ replies \in [Rounds -> Seq(Reply)] /\ rpc \in [Rounds -> ReaderPcs]
  BY DEF TypeInv, TypeOK, RoundTypeOK, WriterTypeOK, HandTypeOK
<1>1. OrderedAt(k)
  BY DEF Ordered
<1> HIDE DEF TypeInv
<1>2. CASE \/ \E r \in Reqs : PushBack(r)
           \/ \E p \in Probes : KeepAlive(p)
           \/ CloseInput \/ SetClosed \/ KeepAliveSendCallback
           \/ HealthFlip \/ CallbackRecv \/ CallbackRun \/ UNCHANGED vars
           \/ \E j \in Rounds : SocketBreak(j)
  <2>1. /\ rpc' = rpc /\ replies' = replies /\ sent' = sent /\ tasks' = tasks
        /\ wbuf' = wbuf /\ wpc' = wpc /\ wreq' = wreq /\ round' = round
    BY <1>2 DEF PushBack, KeepAlive, CloseInput, SetClosed, KeepAliveSendCallback,
                HealthFlip, CallbackRecv, CallbackRun, SocketBreak, vars, writerVars,
                roundVars
  <2> QED
    BY <1>1, <2>1 DEF OrderedAt, Stream, InRound, Pending
<1>3. CASE RunExit \/ DialFail \/ WriterDefers \/ BackoffTimeout \/ BackoffReset
           \/ BackoffInputClosed
  <2>1. /\ rpc' = rpc /\ replies' = replies /\ sent' = sent /\ tasks' = tasks
        /\ wpc \notin {"loop", "flush", "push"} /\ wpc' \notin {"loop", "flush", "push"}
    BY <1>3 DEF RunExit, DialFail, WriterDefers, BackoffTimeout, BackoffReset,
                BackoffInputClosed, AfterFailure, roundVars
  <2> QED
    BY <1>1, <2>1 DEF OrderedAt, Stream, InRound
<1>4. CASE WriterRecv
  <2>1. /\ rpc' = rpc /\ replies' = replies /\ sent' = sent /\ tasks' = tasks
        /\ wbuf' = wbuf /\ round' = round
        /\ wpc = "loop" /\ wpc' \in {"loop", "flush"}
    BY <1>4 DEF WriterRecv, SkipBroken, roundVars
  <2> QED
    BY <1>1, <2>1 DEF OrderedAt, Stream, InRound, Pending
<1>5. CASE DialOK
  <2>1. /\ replies' = replies /\ sent' = sent /\ tasks' = tasks
        /\ round' = round + 1 /\ wpc = "start" /\ wpc' = "loop" /\ wbuf' = wbuf
        /\ rpc' = [rpc EXCEPT ![round + 1] = "loop"]
    BY <1>5 DEF DialOK
  <2>2. CASE k = round + 1
    <3>1. /\ replies[k] = <<>> /\ sent[k] = <<>> /\ tasks[k] = <<>> /\ wbuf = <<>>
      BY <1>0, <2>1, <2>2 DEF Fresh, Rounds
    <3>2. InRound(k)' /\ Pending' = <<>>
      BY <2>1, <2>2 DEF InRound, Pending
    <3>3. Stream(k)' \o wbuf' = tasks'[k] \o Pending'
      BY <2>1, <3>1, <3>2, StartRound DEF Stream
    <3> QED
      BY <3>2, <3>3 DEF OrderedAt
  <2>3. CASE k # round + 1
    <3>1. rpc'[k] = rpc[k] /\ ~InRound(k) /\ ~InRound(k)'
      BY <1>0, <2>1, <2>3 DEF InRound
    <3>2. Stream(k)' = Stream(k)
      BY <2>1 DEF Stream
    <3> QED
      BY <1>1, <2>1, <3>1, <3>2 DEF OrderedAt
  <2> QED
    BY <2>2, <2>3
<1>6. CASE WriterRangeEnd
  <2>1. /\ rpc' = rpc /\ replies' = replies /\ sent' = sent /\ tasks' = tasks
        /\ wbuf' = wbuf /\ round' = round /\ wpc = "loop" /\ wpc' = "exitOk"
    BY <1>6 DEF WriterRangeEnd, roundVars
  <2>2. ~InRound(k)'
    BY <2>1 DEF InRound
  <2>3. CASE k = round /\ rpc[k] = "loop"
    <3>1. Stream(k) \o wbuf = tasks[k] \o <<>>
      BY <1>1, <2>1, <2>3 DEF OrderedAt, InRound, Pending
    <3>2. Stream(k) \in Seq(AllReqs)
      BY <1>0, ReqsOfType, ConcatProperties DEF Stream
    <3>3. PrefixOf(Stream(k), tasks[k])
      BY <1>0, <3>1, <3>2, LeaveRound
    <3> QED
      BY <2>1, <2>2, <3>3 DEF OrderedAt, Stream
  <2>4. CASE k # round
    BY <1>1, <2>1, <2>4 DEF OrderedAt, Stream, InRound
  <2>5. CASE rpc[k] # "loop"
    BY <2>1, <2>5, OrderedIdle
  <2> QED
    BY <2>3, <2>4, <2>5

<1>7. CASE WriterFlush
  <2>1. /\ rpc' = rpc /\ replies' = replies /\ tasks' = tasks /\ round' = round
        /\ wreq' = wreq /\ wpc = "flush" /\ wreq \in AllReqs /\ round \in Rounds
        /\ \A j \in Rounds \ {round} : sent'[j] = sent[j]
    BY <1>0, <1>7 DEF WriterFlush, FlushFailed
  <2>2. Pending = <<>> /\ InRound(round)
    BY <2>1 DEF Pending, InRound
  <2>3. CASE k # round
    <3>1. ~InRound(k) /\ ~InRound(k)' /\ sent'[k] = sent[k]
      BY <2>1, <2>3 DEF InRound
    <3>2. Stream(k)' = Stream(k)
      BY <2>1, <3>1 DEF Stream
    <3> QED
      BY <1>1, <2>1, <3>1, <3>2 DEF OrderedAt
  <2>4. CASE rpc[k] # "loop"
    BY <2>1, <2>4, OrderedIdle
  <2>5. CASE k = round /\ rpc[k] = "loop"
    <3>1. Stream(k) \o wbuf = tasks[k] \o <<>>
      BY <1>1, <2>2, <2>5 DEF OrderedAt
    <3>2. ReqsOf(replies[k]) \in Seq(AllReqs) /\ Stream(k) \in Seq(AllReqs)
      BY <1>0, ReqsOfType, ConcatProperties DEF Stream
    <3>3. PICK due \in BOOLEAN :
            \/ /\ ~FlushWrites(due)
               /\ wbuf' = Append(wbuf, wreq) /\ wpc' = "push" /\ sent' = sent
            \/ /\ sent' = [sent EXCEPT ![round] = @ \o wbuf \o <<wreq>>]
               /\ wbuf' = <<>> /\ wpc' = "push"
            \/ /\ wpc' = "exitErr" /\ sent' = sent /\ wbuf' = wbuf
      BY <1>7 DEF WriterFlush, FlushFailed
    <3>4. CASE wbuf' = Append(wbuf, wreq) /\ wpc' = "push" /\ sent' = sent
      <4>1. InRound(k)' /\ Pending' = <<wreq>> /\ Stream(k)' = Stream(k)
        BY <2>1, <2>5, <3>4 DEF InRound, Pending, Stream
      <4>2. Stream(k) \o Append(wbuf, wreq) = tasks[k] \o <<wreq>>
        BY <1>0, <2>1, <3>1, <3>2, BufferRound
      <4> QED
        BY <2>1, <3>4, <4>1, <4>2 DEF OrderedAt
    <3>5. CASE sent' = [sent EXCEPT ![round] = @ \o wbuf \o <<wreq>>]
               /\ wbuf' = <<>> /\ wpc' = "push"
      <4>1. InRound(k)' /\ Pending' = <<wreq>>
        BY <2>1, <2>5, <3>5 DEF InRound, Pending
      <4>2. Stream(k)' = ReqsOf(replies[k]) \o ((sent[k] \o wbuf) \o <<wreq>>)
        BY <1>0, <2>1, <2>5, <3>5 DEF Stream
      <4>3. (ReqsOf(replies[k]) \o sent[k]) \o wbuf = tasks[k] \o <<>>
        BY <3>1 DEF Stream
      <4>4. (ReqsOf(replies[k]) \o ((sent[k] \o wbuf) \o <<wreq>>)) \o <<>>
              = tasks[k] \o <<wreq>>
        <5> DEFINE A == ReqsOf(replies[k])
        <5>1. /\ A \in Seq(AllReqs) /\ sent[k] \in Seq(AllReqs)
              /\ wbuf \in Seq(AllReqs) /\ tasks[k] \in Seq(AllReqs)
              /\ <<wreq>> \in Seq(AllReqs) /\ sent[k] \o wbuf \in Seq(AllReqs)
          BY <1>0, <2>1, <3>2, ConcatProperties
        <5>2. (A \o sent[k]) \o wbuf = A \o (sent[k] \o wbuf)
          BY <5>1, SeqAssoc
        <5>3. A \o ((sent[k] \o wbuf) \o <<wreq>>) = (A \o (sent[k] \o wbuf)) \o <<wreq>>
          BY <5>1, SeqAssoc
        <5>4. A \o (sent[k] \o wbuf) = tasks[k]
          BY <5>1, <5>2, <4>3, ConcatEmptySeq
        <5>5. A \o ((sent[k] \o wbuf) \o <<wreq>>) \in Seq(AllReqs)
          BY <5>1, ConcatProperties
        <5> QED
          BY <5>3, <5>4, <5>5, ConcatEmptySeq
      <4> QED
        BY <2>1, <3>5, <4>1, <4>2, <4>4 DEF OrderedAt
    <3>6. CASE wpc' = "exitErr" /\ sent' = sent /\ wbuf' = wbuf
      <4>1. ~InRound(k)' /\ Stream(k)' = Stream(k)
        BY <2>1, <3>6 DEF InRound, Stream
      <4>2. PrefixOf(Stream(k), tasks[k])
        BY <1>0, <3>1, <3>2, LeaveRound
      <4> QED
        BY <2>1, <4>1, <4>2 DEF OrderedAt
    <3> QED
      BY <3>3, <3>4, <3>5, <3>6
  <2> QED
    BY <2>3, <2>4, <2>5
<1>8. CASE WriterPush
  <2>1. /\ rpc' = rpc /\ replies' = replies /\ sent' = sent /\ wbuf' = wbuf
        /\ round' = round /\ wpc = "push" /\ wpc' = "loop"
        /\ wreq \in AllReqs /\ round \in Rounds
        /\ tasks' = [tasks EXCEPT ![round] = Append(@, wreq)]
    BY <1>0, <1>8 DEF WriterPush
  <2>2. CASE k # round
    <3>1. ~InRound(k) /\ ~InRound(k)' /\ tasks'[k] = tasks[k]
      BY <1>0, <2>1, <2>2 DEF InRound
    <3>2. Stream(k)' = Stream(k)
      BY <2>1 DEF Stream
    <3> QED
      BY <1>1, <2>1, <3>1, <3>2 DEF OrderedAt
  <2>3. CASE rpc[k] # "loop"
    BY <2>1, <2>3, OrderedIdle
  <2>4. CASE k = round /\ rpc[k] = "loop"
    <3>1. Stream(k) \o wbuf = tasks[k] \o <<wreq>>
      BY <1>1, <2>1, <2>4 DEF OrderedAt, InRound, Pending
    <3>2. Stream(k) \o wbuf \in Seq(AllReqs)
      BY <1>0, ReqsOfType, ConcatProperties DEF Stream
    <3>3. Stream(k) \o wbuf = Append(tasks[k], wreq) \o <<>>
      BY <1>0, <2>1, <3>1, <3>2, PushRound
    <3>4. InRound(k)' /\ Pending' = <<>> /\ Stream(k)' = Stream(k)
          /\ tasks'[k] = Append(tasks[k], wreq)
      BY <1>0, <2>1, <2>4 DEF InRound, Pending, Stream
    <3> QED
      BY <2>1, <3>3, <3>4 DEF OrderedAt
  <2> QED
    BY <2>2, <2>3, <2>4
<1>9. CASE \E j \in Rounds : ReaderRecv(j)
  <2>1. PICK j \in Rounds : ReaderRecv(j)
    BY <1>9
  <2>2. UNCHANGED <<rpc, sent, wbuf, wpc, wreq, round>>
    BY <2>1 DEF ReaderRecv
  <2>3. CASE j # k
    <3>1. tasks'[k] = tasks[k] /\ replies'[k] = replies[k]
      BY <1>0, <2>1, <2>3 DEF ReaderRecv
    <3> QED
      BY <1>1, <2>2, <3>1 DEF OrderedAt, Stream, InRound, Pending
  <2>4. CASE j = k
    <3>1. /\ rpc[k] = "loop" /\ replies[k] # <<>> /\ tasks[k] # <<>>
          /\ replies'[k] = Tail(replies[k]) /\ tasks'[k] = Tail(tasks[k])
      BY <1>0, <2>1, <2>4 DEF ReaderRecv
    <3> DEFINE u == ReqsOf(replies[k]) \o sent[k]
    <3>2. /\ u \in Seq(AllReqs) /\ u # <<>>
          /\ Tail(u) = ReqsOf(Tail(replies[k])) \o sent[k]
      BY <1>0, <3>1, StreamParts
    <3>3. Stream(k)' = Tail(u) /\ rpc'[k] = "loop" /\ InRound(k)' = InRound(k)
          /\ Pending' = Pending
      BY <2>2, <3>1, <3>2 DEF Stream, InRound, Pending
    <3>4. CASE InRound(k)
      <4>1. Pending \in Seq(AllReqs)
        BY <1>0, <3>4 DEF InRound, Pending
      <4>2. u \o wbuf = tasks[k] \o Pending
        BY <1>1, <3>1, <3>4 DEF OrderedAt, Stream
      <4>3. Tail(u \o wbuf) = Tail(u) \o wbuf
        BY <1>0, <3>2, ConcatHeadTail
      <4>4. Tail(tasks[k] \o Pending) = Tail(tasks[k]) \o Pending
        BY <1>0, <3>1, <4>1, ConcatHeadTail
      <4> QED
        BY <2>2, <3>1, <3>3, <3>4, <4>2, <4>3, <4>4 DEF OrderedAt
    <3>5. CASE ~InRound(k)
      <4>1. PrefixOf(u, tasks[k])
        BY <1>1, <3>1, <3>5 DEF OrderedAt, Stream
      <4>2. PrefixOf(ReqsOf(Tail(replies[k])) \o sent[k], Tail(tasks[k]))
        BY <1>0, <3>1, <4>1, PopPrefix
      <4> QED
        BY <3>1, <3>2, <3>3, <3>5, <4>2 DEF OrderedAt
    <3> QED
      BY <3>4, <3>5
  <2> QED
    BY <2>3, <2>4
<1>10. CASE \E j \in Rounds : ReaderFail(j) \/ ReaderEnd(j) \/ ReaderDrain(j) \/ ReaderDrainEnd(j)
  <2>1. PICK j \in Rounds : ReaderFail(j) \/ ReaderEnd(j) \/ ReaderDrain(j) \/ ReaderDrainEnd(j)
    BY <1>10
  <2>2. UNCHANGED <<replies, sent, wbuf, wpc, wreq, round>>
    BY <2>1 DEF ReaderFail, ReaderEnd, ReaderDrain, ReaderDrainEnd, writerVars
  <2>3. CASE j # k
    <3>1. tasks'[k] = tasks[k] /\ rpc'[k] = rpc[k]
      <4>1. CASE ReaderFail(j)
        BY <1>0, <2>3, <4>1 DEF ReaderFail
      <4>2. CASE ReaderEnd(j)
        BY <1>0, <2>3, <4>2 DEF ReaderEnd
      <4>3. CASE ReaderDrain(j)
        BY <1>0, <2>3, <4>3 DEF ReaderDrain
      <4>4. CASE ReaderDrainEnd(j)
        BY <1>0, <2>3, <4>4 DEF ReaderDrainEnd
      <4> QED
        BY <2>1, <4>1, <4>2, <4>3, <4>4
    <3> QED
      BY <1>1, <2>2, <3>1 DEF OrderedAt, Stream, InRound, Pending
  <2>4. CASE j = k
    <3>1. rpc'[k] # "loop"
      BY <1>0, <2>1, <2>4 DEF ReaderFail, ReaderEnd, ReaderDrain, ReaderDrainEnd,
                              TypeInv, TypeOK, RoundTypeOK
    <3> QED
      BY <3>1, OrderedIdle
  <2> QED
    BY <2>3, <2>4
<1>11. CASE \E j \in Rounds : ServerReply(j)
  <2>1. PICK j \in Rounds : ServerReply(j)
    BY <1>11
  <2>2. UNCHANGED <<rpc, tasks, wbuf, wpc, wreq, round>>
    BY <2>1 DEF ServerReply, writerVars
  <2>3. Stream(k)' = Stream(k)
    <3>1. CASE j # k
      BY <1>0, <2>1, <3>1 DEF ServerReply, Stream
    <3>2. CASE j = k
      <4>1. /\ sent[k] # <<>> /\ sent'[k] = Tail(sent[k])
            /\ replies'[k] = Append(replies[k], [req |-> Head(sent[k]),
                                                 val |-> Answer(Head(sent[k]))])
        BY <1>0, <2>1, <3>2 DEF ServerReply
      <4>2. Answer(Head(sent[k])) \in ReplyVals
        BY DEF Answer, ReplyVals
      <4>3. ReqsOf(replies'[k]) \o sent'[k] = ReqsOf(replies[k]) \o sent[k]
        BY <1>0, <4>1, <4>2, ServeRound
      <4> QED
        BY <4>3 DEF Stream
    <3> QED
      BY <3>1, <3>2
  <2> QED
    BY <1>1, <2>2, <2>3 DEF OrderedAt, InRound, Pending
<1> QED
  BY <1>2, <1>3, <1>4, <1>5, <1>6, <1>7, <1>8, <1>9, <1>10, <1>11 DEF Next


LEMMA NextMatch == MatchInv /\ [Next]_vars => MatchInv'
<1> SUFFICES ASSUME MatchInv, [Next]_vars PROVE MatchInv'
  OBVIOUS
<1>1. TypeInv /\ Ordered /\ Fresh /\ ReplyMatchesRequest
  BY DEF MatchInv
<1>2. TypeInv'
  BY <1>1, NextTypeInv
<1>3. Fresh'
  BY <1>1, NextFresh
<1>4. ReplyMatchesRequest'
  BY <1>1, NextReplyMatch
<1>5. Ordered'
  <2> SUFFICES ASSUME NEW k \in Rounds PROVE OrderedAt(k)'
    BY DEF Ordered
  <2> QED
    BY <1>1, NextOrdered
<1> QED
  BY <1>2, <1>3, <1>4, <1>5 DEF MatchInv

\* A request that got a reply from the backend got its own reply, for
\* every number of rounds, pipeline depth and fault pattern: loopWriter
\* appends to tasks in the order it flushes requests to the socket, the
\* backend answers them in that order, and loopReader pairs each reply
\* with the oldest task, so no caller ever sees another request's reply.
THEOREM RepliesMatch == Spec => []ReplyMatchesRequest
<1>1. MatchInv => ReplyMatchesRequest
  BY DEF MatchInv
<1> QED
  BY InitMatch, NextMatch, <1>1, PTL DEF Spec

=============================================================================
