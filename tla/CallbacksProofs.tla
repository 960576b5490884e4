-------------------------- MODULE CallbacksProofs ---------------------------
(***************************************************************************)
(* Proofs about Callbacks, for any number of handlers and workers and any  *)
(* capacity of the channel.                                                *)
(***************************************************************************)
EXTENDS Callbacks, SequenceTheorems, TLAPS

\* What Callbacks assumes of its constants, under a name to cite.
LEMMA CallbacksAssumption ==
    /\ Capacity \in Nat \ {0}
    /\ MayStop \in BOOLEAN
    /\ DrainTimesOut \in BOOLEAN
    /\ {Nobody, "left"} \cap Handlers = {} /\ Nobody # "left"
    /\ Workers # {}
    /\ IsFiniteSet(Workers)
    /\ IsFiniteSet(Handlers)
  BY ChannelConstants DEF ChannelConstants

LEMMA CallbacksTypesKept ==
    ASSUME CallbacksTypeOK, [CallbacksNext]_callbackVars
    PROVE  CallbacksTypeOK'
  <1> USE CallbacksAssumption DEF CallbackStates
  <1>1. ASSUME NEW h \in Handlers, Start(h) \/ Quit(h) PROVE CallbacksTypeOK'
    BY <1>1 DEF Start, Quit, Becomes, CallbacksTypeOK
  <1>2. ASSUME NEW h \in Handlers, Offer(h), Enqueue(h) PROVE CallbacksTypeOK'
    <2>1. queue' \in Seq(Handlers) /\ Len(queue') = Len(queue) + 1
      BY <1>2 DEF Enqueue, CallbacksTypeOK
    <2>2. Len(queue') <= Capacity
      BY <1>2, <2>1 DEF Enqueue, CallbacksTypeOK
    <2> QED BY <1>2, <2>1, <2>2 DEF Offer, Enqueue, Becomes, CallbacksTypeOK
  <1>3. ASSUME NEW h \in Handlers, Offer(h), Drop(h) \/ Panic(h) PROVE CallbacksTypeOK'
    BY <1>3 DEF Offer, Drop, Panic, Becomes, CallbacksTypeOK
  <1>4. ASSUME NEW w \in Workers, Take(w) PROVE CallbacksTypeOK'
    <2>1. /\ Head(queue) \in Handlers
          /\ queue' \in Seq(Handlers)
          /\ Len(queue') <= Len(queue)
      BY <1>4, HeadTailProperties DEF Take, CallbacksTypeOK
    <2> QED BY <1>4, <2>1 DEF Take, Becomes, CallbacksTypeOK
  <1>5. ASSUME NEW w \in Workers, Post(w) \/ Leave(w) PROVE CallbacksTypeOK'
    BY <1>5 DEF Post, Leave, Becomes, CallbacksTypeOK
  <1>6. ASSUME Shutdown \/ Close \/ Exit PROVE CallbacksTypeOK'
    BY <1>6 DEF Shutdown, Close, Exit, CallbacksTypeOK
  <1>7. ASSUME UNCHANGED callbackVars PROVE CallbacksTypeOK'
    BY <1>7 DEF callbackVars, CallbacksTypeOK
  <1> QED
    BY <1>1, <1>2, <1>3, <1>4, <1>5, <1>6, <1>7
       DEF CallbacksNext, WorkerStep, StopStep, Offer

\* Type correctness; above all, the channel never holds more than its capacity.
THEOREM CallbacksTypeCorrect == CallbacksSpec => []CallbacksTypeOK
  <1>1. CallbacksInit => CallbacksTypeOK
    BY CallbacksAssumption DEF CallbacksInit, CallbacksTypeOK, CallbackStates
  <1>2. CallbacksTypeOK /\ [CallbacksNext]_callbackVars => CallbacksTypeOK'
    BY CallbacksTypesKept
  <1> QED BY <1>1, <1>2, PTL DEF CallbacksSpec

-----------------------------------------------------------------------------
InQueue(h, q) == \E i \in 1 .. Len(q) : q[i] = h

\* Nothing that was accepted is out of everybody's hands, and a worker leaves
\* only when nothing more can come.
NothingLost ==
    /\ \A h \in Handlers : callback[h] = "queued" => InQueue(h, queue)
    /\ \A h \in Handlers : callback[h] = "taken" => \E w \in Workers : worker[w] = h
    /\ \A w \in Workers : worker[w] = "left" => ~open /\ queue = <<>>
    /\ phase = "exited" => \A w \in Workers : worker[w] = "left"

\* What is appended is in, and what was in stays in.
LEMMA AppendKeeps ==
    ASSUME NEW q \in Seq(Handlers), NEW h \in Handlers, NEW g \in Handlers,
           g = h \/ InQueue(g, q)
    PROVE  InQueue(g, Append(q, h))
  <1>1. /\ Len(Append(q, h)) = Len(q) + 1
        /\ Append(q, h)[Len(q) + 1] = h
        /\ \A i \in 1 .. Len(q) : Append(q, h)[i] = q[i]
    BY AppendProperties
  <1>2. Len(q) \in Nat
    OBVIOUS
  <1>3. CASE g = h
    BY <1>1, <1>2, <1>3 DEF InQueue
  <1>4. CASE InQueue(g, q)
    BY <1>1, <1>2, <1>4 DEF InQueue
  <1> QED BY <1>3, <1>4

\* Taking the head leaves the others.
LEMMA TailKeeps ==
    ASSUME NEW q \in Seq(Handlers), q # <<>>, NEW g \in Handlers, InQueue(g, q), g # Head(q)
    PROVE  InQueue(g, Tail(q))
  <1>1. PICK i \in 1 .. Len(q) : q[i] = g
    BY DEF InQueue
  <1>2. i # 1
    BY <1>1
  <1>3. /\ Len(q) \in Nat
        /\ Len(Tail(q)) = Len(q) - 1
        /\ \A j \in 1 .. Len(Tail(q)) : Tail(q)[j] = q[j + 1]
    BY HeadTailProperties
  <1>4. i - 1 \in 1 .. Len(Tail(q)) /\ Tail(q)[i - 1] = g
    BY <1>1, <1>2, <1>3
  <1> QED BY <1>4 DEF InQueue

LEMMA NothingLostInductive ==
    ASSUME CallbacksTypeOK, NothingLost,
           [CallbacksNext]_callbackVars,
           open <=> phase \in {"serving", "draining"}
    PROVE  NothingLost'
  <1> USE CallbacksAssumption DEF NothingLost, CallbacksTypeOK, Becomes
  <1>1. ASSUME NEW h \in Handlers, Start(h) \/ Quit(h) PROVE NothingLost'
    BY <1>1 DEF Start, Quit, InQueue
  <1>2. ASSUME NEW h \in Handlers, Offer(h), Enqueue(h) PROVE NothingLost'
    <2>1. \A g \in Handlers : callback'[g] = "queued" => InQueue(g, queue')
      BY <1>2, AppendKeeps DEF Offer, Enqueue
    <2>2. \A w \in Workers : worker'[w] # "left"
      BY <1>2 DEF Offer, Enqueue
    <2> QED BY <1>2, <2>1, <2>2 DEF Offer, Enqueue
  <1>3. ASSUME NEW h \in Handlers, Offer(h), Drop(h) \/ Panic(h) PROVE NothingLost'
    BY <1>3 DEF Offer, Drop, Panic, InQueue
  <1>4. ASSUME NEW w \in Workers, Take(w) PROVE NothingLost'
    <2>1. Head(queue) \in Handlers
      BY <1>4, HeadTailProperties DEF Take
    <2>2. \A g \in Handlers : callback'[g] = "queued" => InQueue(g, queue')
      BY <1>4, <2>1, TailKeeps DEF Take
    <2>3. \A v \in Workers : worker[v] # "left"
      BY <1>4 DEF Take
    <2>4. \A g \in Handlers : callback'[g] = "taken" => \E v \in Workers : worker'[v] = g
      BY <1>4, <2>1 DEF Take
    <2>5. \A v \in Workers : worker'[v] # "left"
      BY <1>4, <2>1, <2>3 DEF Take
    <2> QED BY <1>4, <2>2, <2>4, <2>5 DEF Take
  <1>5. ASSUME NEW w \in Workers, Post(w) PROVE NothingLost'
    BY <1>5 DEF Post, InQueue
  <1>6. ASSUME NEW w \in Workers, Leave(w) PROVE NothingLost'
    BY <1>6 DEF Leave, InQueue
  <1>7. ASSUME Shutdown \/ Close PROVE NothingLost'
    BY <1>7 DEF Shutdown, Close, InQueue
  <1>8. ASSUME Exit PROVE NothingLost'
    BY <1>8 DEF Exit, InQueue
  <1>9. ASSUME UNCHANGED callbackVars PROVE NothingLost'
    BY <1>9 DEF callbackVars, InQueue
  <1> QED
    BY <1>1, <1>2, <1>3, <1>4, <1>5, <1>6, <1>7, <1>8, <1>9
       DEF CallbacksNext, WorkerStep, StopStep, Offer

\* However the process is stopped, and whether or not Shutdown waited for the
\* handlers, every callback that got into the channel was attempted before the exit.
THEOREM NothingAcceptedIsLost == CallbacksSpec => []AcceptedIsAttempted
  <1> DEFINE OpenWhileServing == open <=> phase \in {"serving", "draining"}
  <1>1. CallbacksInit => OpenWhileServing /\ NothingLost
    BY CallbacksAssumption DEF CallbacksInit, NothingLost
  <1>2. OpenWhileServing /\ [CallbacksNext]_callbackVars => OpenWhileServing'
    BY DEF CallbacksNext, callbackVars, Start, Quit, Offer, WorkerStep, Take, Post, Leave,
           Shutdown, StopStep, Close, Exit
  <1>3. CallbacksTypeOK /\ OpenWhileServing /\ NothingLost /\ [CallbacksNext]_callbackVars
            => NothingLost'
    BY NothingLostInductive
  <1>4. CallbacksTypeOK /\ OpenWhileServing /\ NothingLost => AcceptedIsAttempted
    BY CallbacksAssumption DEF NothingLost, AcceptedIsAttempted, InQueue, CallbacksTypeOK
  <1> QED BY <1>1, <1>2, <1>3, <1>4, CallbacksTypeCorrect, PTL DEF CallbacksSpec

-----------------------------------------------------------------------------
WithoutRepeats(q) == \A i, j \in 1 .. Len(q) : q[i] = q[j] => i = j

\* Who is in a sequence, and that nobody is in it twice, when one more is appended
LEMMA AppendHolds ==
    ASSUME NEW q \in Seq(Handlers), NEW h \in Handlers, WithoutRepeats(q), ~InQueue(h, q)
    PROVE  /\ WithoutRepeats(Append(q, h))
           /\ \A g \in Handlers : InQueue(g, Append(q, h)) <=> g = h \/ InQueue(g, q)
  <1>1. /\ Len(q) \in Nat
        /\ Len(Append(q, h)) = Len(q) + 1
        /\ Append(q, h)[Len(q) + 1] = h
        /\ \A i \in 1 .. Len(q) : Append(q, h)[i] = q[i]
    BY AppendProperties
  <1>2. \A i \in 1 .. Len(q) + 1 : i \in 1 .. Len(q) \/ i = Len(q) + 1
    BY <1>1
  <1>3. WithoutRepeats(Append(q, h))
    BY <1>1, <1>2 DEF WithoutRepeats, InQueue
  <1>4. \A g \in Handlers : InQueue(g, Append(q, h)) => g = h \/ InQueue(g, q)
    BY <1>1, <1>2 DEF InQueue
  <1> QED BY <1>3, <1>4, AppendKeeps

\* ... and when the head is taken.
LEMMA TailHolds ==
    ASSUME NEW q \in Seq(Handlers), q # <<>>, WithoutRepeats(q)
    PROVE  /\ WithoutRepeats(Tail(q))
           /\ InQueue(Head(q), q)
           /\ \A g \in Handlers : InQueue(g, Tail(q)) <=> InQueue(g, q) /\ g # Head(q)
  <1>1. /\ Len(q) \in Nat \ {0}
        /\ Head(q) = q[1]
        /\ Len(Tail(q)) = Len(q) - 1
        /\ \A j \in 1 .. Len(Tail(q)) : Tail(q)[j] = q[j + 1]
    BY HeadTailProperties
  <1>2. WithoutRepeats(Tail(q))
    BY <1>1 DEF WithoutRepeats
  <1>3. InQueue(Head(q), q)
    BY <1>1 DEF InQueue
  <1>4. ASSUME NEW g \in Handlers, InQueue(g, Tail(q)) PROVE InQueue(g, q) /\ g # Head(q)
    <2>1. PICK j \in 1 .. Len(Tail(q)) : Tail(q)[j] = g
      BY <1>4 DEF InQueue
    <2>2. j + 1 \in 1 .. Len(q) /\ q[j + 1] = g /\ j + 1 # 1 /\ 1 \in 1 .. Len(q)
      BY <1>1, <2>1
    <2> QED BY <1>1, <2>2 DEF InQueue, WithoutRepeats
  <1> QED BY <1>2, <1>3, <1>4, TailKeeps

\* A callback is where its state says it is, and in one place only.
HeldInOnePlace ==
    /\ WithoutRepeats(queue)
    /\ \A h \in Handlers : callback[h] = "queued" <=> InQueue(h, queue)
    /\ \A h \in Handlers : callback[h] = "taken" => \E w \in Workers : worker[w] = h
    /\ \A w \in Workers : worker[w] \in Handlers => callback[worker[w]] = "taken"
    /\ \A v, w \in Workers : worker[v] = worker[w] /\ worker[v] \in Handlers => v = w

LEMMA HeldInductive ==
    ASSUME CallbacksTypeOK, HeldInOnePlace, [CallbacksNext]_callbackVars
    PROVE  HeldInOnePlace'
  <1> USE CallbacksAssumption DEF HeldInOnePlace, CallbacksTypeOK, Becomes
  <1>1. ASSUME NEW h \in Handlers, Start(h) \/ Quit(h) PROVE HeldInOnePlace'
    BY <1>1 DEF Start, Quit, InQueue, WithoutRepeats
  <1>2. ASSUME NEW h \in Handlers, Offer(h), Enqueue(h) PROVE HeldInOnePlace'
    <2>1. ~InQueue(h, queue)
      BY <1>2 DEF Offer
    <2>2. /\ WithoutRepeats(queue')
          /\ \A g \in Handlers : InQueue(g, queue') <=> g = h \/ InQueue(g, queue)
      BY <1>2, <2>1, AppendHolds DEF Enqueue
    <2>3. \A w \in Workers : worker[w] # h
      BY <1>2 DEF Offer
    <2> QED BY <1>2, <2>2, <2>3 DEF Offer, Enqueue
  <1>3. ASSUME NEW h \in Handlers, Offer(h), Drop(h) \/ Panic(h) PROVE HeldInOnePlace'
    BY <1>3 DEF Offer, Drop, Panic, InQueue, WithoutRepeats
  <1>4. ASSUME NEW w \in Workers, Take(w) PROVE HeldInOnePlace'
    <2> DEFINE h == Head(queue)
    <2>1. h \in Handlers /\ queue # <<>>
      BY <1>4, HeadTailProperties DEF Take
    <2>2. /\ WithoutRepeats(queue')
          /\ callback[h] = "queued"
          /\ \A g \in Handlers : InQueue(g, queue') <=> InQueue(g, queue) /\ g # h
      BY <1>4, <2>1, TailHolds DEF Take
    <2>3. \A v \in Workers : worker[v] # h
      BY <2>1, <2>2
    <2>4. callback' = [callback EXCEPT ![h] = "taken"] /\ worker' = [worker EXCEPT ![w] = h]
      BY <1>4 DEF Take
    <2> HIDE DEF h
    <2>5. \A g \in Handlers : callback'[g] = "queued" <=> InQueue(g, queue')
      BY <2>1, <2>2, <2>4
    <2>6. \A g \in Handlers : callback'[g] = "taken" => \E v \in Workers : worker'[v] = g
      <3> SUFFICES ASSUME NEW g \in Handlers, callback'[g] = "taken"
                   PROVE  \E v \in Workers : worker'[v] = g
        OBVIOUS
      <3>1. CASE g = h
        BY <2>4, <3>1
      <3>2. CASE g # h
        <4>1. PICK v \in Workers : worker[v] = g
          BY <2>1, <2>4, <3>2
        <4>2. v # w
          BY <1>4, <4>1 DEF Take
        <4> QED BY <2>4, <4>1, <4>2
      <3> QED BY <3>1, <3>2
    <2>7. \A v \in Workers : worker'[v] \in Handlers => callback'[worker'[v]] = "taken"
      BY <2>1, <2>4
    <2>8. \A u, v \in Workers : worker'[u] = worker'[v] /\ worker'[u] \in Handlers => u = v
      BY <2>1, <2>3, <2>4
    <2> QED BY <2>2, <2>5, <2>6, <2>7, <2>8
  <1>5. ASSUME NEW w \in Workers, Post(w) PROVE HeldInOnePlace'
    <2>1. UNCHANGED queue /\ worker[w] \in Handlers /\ callback[worker[w]] = "taken"
      BY <1>5 DEF Post
    <2>2. \A g \in Handlers : callback'[g] = "queued" <=> InQueue(g, queue')
      BY <1>5, <2>1 DEF Post, InQueue
    <2>3. \A g \in Handlers : callback'[g] = "taken" => \E v \in Workers : worker'[v] = g
      BY <1>5, <2>1 DEF Post
    <2>4. \A v \in Workers : worker'[v] \in Handlers => callback'[worker'[v]] = "taken"
      BY <1>5, <2>1 DEF Post
    <2> QED BY <1>5, <2>1, <2>2, <2>3, <2>4 DEF Post, WithoutRepeats
  <1>6. ASSUME NEW w \in Workers, Leave(w) PROVE HeldInOnePlace'
    BY <1>6 DEF Leave, InQueue, WithoutRepeats
  <1>7. ASSUME Shutdown \/ Close PROVE HeldInOnePlace'
    BY <1>7 DEF Shutdown, Close, InQueue, WithoutRepeats
  <1>8. ASSUME Exit PROVE HeldInOnePlace'
    BY <1>8 DEF Exit, InQueue, WithoutRepeats
  <1>9. ASSUME UNCHANGED callbackVars PROVE HeldInOnePlace'
    BY <1>9 DEF callbackVars, InQueue, WithoutRepeats
  <1> QED
    BY <1>1, <1>2, <1>3, <1>4, <1>5, <1>6, <1>7, <1>8, <1>9
       DEF CallbacksNext, WorkerStep, StopStep, Offer

LEMMA HeldInit ==
    ASSUME CallbacksInit
    PROVE  HeldInOnePlace
  BY CallbacksAssumption DEF CallbacksInit, HeldInOnePlace, InQueue, WithoutRepeats

\* What made its handler panic is never taken up by a worker.
LEMMA PanickedStays ==
    ASSUME CallbacksTypeOK, HeldInOnePlace, [CallbacksNext]_callbackVars,
           NEW h \in Handlers, callback[h] = "panicked"
    PROVE  callback'[h] = "panicked"
  <1> USE DEF CallbacksTypeOK, Becomes
  <1>1. ASSUME NEW g \in Handlers, Start(g) \/ Quit(g) \/ Offer(g) PROVE callback'[h] = "panicked"
    BY <1>1 DEF Start, Quit, Offer, Enqueue, Drop, Panic
  <1>2. ASSUME NEW w \in Workers, Take(w) PROVE callback'[h] = "panicked"
    <2>1. Head(queue) \in Handlers /\ queue # <<>>
      BY <1>2, HeadTailProperties DEF Take
    <2>2. callback[Head(queue)] = "queued"
      BY <2>1, TailHolds DEF HeldInOnePlace
    <2> QED
      BY <1>2, <2>1, <2>2 DEF Take
  <1>3. ASSUME NEW w \in Workers, Post(w) PROVE callback'[h] = "panicked"
    BY <1>3 DEF Post, HeldInOnePlace
  <1>4. CASE (\E w \in Workers : Leave(w)) \/ Shutdown \/ Close \/ Exit \/ UNCHANGED callbackVars
    BY <1>4 DEF Leave, Shutdown, Close, Exit, callbackVars
  <1> QED
    BY <1>1, <1>2, <1>3, <1>4 DEF CallbacksNext, WorkerStep, StopStep
=============================================================================
