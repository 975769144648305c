-------------------------- MODULE ObfuscatorProofs --------------------------
(***************************************************************************)
(* Safety of Obfuscator for any number of calls, any bound on the output   *)
(* and any outcome of reading a pid.                                       *)
(***************************************************************************)
EXTENDS Obfuscator, TLAPS

USE DEF KnownProcess, CreateDeferrable, ClearProcess, ClearDeferrable, IsRunning, IsProcessRunning,
        SetEventHandler, StartProcess, StopProcess, HandleProcessErrorOutput

(***************************************************************************)
(* The module queue.                                                       *)
(***************************************************************************)

\* Taking the head of a queue of tasks shifts the others by one.
LEMMA TailOfQueue ==
    ASSUME NEW q \in Seq(Tasks), q # <<>>
    PROVE  /\ Tail(q) \in Seq(Tasks)
           /\ Len(q) \in Nat \ {0}
           /\ Len(Tail(q)) = Len(q) - 1
           /\ \A i \in 1..Len(Tail(q)) : i + 1 \in 1..Len(q) /\ Tail(q)[i] = q[i + 1]
           /\ 1 \in 1..Len(q) /\ Head(q) = q[1]
  OBVIOUS

\* Posting a task adds it at the end and leaves the others alone.
LEMMA AppendToQueue ==
    ASSUME NEW q \in Seq(Tasks), NEW t \in Tasks
    PROVE  /\ Append(q, t) \in Seq(Tasks)
           /\ Len(q) \in Nat
           /\ Len(Append(q, t)) = Len(q) + 1
           /\ \A i \in 1..Len(q) : Append(q, t)[i] = q[i]
           /\ Append(q, t)[Len(q) + 1] = t
  OBVIOUS

(***************************************************************************)
(* Type correctness.                                                       *)
(***************************************************************************)

LEMMA TaskType == \A k \in {"call", "resume", "output", "check"}, c \in Calls : Task(k, c) \in Tasks
  BY DEF Task, Tasks

\* Every action keeps every variable in its type.
LEMMA TypeStep == TypeOK /\ [Next]_vars => TypeOK'
<1> SUFFICES ASSUME TypeOK, [Next]_vars PROVE TypeOK'
  OBVIOUS
<1> USE TaskType, AppendToQueue, TailOfQueue DEF TypeOK
<1>1. ASSUME NEW c \in Calls, Client(c) PROVE TypeOK'
  <2> USE DEF cacheVars, awaitVars, eventVars, osVars, readerVars
  <2>1. CASE Callback(c) BY <2>1 DEF Callback
  <2>2. ASSUME NEW f \in {"start", "stop"}, Call(c, f) PROVE TypeOK'
    BY <2>2 DEF Call
  <2> QED BY <1>1, <2>1, <2>2 DEF Client
<1>2. ASSUME NEW c \in Calls, ModuleThread(c) PROVE TypeOK'
  <2> USE DEF Dispatch, Return, ClearCache, Results, ErrorCodes, HandlerObjects,
             ClientHandlerObject, ReaderHandlerObject,
             callVars, cacheVars, awaitVars, eventVars, osVars, readerVars
  <2>1. CASE StartRejected(c) BY <2>1 DEF StartRejected
  <2>2. ASSUME NEW spawned \in BOOLEAN, StartFails(c, spawned) PROVE TypeOK'
    BY <2>2 DEF StartFails
  <2>3. CASE StartAwaits(c) BY <2>3 DEF StartAwaits
  <2>4. CASE AwaitSucceeds(c) BY <2>4 DEF AwaitSucceeds
  <2>5. CASE AwaitTimesOut(c) BY <2>5 DEF AwaitTimesOut
  <2>6. CASE StopFails(c)
    <3>1. PICK r \in ErrorCodes : Return(c, r)
      BY <2>6 DEF StopFails
    <3> QED BY <2>6, <3>1 DEF StopFails
  <2>7. CASE StopKills(c) BY <2>7 DEF StopKills
  <2>8. CASE OutputOther(c) BY <2>8 DEF OutputOther
  <2>9. CASE OutputListening(c) BY <2>9 DEF OutputListening, HandleProcessSuccessOutput
  <2>10. CASE OutputError(c) BY <2>10 DEF OutputError
  <2>11. CASE OutputNull(c) BY <2>11 DEF OutputNull
  <2>12. CASE CheckActive(c) BY <2>12 DEF CheckActive
  <2> QED BY <1>2, <2>1, <2>2, <2>3, <2>4, <2>5, <2>6, <2>7, <2>8, <2>9, <2>10,
             <2>11, <2>12 DEF ModuleThread
<1>3. ASSUME NEW c \in Calls, Timeout(c) PROVE TypeOK'
  BY <1>3 DEF Timeout, callVars, cacheVars, eventVars, osVars, readerVars
<1>4. ASSUME NEW c \in Calls, Reader(c) PROVE TypeOK'
  <2> USE DEF callVars, cacheVars, awaitVars, eventVars, osVars
  <2> DEFINE Posts == \E k \in {"output", "check"}, w \in {"posted", "postedEof", "checking"} :
                          Post(k, c, w)
  <2>a. ASSUME Posts
        PROVE  /\ moduleQueue' \in Seq(Tasks)
               /\ at' \in [Calls -> {"none", "reading", "posted", "postedEof", "reported",
                                     "checking", "done"}]
    BY <2>a DEF Post
  <2>1. CASE ReadLine(c)
    <3>1. Posts BY <2>1 DEF ReadLine
    <3> QED BY <2>1, <2>a, <3>1 DEF ReadLine
  <2>2. CASE ReadEof(c)
    <3>1. Posts BY <2>2 DEF ReadEof
    <3> QED BY <2>2, <2>a, <3>1 DEF ReadEof
  <2>3. CASE ReadThrows(c) BY <2>3 DEF ReadThrows
  <2>4. CASE AskActive(c) BY <2>4 DEF AskActive, Post
  <2> QED BY <1>4, <2>1, <2>2, <2>3, <2>4 DEF Reader
<1>5. ASSUME NEW c \in Calls, Sslocal(c) PROVE TypeOK'
  <2> USE DEF callVars, cacheVars, awaitVars, eventVars, readerVars
  <2>1. CASE Exits(c) BY <2>1 DEF Exits
  <2>2. ASSUME NEW line \in Lines, Prints(c, line) PROVE TypeOK'
    <3>1. Append(out[c], line) \in Seq(Lines)
      OBVIOUS
    <3> QED BY <2>2, <3>1 DEF Prints
  <2> QED BY <1>5, <2>1, <2>2 DEF Sslocal
<1>6. CASE UNCHANGED vars
  BY <1>6 DEF vars, callVars, cacheVars, awaitVars, eventVars, osVars, readerVars
<1> QED BY <1>1, <1>2, <1>3, <1>4, <1>5, <1>6 DEF Next

LEMMA TypeInit == Init => TypeOK
  BY DEF Init, TypeOK, Results, ErrorCodes, HandlerObjects

\* The variables of the supervisor always have their types.
THEOREM TypeCorrect == Spec => []TypeOK
  BY TypeInit, TypeStep, PTL DEF Spec

(***************************************************************************)
(* What the module thread's queue keeps, stated of a queue q, the progress *)
(* p of the calls and the set d of the calls whose await is decided.       *)
(***************************************************************************)

Matches(q, p, d) ==
    \A i \in 1..Len(q) :
        /\ q[i].kind = "call" => p[q[i].id] = "queued"
        /\ q[i].kind = "resume" => p[q[i].id] = "awaiting" /\ q[i].id \in d
Once(q) ==
    \A i, j \in 1..Len(q) : q[i] = q[j] /\ q[i].kind \in {"call", "resume"} => i = j

\* Taking the body or the continuation of c leaves no other one of c behind,
\* so what the module thread does to the progress of c disturbs no task.
LEMMA TakeTask ==
    ASSUME NEW q \in Seq(Tasks), q # <<>>, NEW p, NEW p2, NEW d,
           Matches(q, p, d), Once(q),
           NEW k \in {"call", "resume"}, NEW c \in Calls, Head(q) = Task(k, c),
           \A e \in Calls \ {c} : p2[e] = p[e]
    PROVE  Matches(Tail(q), p2, d) /\ Once(Tail(q))
<1>1. \A i \in 1..Len(Tail(q)) : i + 1 \in 1..Len(q) /\ Tail(q)[i] = q[i + 1] /\ q[i + 1] \in Tasks
  BY TailOfQueue
<1>2. q[1] = Task(k, c) /\ 1 \in 1..Len(q) /\ Len(Tail(q)) \in Nat
  BY TailOfQueue
<1>3. \A i \in 1..Len(Tail(q)) : q[i + 1] # Task(k, c)
  <2> SUFFICES ASSUME NEW i \in 1..Len(Tail(q)), q[i + 1] = q[1] PROVE FALSE
    BY <1>2
  <2> QED BY <1>1, <1>2 DEF Once, Task
<1>4. \A i \in 1..Len(Tail(q)) : q[i + 1].kind \in {"call", "resume"} => q[i + 1].id # c
  BY <1>1, <1>2, <1>3 DEF Matches, Task, Tasks
<1>5. Matches(Tail(q), p2, d)
  BY <1>1, <1>4 DEF Matches, Tasks
<1>6. Once(Tail(q))
  BY <1>1, <1>2 DEF Once
<1> QED BY <1>5, <1>6

\* Taking a task of a reader, the progress of the calls staying as it is.
LEMMA TakeReaderTask ==
    ASSUME NEW q \in Seq(Tasks), q # <<>>, NEW p, NEW d, Matches(q, p, d), Once(q)
    PROVE  Matches(Tail(q), p, d) /\ Once(Tail(q))
<1>1. \A i \in 1..Len(Tail(q)) : i + 1 \in 1..Len(q) /\ Tail(q)[i] = q[i + 1]
  BY TailOfQueue
<1>2. Len(Tail(q)) \in Nat
  BY TailOfQueue
<1> QED BY <1>1, <1>2 DEF Matches, Once

\* Posting a task that has its call in the right state and is not queued yet.
LEMMA PostTask ==
    ASSUME NEW q \in Seq(Tasks), NEW p, NEW p2, NEW d, NEW d2,
           Matches(q, p, d), Once(q), NEW t \in Tasks, d \subseteq d2,
           \A e \in Calls : p[e] \in {"queued", "awaiting"} => p2[e] = p[e],
           t.kind = "call" => p[t.id] = "idle" /\ p2[t.id] = "queued",
           t.kind = "resume" => p2[t.id] = "awaiting" /\ t.id \notin d /\ t.id \in d2
    PROVE  Matches(Append(q, t), p2, d2) /\ Once(Append(q, t))
<1> DEFINE r == Append(q, t)
<1>1. /\ Len(q) \in Nat /\ Len(r) = Len(q) + 1
      /\ \A i \in 1..Len(q) : r[i] = q[i] /\ q[i] \in Tasks
      /\ r[Len(q) + 1] = t
  BY AppendToQueue
<1> HIDE DEF r
<1>2. Matches(r, p2, d2)
  BY <1>1 DEF Matches, Tasks
<1>3. \A i \in 1..Len(q) : r[i] = t => t.kind \notin {"call", "resume"}
  BY <1>1 DEF Matches
<1>4. Once(r)
  BY <1>1, <1>3 DEF Once
<1> QED BY <1>2, <1>4 DEF r

(***************************************************************************)
(* The inductive invariant.                                                *)
(***************************************************************************)

CallsInv == TasksMatchCalls /\ TasksOnce /\ CachedDeferrableAwaited /\ CallProgress

LEMMA QueueForm ==
    /\ TasksMatchCalls <=> Matches(moduleQueue, pc, completed \union expired)
    /\ TasksOnce <=> Once(moduleQueue)
  BY DEF TasksMatchCalls, TasksOnce, Matches, Once

\* A task taken from the queue finds its call where it left it.
LEMMA Dispatched ==
    ASSUME TypeOK, CallsInv, NEW c \in Calls
    PROVE  /\ Dispatch("call", c) => pc[c] = "queued"
           /\ Dispatch("resume", c) => pc[c] = "awaiting" /\ c \in completed \union expired
<1> SUFFICES ASSUME moduleQueue # <<>> PROVE
        /\ Head(moduleQueue) = Task("call", c) => pc[c] = "queued"
        /\ Head(moduleQueue) = Task("resume", c) =>
               pc[c] = "awaiting" /\ c \in completed \union expired
  BY DEF Dispatch
<1>1. 1 \in 1..Len(moduleQueue) /\ Head(moduleQueue) = moduleQueue[1]
  BY TailOfQueue DEF TypeOK
<1> QED BY <1>1 DEF CallsInv, TasksMatchCalls, Task

\* The module thread finishes a step of a call, as seen by the queue.
LEMMA TakenTask ==
    ASSUME TypeOK, CallsInv, NEW k \in {"call", "resume"}, NEW c \in Calls,
           Dispatch(k, c), moduleQueue' = Tail(moduleQueue), NEW v,
           pc' = [pc EXCEPT ![c] = v], UNCHANGED <<completed, expired>>
    PROVE  TasksMatchCalls' /\ TasksOnce'
<1>1. Matches(moduleQueue, pc, completed \union expired) /\ Once(moduleQueue)
  BY QueueForm DEF CallsInv
<1>2. \A e \in Calls \ {c} : pc'[e] = pc[e]
  BY DEF TypeOK
<1>3. /\ Matches(Tail(moduleQueue), pc', completed \union expired)
      /\ Once(Tail(moduleQueue))
  BY <1>1, <1>2, TakeTask DEF TypeOK, Dispatch
<1> QED BY <1>3 DEF TasksMatchCalls, TasksOnce, Matches, Once

\* The module thread finishes a step of a reader.
LEMMA TakenReaderTask ==
    ASSUME TypeOK, CallsInv, moduleQueue # <<>>, moduleQueue' = Tail(moduleQueue),
           UNCHANGED <<pc, completed, expired>>
    PROVE  TasksMatchCalls' /\ TasksOnce'
<1>1. Matches(moduleQueue, pc, completed \union expired) /\ Once(moduleQueue)
  BY QueueForm DEF CallsInv
<1>2. /\ Matches(Tail(moduleQueue), pc, completed \union expired)
      /\ Once(Tail(moduleQueue))
  BY <1>1, TakeReaderTask DEF TypeOK
<1> QED BY <1>2 DEF TasksMatchCalls, TasksOnce, Matches, Once

\* Somebody posts a task.
LEMMA PostedTask ==
    ASSUME TypeOK, CallsInv, NEW k \in {"call", "resume", "output", "check"}, NEW c \in Calls,
           moduleQueue' = Append(moduleQueue, Task(k, c)),
           completed \subseteq completed', expired \subseteq expired',
           \A e \in Calls : pc[e] \in {"queued", "awaiting"} => pc'[e] = pc[e],
           k = "call" => pc[c] = "idle" /\ pc'[c] = "queued",
           k = "resume" => /\ pc'[c] = "awaiting"
                           /\ c \notin completed \union expired
                           /\ c \in completed' \union expired'
    PROVE  TasksMatchCalls' /\ TasksOnce'
<1>1. Matches(moduleQueue, pc, completed \union expired) /\ Once(moduleQueue)
  BY QueueForm DEF CallsInv
<1>2. Task(k, c) \in Tasks /\ Task(k, c).kind = k /\ Task(k, c).id = c
  BY TaskType DEF Task
<1> DEFINE t == Task(k, c)
           d == completed \union expired
           d2 == completed' \union expired'
<1>3. /\ t \in Tasks /\ d \subseteq d2 /\ moduleQueue \in Seq(Tasks)
      /\ Matches(moduleQueue, pc, d)
      /\ t.kind = "call" => pc[t.id] = "idle" /\ pc'[t.id] = "queued"
      /\ t.kind = "resume" => pc'[t.id] = "awaiting" /\ t.id \notin d /\ t.id \in d2
  BY <1>1, <1>2 DEF TypeOK
<1>4. moduleQueue' = Append(moduleQueue, t)
  OBVIOUS
<1> HIDE DEF t, d, d2
<1>5. Matches(Append(moduleQueue, t), pc', d2) /\ Once(Append(moduleQueue, t))
  BY <1>1, <1>3, PostTask
<1> QED BY <1>4, <1>5 DEF TasksMatchCalls, TasksOnce, Matches, Once, d2

\* Every action keeps the queue, the cached deferrable and the calls in step.
LEMMA CallsStep == TypeOK /\ CallsInv /\ [Next]_vars => CallsInv'
<1> SUFFICES ASSUME TypeOK, CallsInv, [Next]_vars PROVE CallsInv'
  OBVIOUS
<1> USE DEF callVars, cacheVars, awaitVars
<1>a. ASSUME UNCHANGED <<pc, result, process, listeningOn, completed>>, expired \subseteq expired'
      PROVE  CachedDeferrableAwaited' /\ CallProgress'
  BY <1>a DEF CallsInv, CachedDeferrableAwaited, CallProgress
<1>b. ASSUME NEW c \in Calls, NEW k \in {"call", "resume"}, Dispatch(k, c), NEW r, Return(c, r),
             UNCHANGED <<completed, expired>>,
             moduleQueue' = Tail(moduleQueue), UNCHANGED <<process, listeningOn>> \/ ClearCache
      PROVE  CallsInv'
  <2>1. TasksMatchCalls' /\ TasksOnce'
    BY <1>b, TakenTask DEF Return
  <2>2. k = "call" => pc[c] = "queued"
    BY <1>b, Dispatched
  <2>3. k = "resume" => c \in completed \union expired
    BY <1>b, Dispatched
  <2>4. CachedDeferrableAwaited'
    BY <1>b, <2>2, <2>3, NoneAssumption DEF CallsInv, CachedDeferrableAwaited, Return, ClearCache, TypeOK
  <2>5. CallProgress'
    BY <1>b, NoneAssumption DEF CallsInv, CallProgress, Return, ClearCache, TypeOK
  <2> QED BY <2>1, <2>4, <2>5 DEF CallsInv
<1>1. ASSUME NEW c \in Calls, Client(c) PROVE CallsInv'
  <2>1. CASE Callback(c)
    <3>1. pc' = [pc EXCEPT ![c] = "done"] /\ pc[c] = "returned"
      BY <2>1 DEF Callback
    <3>2. TasksMatchCalls' /\ TasksOnce'
      BY <2>1, <3>1 DEF Callback, CallsInv, TasksMatchCalls, TasksOnce, TypeOK, Tasks
    <3>3. CachedDeferrableAwaited' /\ CallProgress'
      BY <2>1, <3>1 DEF Callback, CallsInv, CachedDeferrableAwaited, CallProgress, TypeOK
    <3> QED BY <3>2, <3>3 DEF CallsInv
  <2>2. ASSUME NEW f \in {"start", "stop"}, Call(c, f) PROVE CallsInv'
    <3>1. pc' = [pc EXCEPT ![c] = "queued"] /\ pc[c] = "idle"
      BY <2>2 DEF Call
    <3>2. TasksMatchCalls' /\ TasksOnce'
      BY <2>2, <3>1, PostedTask DEF Call, TypeOK
    <3>3. CachedDeferrableAwaited' /\ CallProgress'
      BY <2>2, <3>1 DEF Call, CallsInv, CachedDeferrableAwaited, CallProgress, TypeOK
    <3> QED BY <3>2, <3>3 DEF CallsInv
  <2> QED BY <1>1, <2>1, <2>2 DEF Client
<1>2. ASSUME NEW c \in Calls, ModuleThread(c) PROVE CallsInv'
  <2>1. CASE StartRejected(c) BY <1>b, <2>1 DEF StartRejected
  <2>2. ASSUME NEW spawned \in BOOLEAN, StartFails(c, spawned) PROVE CallsInv'
    BY <1>b, <2>2 DEF StartFails
  <2>3. CASE StartAwaits(c)
    <3>1. TasksMatchCalls' /\ TasksOnce'
      BY <2>3, TakenTask DEF StartAwaits
    <3>2. CachedDeferrableAwaited'
      BY <2>3 DEF StartAwaits, CachedDeferrableAwaited, TypeOK
    <3>3. pc[c] = "queued"
      BY <2>3, Dispatched DEF StartAwaits
    <3>4. CallProgress'
      BY <2>3, <3>3 DEF StartAwaits, CallsInv, CallProgress, TypeOK
    <3> QED BY <3>1, <3>2, <3>4 DEF CallsInv
  <2>4. CASE AwaitSucceeds(c) BY <1>b, <2>4 DEF AwaitSucceeds
  <2>5. CASE AwaitTimesOut(c) BY <1>b, <2>5 DEF AwaitTimesOut
  <2>6. CASE StopFails(c)
    <3>1. PICK r \in ErrorCodes : Return(c, r)
      BY <2>6 DEF StopFails, ErrorCodes
    <3> QED BY <1>b, <2>6, <3>1 DEF StopFails
  <2>7. CASE StopKills(c) BY <1>b, <2>7 DEF StopKills
  <2>8. CASE OutputOther(c) BY <1>a, <2>8, TakenReaderTask DEF OutputOther, Dispatch, CallsInv
  <2>9. CASE OutputListening(c)
    <3> DEFINE l == listeningOn
               q == Tail(moduleQueue)
    <3>1. UNCHANGED <<pc, result, process, listeningOn, expired>> /\ moduleQueue # <<>>
      BY <2>9 DEF OutputListening, Dispatch
    <3>2. completed' = completed \union ({l} \ {None})
      BY <2>9 DEF OutputListening, HandleProcessSuccessOutput
    <3>3. q \in Seq(Tasks) /\ Matches(q, pc, completed \union expired) /\ Once(q)
      BY <3>1, TakeReaderTask, TailOfQueue, QueueForm DEF CallsInv, TypeOK
    <3>4. ASSUME l \in completed \union expired \union {None}
          PROVE  TasksMatchCalls' /\ TasksOnce'
      <4>1. moduleQueue' = q
        BY <2>9, <3>4 DEF OutputListening, HandleProcessSuccessOutput
      <4>2. Matches(moduleQueue', pc', completed' \union expired') /\ Once(moduleQueue')
        BY <3>1, <3>2, <3>3, <4>1 DEF Matches
      <4> QED BY <4>2 DEF TasksMatchCalls, TasksOnce, Matches, Once
    <3>5. ASSUME l \notin completed \union expired \union {None}
          PROVE  TasksMatchCalls' /\ TasksOnce'
      <4>1. moduleQueue' = Append(q, Task("resume", l))
        BY <2>9, <3>5 DEF OutputListening, HandleProcessSuccessOutput
      <4>2. l \in Calls /\ pc[l] = "awaiting"
        BY <3>5 DEF TypeOK, CallsInv, CachedDeferrableAwaited
      <4>3. Task("resume", l) \in Tasks /\ Task("resume", l).kind = "resume" /\ Task("resume", l).id = l
        BY <4>2, TaskType DEF Task
      <4> DEFINE t == Task("resume", l)
                 d == completed \union expired
                 d2 == completed' \union expired'
      <4>4. /\ t \in Tasks /\ d \subseteq d2 /\ q \in Seq(Tasks)
            /\ Matches(q, pc, d) /\ Once(q)
            /\ t.kind = "resume" => pc[t.id] = "awaiting" /\ t.id \notin d /\ t.id \in d2
            /\ t.kind # "call"
        BY <3>1, <3>2, <3>3, <3>5, <4>2, <4>3
      <4> HIDE DEF t, d, d2, q
      <4>5. Matches(Append(q, t), pc, d2) /\ Once(Append(q, t))
        BY <4>4, PostTask
      <4> QED BY <3>1, <4>1, <4>5 DEF TasksMatchCalls, TasksOnce, Matches, Once, d2, t
    <3>6. CachedDeferrableAwaited' /\ CallProgress'
      BY <3>1, <3>2 DEF CallsInv, CachedDeferrableAwaited, CallProgress
    <3> QED BY <3>4, <3>5, <3>6 DEF CallsInv
  <2>10. CASE OutputError(c) BY <1>a, <2>10, TakenReaderTask DEF OutputError, Dispatch, CallsInv
  <2>11. CASE OutputNull(c) BY <1>a, <2>11, TakenReaderTask DEF OutputNull, Dispatch, CallsInv
  <2>12. CASE CheckActive(c) BY <1>a, <2>12, TakenReaderTask DEF CheckActive, Dispatch, CallsInv
  <2> QED BY <1>2, <2>1, <2>2, <2>3, <2>4, <2>5, <2>6, <2>7, <2>8, <2>9, <2>10,
             <2>11, <2>12 DEF ModuleThread
<1>3. ASSUME NEW c \in Calls, Timeout(c) PROVE CallsInv'
  <2>1. UNCHANGED <<pc, result, process, listeningOn, completed>> /\ expired \subseteq expired'
    BY <1>3 DEF Timeout
  <2>2. CASE c \in completed
    <3>1. TasksMatchCalls' /\ TasksOnce'
      BY <1>3, <2>1, <2>2 DEF Timeout, CallsInv, TasksMatchCalls, TasksOnce
    <3> QED BY <1>a, <2>1, <3>1 DEF CallsInv
  <2>3. CASE c \notin completed
    <3>1. TasksMatchCalls' /\ TasksOnce'
      BY <1>3, <2>1, <2>3, PostedTask DEF Timeout
    <3> QED BY <1>a, <2>1, <3>1 DEF CallsInv
  <2> QED BY <2>2, <2>3
<1>4. ASSUME NEW c \in Calls, Reader(c) PROVE CallsInv'
  <2>1. UNCHANGED <<pc, result, process, listeningOn, completed, expired>>
    BY <1>4 DEF Reader, ReadLine, ReadEof, ReadThrows, AskActive
  <2>2. UNCHANGED moduleQueue \/ \E k \in {"output", "check"} :
                                     moduleQueue' = Append(moduleQueue, Task(k, c))
    BY <1>4 DEF Reader, ReadLine, ReadEof, ReadThrows, AskActive, Post
  <2>3. CASE UNCHANGED moduleQueue
    BY <1>a, <2>1, <2>3 DEF CallsInv, TasksMatchCalls, TasksOnce
  <2>4. ASSUME NEW k \in {"output", "check"}, moduleQueue' = Append(moduleQueue, Task(k, c))
        PROVE  CallsInv'
    BY <1>a, <2>1, <2>4, PostedTask DEF CallsInv
  <2> QED BY <2>2, <2>3, <2>4
<1>5. ASSUME UNCHANGED <<callVars, moduleQueue, cacheVars, awaitVars>> PROVE CallsInv'
  BY <1>5 DEF CallsInv, TasksMatchCalls, TasksOnce, CachedDeferrableAwaited, CallProgress
<1>6. ASSUME NEW c \in Calls, Sslocal(c) PROVE CallsInv'
  BY <1>5, <1>6 DEF Sslocal, Exits, Prints
<1> QED BY <1>1, <1>2, <1>3, <1>4, <1>5, <1>6 DEF Next, vars

\* A reader stays behind its process, and lines once read stay read.
LEMMA ReadersStep ==
    TypeOK /\ ReadersBehind /\ [Next]_vars => ReadersBehind' /\ (SomeListening => SomeListening')
<1> SUFFICES ASSUME TypeOK, ReadersBehind, [Next]_vars
             PROVE  ReadersBehind' /\ (SomeListening => SomeListening')
  OBVIOUS
<1> USE DEF readerVars, osVars, awaitVars
<1> DEFINE Kept == /\ \A p \in Calls : Len(out[p]) <= Len(out'[p]) /\ Len(out'[p]) \in Nat
                   /\ \A p \in Calls : pos[p] <= pos'[p] /\ pos'[p] \in Nat
                   /\ \A p \in Calls : \A i \in 1..Len(out[p]) : out'[p][i] = out[p][i]
<1>a. ASSUME Kept PROVE SomeListening => SomeListening'
  <2>1. ASSUME NEW p \in Calls, NEW i \in 1..pos[p], out[p][i] = "listening on"
        PROVE  i \in 1..pos'[p] /\ out'[p][i] = "listening on"
    <3>1. pos[p] \in Nat /\ pos[p] <= Len(out[p]) /\ Len(out[p]) \in Nat
      BY DEF ReadersBehind, TypeOK
    <3>2. i \in 1..Len(out[p]) /\ i \in 1..pos'[p]
      BY <1>a, <3>1
    <3> QED BY <1>a, <2>1, <3>2
  <2> QED BY <2>1 DEF SomeListening
<1>b. ASSUME UNCHANGED <<out, pos>> PROVE Kept
  BY <1>b DEF TypeOK
<1>c. ASSUME Kept, completed' = completed,
             \A p \in Calls : pos'[p] <= Len(out'[p]) /\ (at'[p] = "posted" => pos'[p] > 0)
      PROVE  ReadersBehind'
  BY <1>a, <1>c DEF ReadersBehind
<1>d. ASSUME UNCHANGED <<out, pos, completed>>, \A p \in Calls : at'[p] = "posted" => at[p] = "posted"
      PROVE  ReadersBehind' /\ (SomeListening => SomeListening')
  BY <1>d DEF ReadersBehind, SomeListening
<1>1. ASSUME NEW c \in Calls, ReadLine(c) PROVE ReadersBehind' /\ (SomeListening => SomeListening')
  <2>1. out' = out /\ completed' = completed /\ pos' = [pos EXCEPT ![c] = @ + 1]
        /\ pos[c] < Len(out[c])
    BY <1>1 DEF ReadLine
  <2>2. \A p \in Calls \ {c} : at'[p] = at[p]
    BY <1>1 DEF ReadLine, Post, TypeOK
  <2>3. \A p \in Calls : pos[p] \in Nat /\ Len(out[p]) \in Nat /\ pos'[p] = IF p = c THEN pos[p] + 1 ELSE pos[p]
    BY <2>1 DEF TypeOK
  <2>4. Kept
    BY <2>1, <2>3
  <2>5. \A p \in Calls : pos'[p] <= Len(out'[p]) /\ (at'[p] = "posted" => pos'[p] > 0)
    BY <2>1, <2>2, <2>3 DEF ReadersBehind
  <2> QED BY <1>a, <1>c, <2>1, <2>4, <2>5
<1>2. ASSUME NEW c \in Calls, NEW line \in Lines, Prints(c, line)
      PROVE  ReadersBehind' /\ (SomeListening => SomeListening')
  <2>1. at' = at /\ pos' = pos /\ completed' = completed /\ out' = [out EXCEPT ![c] = Append(@, line)]
    BY <1>2 DEF Prints
  <2>2. \A p \in Calls : out[p] \in Seq(Lines) /\ pos[p] \in Nat
    BY DEF TypeOK
  <2>3. \A p \in Calls : out'[p] = IF p = c THEN Append(out[p], line) ELSE out[p]
    BY <2>1 DEF TypeOK
  <2>4. Kept
    BY <2>1, <2>2, <2>3
  <2>5. \A p \in Calls : pos'[p] <= Len(out'[p]) /\ (at'[p] = "posted" => pos'[p] > 0)
    BY <2>1, <2>2, <2>3 DEF ReadersBehind
  <2> QED BY <1>a, <1>c, <2>1, <2>4, <2>5
<1>3. ASSUME NEW c \in Calls, OutputListening(c)
      PROVE  ReadersBehind' /\ (SomeListening => SomeListening')
  <2>1. out' = out /\ pos' = pos /\ at' = [at EXCEPT ![c] = "reported"]
        /\ at[c] = "posted" /\ out[c][pos[c]] = "listening on"
    BY <1>3 DEF OutputListening
  <2>2. pos[c] \in 1..pos[c]
    <3>1. pos[c] \in Nat
      BY DEF TypeOK
    <3>2. pos[c] > 0
      BY <2>1 DEF ReadersBehind
    <3> QED BY <3>1, <3>2
  <2>3. SomeListening'
    BY <2>1, <2>2 DEF SomeListening
  <2> QED BY <2>1, <2>3 DEF ReadersBehind, TypeOK
<1>4. ASSUME NEW c \in Calls, Client(c) \/ Timeout(c) \/ Exits(c)
      PROVE  ReadersBehind' /\ (SomeListening => SomeListening')
  BY <1>d, <1>4 DEF Client, Call, Callback, Timeout, Exits
<1>5. ASSUME NEW c \in Calls, ReadEof(c) \/ ReadThrows(c) \/ AskActive(c)
      PROVE  ReadersBehind' /\ (SomeListening => SomeListening')
  <2>1. UNCHANGED <<out, pos, completed>>
    BY <1>5 DEF ReadEof, ReadThrows, AskActive
  <2>2. \E w \in {"postedEof", "checking", "done"} : at' = [at EXCEPT ![c] = w]
    BY <1>5 DEF ReadEof, ReadThrows, AskActive, Post
  <2>3. \A p \in Calls : at'[p] = "posted" => at[p] = "posted"
    BY <2>2 DEF TypeOK
  <2> QED BY <1>d, <2>1, <2>3
<1>6. ASSUME NEW c \in Calls, ModuleThread(c), ~OutputListening(c)
      PROVE  ReadersBehind' /\ (SomeListening => SomeListening')
  <2>1. UNCHANGED <<out, pos, completed>>
    BY <1>6 DEF ModuleThread, StartRejected, StartFails, StartAwaits, AwaitSucceeds, AwaitTimesOut,
                StopFails, StopKills, OutputOther, OutputError, OutputNull, CheckActive
  <2>2. UNCHANGED at \/ \E w \in {"reading", "reported", "done"} : at' = [at EXCEPT ![c] = w]
    BY <1>6 DEF ModuleThread, StartRejected, StartFails, StartAwaits, AwaitSucceeds, AwaitTimesOut,
                StopFails, StopKills, OutputOther, OutputError, OutputNull, CheckActive
  <2>3. \A p \in Calls : at'[p] = "posted" => at[p] = "posted"
    BY <2>2 DEF TypeOK
  <2> QED BY <1>d, <2>1, <2>3
<1>7. CASE UNCHANGED vars
  BY <1>d, <1>7 DEF vars
<1> QED BY <1>1, <1>2, <1>3, <1>4, <1>5, <1>6, <1>7 DEF Next, Reader, Sslocal

\* The cache's two fields are set together and cleared together.
LEMMA TrackedStep == TrackedTogether /\ [Next]_vars => TrackedTogether'
<1> SUFFICES ASSUME TrackedTogether, [Next]_vars PROVE TrackedTogether'
  OBVIOUS
<1> USE DEF TrackedTogether, cacheVars, ClearCache
<1>1. ASSUME NEW c \in Calls, Client(c) \/ Timeout(c) \/ Reader(c) \/ Sslocal(c)
      PROVE  UNCHANGED cacheVars
  BY <1>1 DEF Client, Call, Callback, Timeout, Reader, ReadLine, ReadEof, ReadThrows, AskActive,
              Sslocal, Exits, Prints
<1>2. ASSUME NEW c \in Calls, ModuleThread(c) PROVE UNCHANGED cacheVars \/ ClearCache \/ StartAwaits(c)
  BY <1>2 DEF ModuleThread, StartRejected, StartFails, AwaitSucceeds, AwaitTimesOut, StopFails,
              StopKills, OutputOther, OutputListening, OutputError, OutputNull, CheckActive
<1>3. ASSUME NEW c \in Calls, StartAwaits(c) PROVE TrackedTogether'
  BY <1>3 DEF StartAwaits
<1>4. ASSUME UNCHANGED cacheVars \/ ClearCache PROVE TrackedTogether'
  BY <1>4
<1>5. UNCHANGED vars => UNCHANGED cacheVars
  BY DEF vars
<1> QED BY <1>1, <1>2, <1>3, <1>4, <1>5 DEF Next

LEMMA InvInit == Init => SupervisorInv
<1> SUFFICES ASSUME Init PROVE SupervisorInv
  OBVIOUS
<1> USE NoneAssumption DEF Init
<1>1. TasksMatchCalls /\ TasksOnce
  BY DEF TasksMatchCalls, TasksOnce
<1>2. CachedDeferrableAwaited /\ TrackedTogether
  BY DEF CachedDeferrableAwaited, TrackedTogether
<1>3. CallProgress
  BY DEF CallProgress
<1>4. ReadersBehind
  BY DEF ReadersBehind
<1> QED BY <1>1, <1>2, <1>3, <1>4, TypeInit DEF SupervisorInv

\* The supervisor invariant holds in every reachable state.
THEOREM Invariant == Spec => []SupervisorInv
<1>1. TypeOK /\ SupervisorInv /\ [Next]_vars => SupervisorInv'
  BY TypeStep, CallsStep, ReadersStep, TrackedStep DEF SupervisorInv, CallsInv
<1> QED BY <1>1, InvInit, TypeCorrect, PTL DEF Spec

(***************************************************************************)
(* The safety properties.                                                  *)
(***************************************************************************)

\* A call keeps the result it has, and keeps its operation once it was made.
LEMMA CallsSettle ==
    ASSUME TypeOK, SupervisorInv, [Next]_vars, NEW c \in Calls
    PROVE  /\ result[c] # "pending" => result'[c] = result[c]
           /\ pc[c] # "idle" => op'[c] = op[c]
           /\ pc[c] \in {"awaiting", "returned", "done"} =>
                  pc'[c] \in {"awaiting", "returned", "done"}
<1> DEFINE Goal == /\ result[c] # "pending" => result'[c] = result[c]
                   /\ pc[c] # "idle" => op'[c] = op[c]
                   /\ pc[c] \in {"awaiting", "returned", "done"} =>
                          pc'[c] \in {"awaiting", "returned", "done"}
<1> USE DEF callVars
<1>a. CallsInv
  BY DEF SupervisorInv, CallsInv
<1>1. ASSUME NEW e \in Calls, Client(e) PROVE Goal
  BY <1>1 DEF Client, Call, Callback, TypeOK
<1>2. ASSUME NEW e \in Calls, NEW k \in {"call", "resume"}, Dispatch(k, e), NEW r, Return(e, r), op' = op
      PROVE  Goal
  <2>1. pc[e] \in {"queued", "awaiting"}
    BY <1>a, <1>2, Dispatched
  <2>2. result[e] = "pending"
    BY <2>1 DEF SupervisorInv, CallProgress
  <2> QED BY <1>2, <2>2 DEF Return, TypeOK
<1>3. ASSUME NEW e \in Calls, StartAwaits(e) PROVE Goal
  BY <1>3 DEF StartAwaits, TypeOK
<1>4. ASSUME UNCHANGED callVars PROVE Goal
  BY <1>4
<1>5. ASSUME NEW e \in Calls, ModuleThread(e)
      PROVE  \/ UNCHANGED callVars
             \/ StartAwaits(e)
             \/ op' = op /\ \E k \in {"call", "resume"}, r \in Results : Dispatch(k, e) /\ Return(e, r)
  BY <1>5 DEF ModuleThread, StartRejected, StartFails, AwaitSucceeds, AwaitTimesOut, StopFails,
              StopKills, OutputOther, OutputListening, OutputError, OutputNull, CheckActive,
              Results, ErrorCodes
<1>6. ASSUME NEW e \in Calls, Timeout(e) \/ Reader(e) \/ Sslocal(e) PROVE UNCHANGED callVars
  BY <1>6 DEF Timeout, Reader, ReadLine, ReadEof, ReadThrows, AskActive, Sslocal, Exits, Prints
<1>7. UNCHANGED vars => UNCHANGED callVars
  BY DEF vars
<1> HIDE DEF Goal
<1>8. Goal
  BY <1>1, <1>2, <1>3, <1>4, <1>5, <1>6, <1>7 DEF Next
<1> QED BY <1>8 DEF Goal

\* A result "ok" is new only where an await has succeeded or a stop has killed.
LEMMA NewSuccess ==
    ASSUME TypeOK, [Next]_vars, NEW c \in Calls, result[c] = "pending", result'[c] = "ok"
    PROVE  AwaitSucceeds(c) \/ StopKills(c)
<1>1. ASSUME NEW e \in Calls, ModuleThread(e) PROVE AwaitSucceeds(c) \/ StopKills(c)
  <2>1. ASSUME NEW r \in ErrorCodes, Return(e, r) PROVE FALSE
    BY <2>1 DEF Return, TypeOK, ErrorCodes
  <2>2. CASE AwaitSucceeds(e) \/ StopKills(e)
    BY <2>2 DEF AwaitSucceeds, StopKills, Return, TypeOK
  <2>3. CASE \/ OutputOther(e) \/ OutputListening(e) \/ OutputError(e) \/ OutputNull(e)
             \/ CheckActive(e) \/ StartAwaits(e)
    BY <2>3 DEF OutputOther, OutputListening, OutputError, OutputNull, CheckActive, StartAwaits, callVars
  <2>4. ASSUME \/ StartRejected(e) \/ StopFails(e) \/ AwaitTimesOut(e)
               \/ \E spawned \in BOOLEAN : StartFails(e, spawned)
        PROVE  \E r \in ErrorCodes : Return(e, r)
    BY <2>4 DEF StartRejected, StopFails, AwaitTimesOut, StartFails, ErrorCodes
  <2> QED BY <1>1, <2>1, <2>2, <2>3, <2>4 DEF ModuleThread
<1>2. ASSUME NEW e \in Calls, Client(e) \/ Timeout(e) \/ Reader(e) \/ Sslocal(e) PROVE FALSE
  BY <1>2 DEF Client, Call, Callback, Timeout, Reader, ReadLine, ReadEof, ReadThrows, AskActive,
              Sslocal, Exits, Prints, callVars
<1>3. ~UNCHANGED vars
  BY DEF vars, callVars
<1> QED BY <1>1, <1>2, <1>3 DEF Next

\* A start succeeds only after a process was seen to print "listening on".
THEOREM SuccessIsEarned == Spec => []StartSuccessNeedsListening
<1>1. Init => StartSuccessNeedsListening
  BY DEF Init, StartSuccessNeedsListening
<1>2. TypeOK /\ SupervisorInv /\ StartSuccessNeedsListening /\ [Next]_vars
          => StartSuccessNeedsListening'
  <2> SUFFICES ASSUME TypeOK, SupervisorInv, StartSuccessNeedsListening, [Next]_vars,
                      NEW c \in Calls, op'[c] = "start", result'[c] = "ok"
               PROVE  SomeListening'
    BY DEF StartSuccessNeedsListening
  <2>1. SomeListening => SomeListening'
    BY ReadersStep DEF SupervisorInv
  <2>2. CASE result[c] # "pending"
    <3>1. pc[c] # "idle"
      BY <2>2 DEF SupervisorInv, CallProgress
    <3>2. op[c] = "start" /\ result[c] = "ok"
      BY <2>2, <3>1, CallsSettle
    <3> QED BY <2>1, <3>2 DEF StartSuccessNeedsListening
  <2>3. CASE AwaitSucceeds(c)
    <3>1. c \in completed
      BY <2>3, Dispatched DEF AwaitSucceeds, SupervisorInv, CallsInv
    <3> QED BY <2>1, <3>1 DEF SupervisorInv, ReadersBehind
  <2>4. ~StopKills(c)
    BY DEF StopKills
  <2> QED BY <2>2, <2>3, <2>4, NewSuccess
<1> QED BY <1>1, <1>2, TypeCorrect, Invariant, PTL DEF Spec

\* An abandoned start keeps waiting until its timer fires, and then times out.
THEOREM AbandonedTimesOut == Spec => AbandonedStartTimesOut
<1>1. TypeOK /\ SupervisorInv /\ [Next]_vars =>
          [\A c \in Calls : Abandoned(c) =>
              Abandoned(c)' \/ result'[c] = "PROCESS_DEFERRABLE_TIMED_OUT"]_vars
  <2> SUFFICES ASSUME TypeOK, SupervisorInv, Next, NEW c \in Calls, Abandoned(c)
               PROVE  Abandoned(c)' \/ result'[c] = "PROCESS_DEFERRABLE_TIMED_OUT"
    OBVIOUS
  <2> USE DEF callVars, cacheVars, awaitVars
  <2>a. CallsInv /\ pc[c] = "awaiting" /\ listeningOn # c /\ c \notin completed
    BY DEF SupervisorInv, CallsInv, Abandoned
  <2>b. ASSUME pc'[c] = pc[c], listeningOn' # c, c \notin completed' PROVE Abandoned(c)'
    BY <2>a, <2>b DEF Abandoned
  <2>1. ASSUME NEW e \in Calls, NEW k \in {"call", "resume"}, Dispatch(k, e) , NEW r, Return(e, r),
               e # c, completed' = completed, UNCHANGED cacheVars \/ ClearCache
        PROVE  Abandoned(c)'
    BY <2>a, <2>b, <2>1, NoneAssumption DEF Return, ClearCache, TypeOK
  <2>2. ASSUME NEW e \in Calls, Dispatch("call", e) PROVE e # c
    BY <2>a, <2>2, Dispatched
  <2>3. ASSUME NEW e \in Calls, ModuleThread(e)
        PROVE  Abandoned(c)' \/ result'[c] = "PROCESS_DEFERRABLE_TIMED_OUT"
    <3>1. CASE AwaitSucceeds(e)
      <4>1. e # c
        BY <2>a, <3>1, Dispatched DEF AwaitSucceeds
      <4> QED BY <2>1, <3>1, <4>1 DEF AwaitSucceeds
    <3>2. CASE AwaitTimesOut(e)
      <4>1. CASE e = c BY <3>2, <4>1 DEF AwaitTimesOut, Return, TypeOK
      <4>2. CASE e # c BY <2>1, <3>2, <4>2 DEF AwaitTimesOut
      <4> QED BY <4>1, <4>2
    <3>3. CASE StartRejected(e) BY <2>1, <2>2, <3>3 DEF StartRejected
    <3>4. ASSUME NEW spawned \in BOOLEAN, StartFails(e, spawned) PROVE Abandoned(c)'
      BY <2>1, <2>2, <3>4 DEF StartFails
    <3>5. CASE StartAwaits(e)
      BY <2>a, <2>b, <2>2, <3>5 DEF StartAwaits, TypeOK
    <3>6. CASE StopFails(e)
      <4>1. PICK r \in ErrorCodes : Return(e, r)
        BY <3>6 DEF StopFails, ErrorCodes
      <4> QED BY <2>1, <2>2, <3>6, <4>1 DEF StopFails
    <3>7. CASE StopKills(e) BY <2>1, <2>2, <3>7 DEF StopKills
    <3>8. CASE OutputListening(e)
      BY <2>a, <2>b, <3>8 DEF OutputListening, HandleProcessSuccessOutput
    <3>9. CASE OutputOther(e) \/ OutputError(e) \/ OutputNull(e) \/ CheckActive(e)
      BY <2>a, <2>b, <3>9 DEF OutputOther, OutputError, OutputNull, CheckActive
    <3> QED BY <2>3, <3>1, <3>2, <3>3, <3>4, <3>5, <3>6, <3>7, <3>8, <3>9 DEF ModuleThread
  <2>4. ASSUME NEW e \in Calls, Client(e) PROVE Abandoned(c)'
    BY <2>a, <2>b, <2>4 DEF Client, Call, Callback, TypeOK
  <2>5. ASSUME NEW e \in Calls, Timeout(e) \/ Reader(e) \/ Sslocal(e) PROVE Abandoned(c)'
    BY <2>a, <2>b, <2>5 DEF Timeout, Reader, ReadLine, ReadEof, ReadThrows, AskActive, Sslocal,
                            Exits, Prints
  <2> QED BY <2>3, <2>4, <2>5 DEF Next
<1> QED BY <1>1, TypeCorrect, Invariant, PTL DEF Spec, AbandonedStartTimesOut

\* What excuses a running process that the cache no longer names.
Excused(p) ==
    \/ result[p] = "PROCESS_COULD_NOT_START"
    \/ \E c \in Calls : result[c] = "PROCESS_DEFERRABLE_TIMED_OUT"
    \/ FALSE \in PidReads /\ \E c \in Calls \ {p} : Admitted(c)

\* A running process is lost only to its own failed start, to a timeout, or to
\* a start that could not read the pid of the cached process.
THEOREM LeaksExplained == Spec => []LeakOnlyThroughTimeout
<1>1. Init => LeakOnlyThroughTimeout
  BY DEF Init, LeakOnlyThroughTimeout
<1>2. TypeOK /\ SupervisorInv /\ LeakOnlyThroughTimeout /\ [Next]_vars => LeakOnlyThroughTimeout'
  <2> SUFFICES ASSUME TypeOK, SupervisorInv, LeakOnlyThroughTimeout, [Next]_vars,
                      NEW p \in Calls, os'[p] = "alive", p # process'
               PROVE  Excused(p)'
    BY DEF LeakOnlyThroughTimeout, Excused
  <2> USE DEF callVars, cacheVars, osVars
  <2>a. CallsInv
    BY DEF SupervisorInv, CallsInv
  <2>b. ASSUME NEW c \in Calls, Admitted(c), result'[c] # "PROCESS_RUNNING_ALREADY" PROVE Admitted(c)'
    BY <2>b, CallsSettle DEF Admitted
  <2>c. \A c \in Calls : Admitted(c) /\ result'[c] = "PROCESS_RUNNING_ALREADY" => result[c] = "pending"
    BY CallsSettle DEF Admitted
  <2>d. ASSUME NEW c \in Calls, result[c] = "pending", result'[c] = "PROCESS_RUNNING_ALREADY"
        PROVE  pc[c] = "queued"
    <3>1. ASSUME NEW e \in Calls, ModuleThread(e) PROVE pc[c] = "queued"
      <4>1. ASSUME NEW r \in Results \ {"PROCESS_RUNNING_ALREADY"}, Return(e, r) PROVE FALSE
        BY <2>d, <4>1 DEF Return, TypeOK
      <4>2. CASE StartRejected(e)
        <5>1. e = c
          BY <2>d, <4>2 DEF StartRejected, Return, TypeOK
        <5> QED BY <2>a, <4>2, <5>1, Dispatched DEF StartRejected
      <4>3. CASE \/ OutputOther(e) \/ OutputListening(e) \/ OutputError(e) \/ OutputNull(e)
                 \/ CheckActive(e) \/ StartAwaits(e)
        BY <2>d, <4>3 DEF OutputOther, OutputListening, OutputError, OutputNull, CheckActive, StartAwaits
      <4>4. ASSUME \/ AwaitSucceeds(e) \/ StopFails(e) \/ StopKills(e) \/ AwaitTimesOut(e)
                   \/ \E spawned \in BOOLEAN : StartFails(e, spawned)
            PROVE  \E r \in Results \ {"PROCESS_RUNNING_ALREADY"} : Return(e, r)
        BY <4>4 DEF AwaitSucceeds, StopFails, StopKills, AwaitTimesOut, StartFails, Results, ErrorCodes
      <4> QED BY <3>1, <4>1, <4>2, <4>3, <4>4 DEF ModuleThread
    <3>2. ASSUME NEW e \in Calls, Client(e) \/ Timeout(e) \/ Reader(e) \/ Sslocal(e) PROVE FALSE
      BY <2>d, <3>2 DEF Client, Call, Callback, Timeout, Reader, ReadLine, ReadEof, ReadThrows,
                  AskActive, Sslocal, Exits, Prints
    <3>3. ~UNCHANGED vars
      BY <2>d DEF vars
    <3> QED BY <3>1, <3>2, <3>3 DEF Next
  <2>e. \A c \in Calls : Admitted(c) => Admitted(c)'
    BY <2>b, <2>c, <2>d DEF Admitted
  <2>f. Excused(p) => Excused(p)'
    BY <2>e, CallsSettle DEF Excused
  <2>g. CASE os[p] = "alive" /\ p # process
    BY <2>f, <2>g DEF LeakOnlyThroughTimeout, Excused
  <2>h. ASSUME UNCHANGED <<os, process>> PROVE Excused(p)'
    BY <2>g, <2>h
  <2>1. ASSUME NEW e \in Calls, ModuleThread(e) PROVE Excused(p)'
    <3>1. ASSUME NEW spawned \in BOOLEAN, StartFails(e, spawned) PROVE Excused(p)'
      <4>1. op[e] = "start" /\ pc[e] = "queued" /\ process # e
        BY <2>a, <3>1, Dispatched DEF StartFails, CallsInv, CallProgress
      <4>2. result'[e] = "PROCESS_COULD_NOT_START" /\ pc'[e] = "returned" /\ op' = op
        BY <3>1 DEF StartFails, Return, TypeOK
      <4>3. Admitted(e)'
        BY <4>1, <4>2 DEF Admitted
      <4>4. CASE p = e BY <4>2, <4>4 DEF Excused
      <4>5. CASE p # e /\ p = process
        <5>1. FALSE \in PidReads
          BY <3>1, <4>5, NoneAssumption, PidReadsAssumption DEF StartFails, IsProcessStopped
        <5> QED BY <4>3, <4>5, <5>1 DEF Excused
      <4>6. CASE p # e /\ p # process
        BY <2>g, <3>1, <4>6 DEF StartFails, TypeOK
      <4> QED BY <4>4, <4>5, <4>6
    <3>2. CASE StartAwaits(e)
      <4>1. op[e] = "start" /\ pc'[e] = "awaiting" /\ op' = op /\ result' = result /\ p # e
        BY <3>2 DEF StartAwaits, TypeOK
      <4>2. result[e] = "pending"
        BY <2>a, <3>2, Dispatched DEF StartAwaits, CallsInv, CallProgress
      <4>3. Admitted(e)'
        BY <4>1, <4>2 DEF Admitted
      <4>4. CASE p = process
        <5>1. FALSE \in PidReads
          BY <3>2, <4>4, NoneAssumption, PidReadsAssumption DEF StartAwaits, IsProcessStopped
        <5> QED BY <4>1, <4>3, <5>1 DEF Excused
      <4>5. CASE p # process
        BY <2>g, <3>2, <4>1, <4>5 DEF StartAwaits, TypeOK
      <4> QED BY <4>4, <4>5
    <3>3. CASE AwaitTimesOut(e)
      BY <3>3 DEF AwaitTimesOut, Return, Excused, TypeOK
    <3>4. CASE StopKills(e)
      BY <2>g, <3>4 DEF StopKills, TypeOK
    <3>5. CASE \/ StartRejected(e) \/ AwaitSucceeds(e) \/ StopFails(e) \/ OutputOther(e)
               \/ OutputListening(e) \/ OutputError(e) \/ OutputNull(e) \/ CheckActive(e)
      BY <2>h, <3>5 DEF StartRejected, AwaitSucceeds, StopFails, OutputOther, OutputListening,
                        OutputError, OutputNull, CheckActive
    <3> QED BY <2>1, <3>1, <3>2, <3>3, <3>4, <3>5 DEF ModuleThread
  <2>2. ASSUME NEW e \in Calls, Client(e) \/ Timeout(e) \/ Reader(e) PROVE Excused(p)'
    BY <2>h, <2>2 DEF Client, Call, Callback, Timeout, Reader, ReadLine, ReadEof, ReadThrows, AskActive
  <2>3. ASSUME NEW e \in Calls, Sslocal(e) PROVE Excused(p)'
    BY <2>g, <2>h, <2>3 DEF Sslocal, Exits, Prints, TypeOK
  <2>4. CASE UNCHANGED vars
    BY <2>h, <2>4 DEF vars
  <2> QED BY <2>1, <2>2, <2>3, <2>4 DEF Next
<1> QED BY <1>1, <1>2, TypeCorrect, Invariant, PTL DEF Spec


(***************************************************************************)
(* The refinement of ObfuscatorContract.                                   *)
(***************************************************************************)

\* What the client of the contract does: it waits for each callback, on a
\* system where the pid of a process can be read.
WaitingClient == Sequential /\ PidReads = {TRUE}

\* At most one call of such a client is under way, and a start that waits for
\* its process still has it in the cache.
OneCallAtATime ==
    /\ \A c, d \in Calls : InFlight(c) /\ InFlight(d) => c = d
    /\ \A c \in Calls : pc[c] = "awaiting" => process = c

\* The call c moves on to v, and the cached process becomes p.
Moves(c, v, p) == pc' = [pc EXCEPT ![c] = v] /\ process' = p
Decided(c, r, p) == Moves(c, "returned", p) /\ result' = [result EXCEPT ![c] = r]

Admission(c) ==
    /\ pc[c] = "queued"
    /\ \/ process = None /\ Moves(c, "awaiting", c) /\ UNCHANGED result
       \/ process = None /\ Decided(c, "PROCESS_COULD_NOT_START", None)
       \/ process # None /\ Decided(c, "PROCESS_RUNNING_ALREADY", process)
       \/ process # None /\ Decided(c, "ok", None)
       \/ process # None /\ Decided(c, "PROCESS_COULD_NOT_STOP", process)
       \/ process = None /\ Decided(c, "PROCESS_UNKNOWN", None)

Resumption(c) ==
    /\ pc[c] = "awaiting"
    /\ \/ Decided(c, "ok", process)
       \/ Decided(c, "PROCESS_DEFERRABLE_TIMED_OUT", None)

Bracket(c) ==
    /\ UNCHANGED result
    /\ \/ pc[c] = "idle" /\ (\A d \in Calls : ~InFlight(d)) /\ Moves(c, "queued", process)
       \/ pc[c] = "returned" /\ Moves(c, "done", process)

\* What a step can mean for the calls, their results and the cached process.
LEMMA StepsOfACall ==
    ASSUME WaitingClient, SupervisorInv, [Next]_vars
    PROVE  \/ UNCHANGED <<pc, result, process>>
           \/ \E c \in Calls : Bracket(c) \/ Admission(c) \/ Resumption(c)
<1> USE DEF Moves, Decided, Return, WaitingClient, cacheVars, callVars
<1>0. TypeOK /\ CallsInv
  BY DEF SupervisorInv, CallsInv
<1>1. ASSUME NEW c \in Calls, Client(c) PROVE Bracket(c)
  BY <1>1 DEF Client, Call, Callback, MayCall, Bracket
<1>2. ASSUME NEW c \in Calls, ModuleThread(c)
      PROVE  UNCHANGED <<pc, result, process>> \/ Admission(c) \/ Resumption(c)
  <2>1. Dispatch("call", c) => pc[c] = "queued"
    BY <1>0, Dispatched
  <2>2. Dispatch("resume", c) => pc[c] = "awaiting"
    BY <1>0, Dispatched
  <2>3. CASE StartRejected(c)
    BY <2>1, <2>3 DEF StartRejected, IsProcessStopped, Admission
  <2>4. CASE \E spawned \in BOOLEAN : StartFails(c, spawned)
    BY <2>1, <2>4 DEF StartFails, IsProcessStopped, ClearCache, Admission
  <2>5. CASE StartAwaits(c)
    BY <2>1, <2>5 DEF StartAwaits, IsProcessStopped, Admission
  <2>6. CASE StopFails(c)
    BY <2>1, <2>6 DEF StopFails, Admission
  <2>7. CASE StopKills(c)
    BY <2>1, <2>7 DEF StopKills, ClearCache, Admission
  <2>8. CASE AwaitSucceeds(c)
    BY <2>2, <2>8 DEF AwaitSucceeds, Resumption
  <2>9. CASE AwaitTimesOut(c)
    BY <2>2, <2>9 DEF AwaitTimesOut, ClearCache, Resumption
  <2>10. CASE OutputOther(c) \/ OutputListening(c) \/ OutputError(c) \/ OutputNull(c) \/ CheckActive(c)
    BY <2>10 DEF OutputOther, OutputListening, OutputError, OutputNull, CheckActive
  <2> QED BY <1>2, <2>3, <2>4, <2>5, <2>6, <2>7, <2>8, <2>9, <2>10 DEF ModuleThread
<1>3. ASSUME NEW c \in Calls, Timeout(c) \/ Reader(c) \/ Sslocal(c)
      PROVE  UNCHANGED <<pc, result, process>>
  BY <1>3 DEF Timeout, Reader, ReadLine, ReadEof, ReadThrows, AskActive, Sslocal, Exits, Prints
<1>4. UNCHANGED vars => UNCHANGED <<pc, result, process>>
  BY DEF vars
<1> QED BY <1>1, <1>2, <1>3, <1>4 DEF Next

LEMMA OneCallStep ==
    ASSUME WaitingClient, SupervisorInv, OneCallAtATime, [Next]_vars PROVE OneCallAtATime'
<1>0. TypeOK
  BY DEF SupervisorInv
<1> USE DEF OneCallAtATime, InFlight, Moves, Decided, TypeOK
<1>1. ASSUME NEW c \in Calls, Bracket(c) PROVE OneCallAtATime'
  <2>1. CASE pc[c] = "idle" /\ (\A d \in Calls : ~InFlight(d)) /\ Moves(c, "queued", process)
    <3>1. \A d \in Calls : InFlight(d)' => d = c
      BY <1>0, <2>1
    <3>2. \A d \in Calls : pc'[d] # "awaiting"
      BY <1>0, <2>1
    <3> QED BY <3>1, <3>2
  <2>2. CASE pc[c] = "returned" /\ Moves(c, "done", process)
    BY <1>0, <2>2
  <2> QED BY <1>1, <2>1, <2>2 DEF Bracket
<1>2. ASSUME NEW c \in Calls, Admission(c) PROVE OneCallAtATime'
  BY <1>0, <1>2 DEF Admission
<1>3. ASSUME NEW c \in Calls, Resumption(c) PROVE OneCallAtATime'
  BY <1>0, <1>3 DEF Resumption
<1>4. UNCHANGED <<pc, result, process>> => OneCallAtATime'
  OBVIOUS
<1> QED BY <1>1, <1>2, <1>3, <1>4, StepsOfACall

Running == IF process # None /\ pc[process] = "awaiting" THEN None ELSE process

\* Every step is a step of the contract or changes nothing it speaks of.  A
\* start takes effect when its await ends, everything else on the spot.
LEMMA ContractStep ==
    ASSUME WaitingClient, SupervisorInv, OneCallAtATime, [Next]_vars
    PROVE  [Contract!Next]_(Contract!contractVars)
<1>0. TypeOK /\ CallProgress
  BY DEF SupervisorInv
<1> USE DEF Moves, Decided, TypeOK, CallProgress
<1>1. ASSUME NEW c \in Calls, Bracket(c) PROVE Running' = Running /\ result' = result
  BY <1>0, <1>1, NoneAssumption DEF Bracket, Running
<1>2. ASSUME NEW c \in Calls, Admission(c)
      PROVE  \/ Contract!Start(c) \/ Contract!Stop(c)
             \/ Running' = Running /\ result' = result
  <2>1. result[c] = "pending" /\ process # c
    BY <1>0, <1>2 DEF Admission
  <2>2. process # None => Running = process
    BY <1>0, <1>2 DEF Admission, OneCallAtATime, InFlight, Running
  <2>3. process = None => Running = None
    BY DEF Running
  <2>4. process' # None /\ process' = process /\ pc' = [pc EXCEPT ![c] = "returned"] => Running' = Running
    BY <1>0, <2>1 DEF Running
  <2>5. process' = None => Running' = None
    BY DEF Running
  <2>6. CASE process = None /\ Moves(c, "awaiting", c) /\ UNCHANGED result
    BY <1>0, <2>3, <2>6 DEF Running
  <2>7. CASE process # None
    BY <1>2, <2>1, <2>2, <2>4, <2>5, <2>7
       DEF Admission, Running, Contract!Start, Contract!Stop, Contract!Ends
  <2>8. CASE process = None
    BY <1>2, <2>1, <2>3, <2>5, <2>6, <2>8
       DEF Admission, Running, Contract!Start, Contract!Stop, Contract!Ends
  <2> QED BY <2>7, <2>8
<1>3. ASSUME NEW c \in Calls, Resumption(c) PROVE Contract!Start(c)
  <2>1. result[c] = "pending" /\ process = c /\ c # None
    BY <1>0, <1>3, NoneAssumption DEF Resumption, OneCallAtATime
  <2>2. Running = None
    BY <1>3, <2>1 DEF Resumption, Running
  <2>3. Running' = process'
    BY <1>0, <1>3, <2>1 DEF Resumption, Running
  <2> QED BY <1>3, <2>1, <2>2, <2>3 DEF Resumption, Running, Contract!Start, Contract!Ends
<1>4. UNCHANGED <<pc, result, process>> => Running' = Running /\ result' = result
  BY DEF Running
<1>5. Running' = Running /\ result' = result => UNCHANGED Contract!contractVars
  BY DEF Running, Contract!contractVars
<1> QED BY <1>1, <1>2, <1>3, <1>4, <1>5, StepsOfACall DEF Contract!Next

\* A client that waits for each callback, where the pid can be read, sees start
\* and stop as atomic operations on one tracked process (StartProcessController,
\* StopProcessController).
THEOREM ContractIsKept == WaitingClient => (Spec => ImplementsContract)
<1> SUFFICES ASSUME WaitingClient PROVE Spec => ImplementsContract
  OBVIOUS
<1>1. Init => OneCallAtATime /\ Contract!Init
  BY DEF Init, OneCallAtATime, InFlight, Contract!Init
<1>2. SupervisorInv /\ OneCallAtATime /\ [Next]_vars => OneCallAtATime'
  BY OneCallStep
<1>3. SupervisorInv /\ OneCallAtATime /\ [Next]_vars => [Contract!Next]_(Contract!contractVars)
  BY ContractStep
<1> QED BY <1>1, <1>2, <1>3, Invariant, PTL DEF Spec, ImplementsContract, Contract!Spec
=============================================================================
