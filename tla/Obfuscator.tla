----------------------------- MODULE Obfuscator -----------------------------
(***************************************************************************)
(* The Android library under obfuscator/src/main/java: a supervisor that   *)
(* starts one sslocal process, waits until the process prints that it      *)
(* listens, and kills it on request.                                       *)
(*                                                                         *)
(* Every call of the API runs on the module context, a single-threaded     *)
(* executor (CoroutineContextImpl), so a handler is atomic up to its only  *)
(* suspension point, deferrable.await() in                                 *)
(* WaitForProcessListeningOnDeferrable.  The executor is the FIFO queue    *)
(* moduleQueue.  One coroutine per started process reads its output on     *)
(* Dispatchers.IO and jumps to the module context to report a line and to  *)
(* look whether it should go on.                                           *)
(*                                                                         *)
(* A call creates at most one process and one CompletableDeferred, so the  *)
(* process, its reader, its deferrable and its event handler are all named *)
(* by the call that created them.                                          *)
(***************************************************************************)
EXTENDS Naturals, Sequences

CONSTANTS
    Calls,       \* the calls of start and stop the client makes
    None,        \* the null of the cache's two fields and of a lateinit var
    Lines,       \* the lines a process may print, as far as they are told apart
    MaxLines,    \* bound: how many lines a process prints
    PidReads,    \* the outcomes of reading Process.pid by reflection
    Sequential   \* does the client wait for each callback before calling?

ASSUME NoneAssumption     == None \notin Calls
ASSUME LinesAssumption    == Lines \subseteq {"error", "listening on", "other"}
ASSUME MaxLinesAssumption == MaxLines \in Nat
ASSUME PidReadsAssumption == PidReads \subseteq BOOLEAN /\ PidReads # {}
ASSUME SequentialAssumption == Sequential \in BOOLEAN

VARIABLES
    op,            \* op[c]: which API function the call is
    pc,            \* pc[c]: how far the call has come
    result,        \* result[c]: the Result handed to the callback
    moduleQueue,   \* tasks waiting for the module thread
    process,       \* CacheImpl.process
    listeningOn,   \* CacheImpl.processListeningOnCompletableDeferred
    completed,     \* the CompletableDeferreds that were completed
    expired,       \* calls whose withTimeoutOrNull timer has fired
    eventHandler,  \* the lateinit var of the two StartProcessOutputHandlerImpl
    notified,      \* event handlers whose processStopped was called
    os,            \* os[c]: the operating-system process
    out,           \* out[c]: the lines the process has printed
    at,            \* at[c]: where the reader coroutine is
    pos            \* pos[c]: how many lines the reader has taken

callVars   == <<op, pc, result>>
cacheVars  == <<process, listeningOn>>
awaitVars  == <<completed, expired>>
eventVars  == <<eventHandler, notified>>
osVars     == <<os, out>>
readerVars == <<at, pos>>
vars == <<callVars, moduleQueue, cacheVars, awaitVars, eventVars, osVars, readerVars>>

(***************************************************************************)
(* The values.                                                             *)
(***************************************************************************)

\* ObfuscatorErrorCode, the codes some path really returns, and success.
ErrorCodes == {"INVALID_PID", "PROCESS_UNKNOWN", "PROCESS_COULD_NOT_START",
               "PROCESS_COULD_NOT_STOP", "PROCESS_RUNNING_ALREADY",
               "PROCESS_DEFERRABLE_TIMED_OUT"}
Results == {"pending", "ok"} \union ErrorCodes

\* Tasks of the module executor: the body of a call, the continuation of
\* await, and the two withContext blocks of a reader.
Tasks == [kind : {"call", "resume", "output", "check"}, id : Calls]
Task(k, c) == [kind |-> k, id |-> c]

\* ObfuscatorBuilder builds two StartProcessOutputHandlerImpl objects.  The
\* controller gives the client's handler to the first; the readers report
\* the lines to the second.
HandlerObjects ==  {"startProcessOutputHandler", "processOutputHandler"}
ClientHandlerObject == "startProcessOutputHandler"
ReaderHandlerObject == "processOutputHandler"

TypeOK ==
    /\ op \in [Calls -> {"none", "start", "stop"}]
    /\ pc \in [Calls -> {"idle", "queued", "awaiting", "returned", "done"}]
    /\ result \in [Calls -> Results]
    /\ moduleQueue \in Seq(Tasks)
    /\ process \in Calls \union {None}
    /\ listeningOn \in Calls \union {None}
    /\ completed \in SUBSET Calls
    /\ expired \in SUBSET Calls
    /\ eventHandler \in [HandlerObjects -> Calls \union {None}]
    /\ notified \in SUBSET Calls
    /\ os \in [Calls -> {"none", "alive", "exited", "killed"}]
    /\ out \in [Calls -> Seq(Lines)]
    /\ at \in [Calls -> {"none", "reading", "posted", "postedEof", "reported",
                         "checking", "done"}]
    /\ pos \in [Calls -> Nat]

Init ==
    /\ op = [c \in Calls |-> "none"]
    /\ pc = [c \in Calls |-> "idle"]
    /\ result = [c \in Calls |-> "pending"]
    /\ moduleQueue = <<>>
    /\ process = None
    /\ listeningOn = None
    /\ completed = {}
    /\ expired = {}
    /\ eventHandler = [h \in HandlerObjects |-> None]
    /\ notified = {}
    /\ os = [c \in Calls |-> "none"]
    /\ out = [c \in Calls |-> <<>>]
    /\ at = [c \in Calls |-> "none"]
    /\ pos = [c \in Calls |-> 0]

-----------------------------------------------------------------------------
(***************************************************************************)
(* The client.                                                             *)
(***************************************************************************)

InFlight(c) == pc[c] \in {"queued", "awaiting", "returned"}
MayCall == Sequential => \A c \in Calls : ~InFlight(c)

\* Obfuscator.start and Obfuscator.stop: launch on the module context.
Call(c, f) ==
    /\ pc[c] = "idle"
    /\ MayCall
    /\ op' = [op EXCEPT ![c] = f]
    /\ pc' = [pc EXCEPT ![c] = "queued"]
    /\ moduleQueue' = Append(moduleQueue, Task("call", c))
    /\ UNCHANGED <<result, cacheVars, awaitVars, eventVars, osVars, readerVars>>

\* The callback of the call, launched on the client's context.
Callback(c) ==
    /\ pc[c] = "returned"
    /\ pc' = [pc EXCEPT ![c] = "done"]
    /\ UNCHANGED <<op, result, moduleQueue, cacheVars, awaitVars, eventVars, osVars, readerVars>>

-----------------------------------------------------------------------------
(***************************************************************************)
(* The module thread: it takes the task at the head of the queue.          *)
(***************************************************************************)

Dispatch(k, c) ==
    /\ moduleQueue # <<>>
    /\ Head(moduleQueue) = Task(k, c)

Return(c, r) ==
    /\ pc' = [pc EXCEPT ![c] = "returned"]
    /\ result' = [result EXCEPT ![c] = r]

\* The cache: getProcess, createProcessListeningOnDeferrable and clear.
KnownProcess == process # None
CreateDeferrable(c) == listeningOn' = c
ClearProcess == process' = None
ClearDeferrable == listeningOn' = None
ClearCache == ClearProcess /\ ClearDeferrable

\* Process.isRunning, given whether the pid could be read.  It discards what
\* File("/proc/pid").exists() found, because the block of mapCatching is
\* coerced to Unit: it fails only with pid().
IsRunning(pidRead) == pidRead

\* IsProcessRunning discards the Result of isRunning in the same way.
IsProcessRunning == KnownProcess
AlwaysStopped(pidRead) == TRUE
IsProcessStopped(pidRead) == ~KnownProcess \/ ~IsRunning(pidRead)

\* The client's event handler is kept by the first of the two objects.
SetEventHandler(c) == eventHandler' = [eventHandler EXCEPT ![ClientHandlerObject] = c]

\* StartProcess: spawn the process and cache it; StopProcess: kill the cached
\* one by its pid, which may have ended by itself.
StartProcess(c) == process' = c /\ os' = [os EXCEPT ![c] = "alive"]
StopOnlyCached == UNCHANGED os
StopProcess == os' = [os EXCEPT ![process] = IF @ = "alive" THEN "killed" ELSE @]

\* StartProcessController when isProcessStopped fails: nothing is touched.
StartRejected(c) ==
    /\ Dispatch("call", c) /\ op[c] = "start"
    /\ \E pidRead \in PidReads : ~IsProcessStopped(pidRead)
    /\ Return(c, "PROCESS_RUNNING_ALREADY")
    /\ moduleQueue' = Tail(moduleQueue)
    /\ UNCHANGED <<op, cacheVars, awaitVars, eventVars, osVars, readerVars>>

\* ... startProcess fails: no executable or no process, and onFailure clears
\* the cache.  If outputStream.close() is what threw, the process exists.
StartFails(c, spawned) ==
    /\ Dispatch("call", c) /\ op[c] = "start"
    /\ \E pidRead \in PidReads : IsProcessStopped(pidRead)
    /\ SetEventHandler(c)
    /\ os' = IF spawned THEN [os EXCEPT ![c] = "alive"] ELSE os
    /\ ClearCache
    /\ Return(c, "PROCESS_COULD_NOT_START")
    /\ moduleQueue' = Tail(moduleQueue)
    /\ UNCHANGED <<op, awaitVars, notified, out, readerVars>>

\* ... every step succeeds: the deferrable, the handler, the process and the
\* reader exist, and the call suspends in deferrable.await().
StartAwaits(c) ==
    /\ Dispatch("call", c) /\ op[c] = "start"
    /\ \E pidRead \in PidReads : IsProcessStopped(pidRead)
    /\ CreateDeferrable(c)
    /\ SetEventHandler(c)
    /\ StartProcess(c)
    /\ at' = [at EXCEPT ![c] = "reading"]
    /\ pc' = [pc EXCEPT ![c] = "awaiting"]
    /\ moduleQueue' = Tail(moduleQueue)
    /\ UNCHANGED <<op, result, awaitVars, notified, out, pos>>

\* The timer of withTimeoutOrNull fires: the await is cancelled, also when
\* its continuation is already dispatched (prompt cancellation).
NoTimeout(c) == FALSE
TimeoutResumesAgain(c) ==
    /\ pc[c] = "awaiting"
    /\ c \notin expired
    /\ expired' = expired \union {c}
    /\ moduleQueue' = Append(moduleQueue, Task("resume", c))
    /\ UNCHANGED <<callVars, cacheVars, completed, eventVars, osVars, readerVars>>
Timeout(c) ==
    /\ pc[c] = "awaiting"
    /\ c \notin expired
    /\ expired' = expired \union {c}
    /\ moduleQueue' = IF c \in completed THEN moduleQueue
                      ELSE Append(moduleQueue, Task("resume", c))
    /\ UNCHANGED <<callVars, cacheVars, completed, eventVars, osVars, readerVars>>

\* The await resumes with a value: the call succeeds ...
AwaitIgnoresTimeout(c) ==
    /\ Dispatch("resume", c)
    /\ Return(c, "ok")
    /\ moduleQueue' = Tail(moduleQueue)
    /\ UNCHANGED <<op, cacheVars, awaitVars, eventVars, osVars, readerVars>>
AwaitSucceeds(c) ==
    /\ Dispatch("resume", c)
    /\ c \notin expired
    /\ Return(c, "ok")
    /\ moduleQueue' = Tail(moduleQueue)
    /\ UNCHANGED <<op, cacheVars, awaitVars, eventVars, osVars, readerVars>>

\* ... or it was cancelled: withTimeoutOrNull yields null and onFailure
\* clears the cache, whatever it holds by now.  The process is left running.
AwaitTimesOut(c) ==
    /\ Dispatch("resume", c)
    /\ c \in expired
    /\ ClearCache
    /\ Return(c, "PROCESS_DEFERRABLE_TIMED_OUT")
    /\ moduleQueue' = Tail(moduleQueue)
    /\ UNCHANGED <<op, awaitVars, eventVars, osVars, readerVars>>

\* StopProcessController without a cached process (isProcessRunning fails),
\* with an unreadable pid, or when killProcess throws.
StopFails(c) ==
    /\ Dispatch("call", c) /\ op[c] = "stop"
    /\ \/ ~IsProcessRunning /\ Return(c, "PROCESS_UNKNOWN")
       \/ IsProcessRunning /\ FALSE \in PidReads /\ Return(c, "INVALID_PID")
       \/ IsProcessRunning /\ TRUE \in PidReads /\ Return(c, "PROCESS_COULD_NOT_STOP")
    /\ moduleQueue' = Tail(moduleQueue)
    /\ UNCHANGED <<op, cacheVars, awaitVars, eventVars, osVars, readerVars>>

\* ... and when the process is killed and the cache cleared.
StopKills(c) ==
    /\ Dispatch("call", c) /\ op[c] = "stop"
    /\ IsProcessRunning
    /\ TRUE \in PidReads
    /\ StopProcess
    /\ ClearCache
    /\ Return(c, "ok")
    /\ moduleQueue' = Tail(moduleQueue)
    /\ UNCHANGED <<op, awaitVars, eventVars, out, readerVars>>

-----------------------------------------------------------------------------
(***************************************************************************)
(* The sslocal process, as the library sees it (external).                 *)
(***************************************************************************)

Prints(p, line) ==
    /\ os[p] = "alive"
    /\ Len(out[p]) < MaxLines
    /\ out' = [out EXCEPT ![p] = Append(@, line)]
    /\ UNCHANGED <<callVars, moduleQueue, cacheVars, awaitVars, eventVars, os, readerVars>>

Exits(p) ==
    /\ os[p] = "alive"
    /\ os' = [os EXCEPT ![p] = "exited"]
    /\ UNCHANGED <<callVars, moduleQueue, cacheVars, awaitVars, eventVars, out, readerVars>>

Dead(p) == os[p] \in {"exited", "killed"}

-----------------------------------------------------------------------------
(***************************************************************************)
(* The reader coroutine of StartProcessOutputReaderImpl.readLines.         *)
(***************************************************************************)

Post(k, p, where) ==
    /\ moduleQueue' = Append(moduleQueue, Task(k, p))
    /\ at' = [at EXCEPT ![p] = where]

\* lastKnownLine differs from the line the reader takes next.
LineChanged(p) == pos[p] = 0 \/ out[p][pos[p] + 1] # out[p][pos[p]]

\* readLine returns a line: report it, unless it repeats the previous one.
ReadLine(p) ==
    /\ at[p] = "reading"
    /\ pos[p] < Len(out[p])
    /\ IF LineChanged(p) THEN Post("output", p, "posted") ELSE Post("check", p, "checking")
    /\ pos' = [pos EXCEPT ![p] = @ + 1]
    /\ UNCHANGED <<callVars, cacheVars, awaitVars, eventVars, osVars>>

\* readLine returns null at the end of the stream.  Null differs from every
\* line, but not from the null lastKnownLine of a process that printed nothing.
ReadEof(p) ==
    /\ at[p] = "reading"
    /\ Dead(p)
    /\ pos[p] = Len(out[p])
    /\ IF pos[p] > 0 THEN Post("output", p, "postedEof") ELSE Post("check", p, "checking")
    /\ UNCHANGED <<callVars, cacheVars, awaitVars, eventVars, osVars, pos>>

\* readLine throws because the exit of the process closed the stream.
ReadThrows(p) ==
    /\ at[p] = "reading"
    /\ Dead(p)
    /\ at' = [at EXCEPT ![p] = "done"]
    /\ UNCHANGED <<callVars, moduleQueue, cacheVars, awaitVars, eventVars, osVars, pos>>

\* HandleProcessSuccessOutput: complete the deferrable that is cached now.
\* The first completion dispatches the continuation of its await.
CompleteUnchecked ==
    /\ completed' = completed \union {listeningOn}
    /\ moduleQueue' = Tail(moduleQueue)
HandleProcessSuccessOutput ==
    /\ completed' = completed \union ({listeningOn} \ {None})
    /\ moduleQueue' = IF listeningOn \in completed \union expired \union {None}
                      THEN Tail(moduleQueue)
                      ELSE Append(Tail(moduleQueue), Task("resume", listeningOn))

\* StartProcessOutputHandlerImpl.output for a line without meaning.
OutputOther(p) ==
    /\ Dispatch("output", p) /\ at[p] = "posted"
    /\ out[p][pos[p]] = "other"
    /\ at' = [at EXCEPT ![p] = "reported"]
    /\ moduleQueue' = Tail(moduleQueue)
    /\ UNCHANGED <<callVars, cacheVars, awaitVars, eventVars, osVars, pos>>

\* ... for "listening on".
OutputListening(p) ==
    /\ Dispatch("output", p) /\ at[p] = "posted"
    /\ out[p][pos[p]] = "listening on"
    /\ HandleProcessSuccessOutput
    /\ at' = [at EXCEPT ![p] = "reported"]
    /\ UNCHANGED <<callVars, cacheVars, expired, eventVars, osVars, pos>>

\* ... for "error": HandleProcessErrorOutput tells the event handler.  Reading
\* the lateinit property before it is assigned throws, which ends the reader.
HandleProcessErrorOutput(handler) == notified' = notified \union ({handler} \ {None})
OutputError(p) ==
    /\ Dispatch("output", p) /\ at[p] = "posted"
    /\ out[p][pos[p]] = "error"
    /\ LET handler == eventHandler[ReaderHandlerObject] IN
         /\ HandleProcessErrorOutput(handler)
         /\ at' = [at EXCEPT ![p] = IF handler = None THEN "done" ELSE "reported"]
    /\ moduleQueue' = Tail(moduleQueue)
    /\ UNCHANGED <<callVars, cacheVars, awaitVars, eventHandler, osVars, pos>>

\* ... for null, which is no String: the call throws and ends the reader.
OutputNull(p) ==
    /\ Dispatch("output", p) /\ at[p] = "postedEof"
    /\ at' = [at EXCEPT ![p] = "done"]
    /\ moduleQueue' = Tail(moduleQueue)
    /\ UNCHANGED <<callVars, cacheVars, awaitVars, eventVars, osVars, pos>>

\* Back on Dispatchers.IO, the reader asks the module thread to go on.
AskActive(p) ==
    /\ at[p] = "reported"
    /\ Post("check", p, "checking")
    /\ UNCHANGED <<callVars, cacheVars, awaitVars, eventVars, osVars, pos>>

\* active = cache.getProcess().isSuccess: is there any cached process?
ReaderAlwaysActive(p) == TRUE
ReaderActive(p) == KnownProcess

CheckActive(p) ==
    /\ Dispatch("check", p)
    /\ at' = [at EXCEPT ![p] = IF ReaderActive(p) THEN "reading" ELSE "done"]
    /\ moduleQueue' = Tail(moduleQueue)
    /\ UNCHANGED <<callVars, cacheVars, awaitVars, eventVars, osVars, pos>>

-----------------------------------------------------------------------------
(***************************************************************************)
(* The specification.                                                      *)
(***************************************************************************)

Client(c) == Callback(c) \/ \E f \in {"start", "stop"} : Call(c, f)

ModuleThread(c) ==
    \/ StartRejected(c)
    \/ \E spawned \in BOOLEAN : StartFails(c, spawned)
    \/ StartAwaits(c)
    \/ AwaitSucceeds(c)
    \/ AwaitTimesOut(c)
    \/ StopFails(c)
    \/ StopKills(c)
    \/ OutputOther(c)
    \/ OutputListening(c)
    \/ OutputError(c)
    \/ OutputNull(c)
    \/ CheckActive(c)

Reader(p) == ReadLine(p) \/ ReadEof(p) \/ ReadThrows(p) \/ AskActive(p)

Sslocal(p) == Exits(p) \/ \E line \in Lines : Prints(p, line)

Next == \E c \in Calls :
    Client(c) \/ ModuleThread(c) \/ Timeout(c) \/ Reader(c) \/ Sslocal(c)

\* The executor serves its queue, the timer thread its timers, the client's
\* dispatcher its callbacks and Dispatchers.IO the readers.  Nothing obliges
\* the client to call or the process to print or to exit.
Fairness ==
    /\ WF_vars(\E c \in Calls : ModuleThread(c))
    /\ \A c \in Calls : WF_vars(Timeout(c)) /\ WF_vars(Callback(c)) /\ WF_vars(Reader(c))

Spec == Init /\ [][Next]_vars
FairSpec == Spec /\ Fairness

-----------------------------------------------------------------------------
(***************************************************************************)
(* Correctness properties.                                                 *)
(***************************************************************************)

\* The cached deferrable is the one of the cached process: whoever completes
\* it reports the process the cache would stop.  CacheImpl sets and clears
\* the two fields in separate methods.
TrackedTogether == process = listeningOn

\* The start c has passed IsProcessStopped.
Admitted(c) ==
    /\ op[c] = "start"
    /\ pc[c] \in {"awaiting", "returned", "done"}
    /\ result[c] # "PROCESS_RUNNING_ALREADY"

\* A sslocal process that still runs but that no stop can reach any more was
\* lost in one of two ways: its own start failed after it was spawned, or
\* some start timed out and cleared the cache (WaitForProcessListeningOn-
\* Deferrable and getOrFail).  Neither stop nor a rejected or a second start
\* loses a running process; only where reading the pid may fail, so that
\* IsProcessStopped lets a second start through, may a later one replace it.
LeakOnlyThroughTimeout ==
    \A p \in Calls :
        os[p] = "alive" /\ p # process =>
            \/ result[p] = "PROCESS_COULD_NOT_START"
            \/ \E c \in Calls : result[c] = "PROCESS_DEFERRABLE_TIMED_OUT"
            \/ FALSE \in PidReads /\ \E c \in Calls \ {p} : Admitted(c)

\* A start that still waits although its deferrable left the cache (a stop
\* or another start's timeout cleared it) can only end by timing out: a late
\* "listening on" of its process never makes it succeed.
Abandoned(c) == pc[c] = "awaiting" /\ listeningOn # c /\ c \notin completed
AbandonedStartTimesOut ==
    [][\A c \in Calls : Abandoned(c) =>
            Abandoned(c)' \/ result'[c] = "PROCESS_DEFERRABLE_TIMED_OUT"]_vars

\* A start reports success only after some reader has taken a line with
\* "listening on" from a process.
SomeListening == \E p \in Calls : \E i \in 1..pos[p] : out[p][i] = "listening on"
StartSuccessNeedsListening ==
    \A c \in Calls :
        op[c] = "start" /\ result[c] = "ok" => SomeListening

\* Every call of start and stop gets its callback, whatever the process does
\* and however the calls overlap.
EveryCallReturns == \A c \in Calls : pc[c] = "queued" ~> pc[c] = "done"

\* Once no process is cached any more, the reader of a dead process ends; it
\* does not spin on the end of the stream.
DeadReadersEnd ==
    <>[](process = None) => \A p \in Calls : Dead(p) ~> at[p] \in {"none", "done"}

\* A client that waits for each callback sees start and stop as the atomic
\* operations of ObfuscatorContract: they take effect when their Result is
\* decided on the module thread.
Contract == INSTANCE ObfuscatorContract WITH
    running <- IF process # None /\ pc[process] = "awaiting" THEN None ELSE process,
    outcome <- result
ImplementsContract == Contract!Spec

(***************************************************************************)
(* Why the safety properties hold: the inductive invariant.                *)
(***************************************************************************)

\* A waiting task of the module thread matches the call it belongs to, and a
\* continuation is dispatched only after a completion or a timeout.
TasksMatchCalls ==
    \A i \in 1..Len(moduleQueue) :
        LET t == moduleQueue[i] IN
        /\ t.kind = "call" => pc[t.id] = "queued"
        /\ t.kind = "resume" => pc[t.id] = "awaiting" /\ t.id \in completed \union expired

\* The body of a call is queued once, and so is its continuation, although
\* a completion and a timeout may both try to dispatch it.
TasksOnce ==
    \A i, j \in 1..Len(moduleQueue) :
        moduleQueue[i] = moduleQueue[j] /\ moduleQueue[i].kind \in {"call", "resume"} => i = j

\* A cached deferrable that nobody has decided yet has a start waiting for it.
CachedDeferrableAwaited ==
    listeningOn \in Calls \ (completed \union expired) => pc[listeningOn] = "awaiting"

\* A call has no result before it returns, and no process before it runs.
CallProgress ==
    \A c \in Calls :
        /\ pc[c] \in {"idle", "queued", "awaiting"} => result[c] = "pending"
        /\ pc[c] \in {"idle", "queued"} => process # c

\* A reader never runs ahead of its process, a posted line has been read, and
\* a deferrable is completed only after a "listening on" has been read.
ReadersBehind ==
    /\ \A p \in Calls : pos[p] \in 0..Len(out[p]) /\ (at[p] = "posted" => pos[p] > 0)
    /\ completed # {} => SomeListening

\* The parts together, an inductive invariant: the executor's queue, the calls,
\* the cache and the readers stay in step.
SupervisorInv ==
    /\ TypeOK
    /\ TasksMatchCalls
    /\ TasksOnce
    /\ CachedDeferrableAwaited
    /\ CallProgress
    /\ ReadersBehind
    /\ TrackedTogether

(***************************************************************************)
(* What comments and documentation say and the code does not do.           *)
(***************************************************************************)

\* ObfuscatorProcessEventHandler: once a reader has handed over an error line
\* of the process, the client's event handler has been told.
ErrorLineReachesHandler ==
    \A p \in Calls :
        pos[p] > 0 /\ at[p] # "posted" /\ out[p][pos[p]] = "error" => notified # {}

\* ObfuscatorErrorCode.PROCESS_RUNNING_ALREADY is returned by a start only
\* when a process is running.
RejectedOnlyWhileRunning ==
    [][\A c \in Calls :
          result'[c] = "PROCESS_RUNNING_ALREADY" /\ result[c] = "pending" =>
              os[process] = "alive"]_vars

=============================================================================
