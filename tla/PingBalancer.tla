---------------------------- MODULE PingBalancer ----------------------------
(***************************************************************************)
(* The load balancer of sslocal (local/loadbalancing): the servers of the  *)
(* configuration, a score for each of them and for each protocol, the two  *)
(* checkers that probe the servers and move the best index, and the        *)
(* replacement of the whole context when the configuration is reloaded.    *)
(*                                                                         *)
(* The Android build runs on one thread: between two awaits a task is      *)
(* alone.  The awaits are the sleeps, the probes and the dials.            *)
(***************************************************************************)
EXTENDS Naturals, Sequences, FiniteSets

CONSTANTS
    Mode,        \* the protocols the local side serves, of {"tcp", "udp"}
    Configs,     \* server lists: a server is the inverse of its weight for each
                 \* protocol, 0 for one it does not serve
    CheckBest,   \* is check_best_interval configured?
    WarmUp,      \* EXPECTED_CHECK_POINTS_IN_CHECK_WINDOW
    Window,      \* bound: results kept in the check window
    Fifth,       \* a fifth of the score of a server that never answered
    LatencyParts, \* contributions of the latencies, within 0 .. 2 * Fifth
    MaxScore,    \* u32::MAX
    MaxReloads,  \* bound: reloads of the configuration
    MaxFlips,    \* bound: how often a server goes down or comes back
    None         \* no context

ASSUME ModeAssumption   == Mode \subseteq {"tcp", "udp"}
ASSUME ConfigAssumption == Configs \subseteq Seq([Mode -> Nat])
ASSUME BoundAssumption  ==
    /\ Fifth \in Nat \ {0} /\ LatencyParts \subseteq 0 .. 2 * Fifth /\ 5 * Fifth < MaxScore
    /\ WarmUp \in Nat /\ Window \in Nat \ {0} /\ MaxScore \in Nat
    /\ MaxReloads \in Nat /\ MaxFlips \in Nat /\ CheckBest \in BOOLEAN

Indices == UNION {DOMAIN servers : servers \in Configs}

VARIABLES
    current,    \* the context connections use
    building,   \* the context of a reload, while its servers are probed
    reloads,
    down,       \* indices of the servers that do not answer
    flips

vars == <<current, building, reloads, down, flips>>

-----------------------------------------------------------------------------
(***************************************************************************)
(* Scores.  A score is (rtt + 3 * fail_rate + stdev) / 5, with rtt and     *)
(* stdev between 0 and 1: the latencies contribute at most 2 fifths, the   *)
(* failures up to 3.  A fifth is Fifth units, and what the latencies       *)
(* contribute is chosen freely from LatencyParts.  The weight of the       *)
(* server divides the score, and the conversion to u32 saturates.          *)
(***************************************************************************)

Servers(ctx) == DOMAIN ctx.servers
Enabled(servers, t) == {i \in DOMAIN servers : servers[i][t] > 0}
Probes(servers, types) == {p \in (DOMAIN servers) \X types : p[1] \in Enabled(servers, p[2])}

Errors(queue) == Cardinality({k \in DOMAIN queue : queue[k] = "errored"})

\* Mutant of Scores: errors do not count.
LatencyOnly(queue) == LatencyParts

Scores(queue) ==
    {(3 * Fifth * Errors(queue)) \div Len(queue) + part : part \in LatencyParts}

\* A server that does not serve a protocol has weight zero for it, which is
\* taken for f32::EPSILON, or any weight and a mode without it.
Inverses(inverse) == IF inverse = 0 THEN {1, MaxScore} ELSE {inverse}

Weighted(score, inverse) ==
    IF score * inverse < MaxScore THEN score * inverse ELSE MaxScore

\* Mutant of Pushed: no result ever leaves the window.
PushedForever(queue, result) == {Append(queue, result)}

\* What is left in the check window once result is pushed: older results leave
\* it from the front.
Pushed(queue, result) ==
    LET q == Append(queue, result)
    IN  {SubSeq(q, k, Len(q)) : k \in {k \in 1 .. Len(q) : Len(q) - k < Window}}

SetQueue(ctx, i, t, queue) == [ctx EXCEPT !.queue[i][t] = queue]
SetScore(ctx, i, t, score) == [ctx EXCEPT !.score[i][t] = score]

\* push_score, for the server i and the protocol t.
PushScore(ctx, i, t, result) ==
    UNION {{SetScore(SetQueue(ctx, i, t, q), i, t, Weighted(score, inverse)) :
                score \in Scores(q), inverse \in Inverses(ctx.servers[i][t])} :
           q \in Pushed(ctx.queue[i][t], result)}

-----------------------------------------------------------------------------
(***************************************************************************)
(* Choosing.                                                               *)
(***************************************************************************)

First(S) == CHOOSE i \in S : \A j \in S : i <= j

\* Mutant of FindBest: the first server, whatever it serves.
FindFirst(servers, t) == 1

\* find_best_idx: the first server that serves t, or the first of all.
FindBest(servers, t) ==
    IF Enabled(servers, t) = {} THEN 1 ELSE First(Enabled(servers, t))

\* The first of the lowest scores below u32::MAX, or the first of all.
Best(ctx, t) ==
    LET scored == {i \in Servers(ctx) : ctx.score[i][t] < MaxScore}
    IN  IF scored = {} THEN 1
        ELSE First({i \in scored : \A j \in scored : ctx.score[i][t] <= ctx.score[j][t]})

Choose(ctx, types) ==
    [ctx EXCEPT !.best = [t \in Mode |-> IF t \in types THEN Best(ctx, t) ELSE ctx.best[t]]]

-----------------------------------------------------------------------------
(***************************************************************************)
(* Contexts.                                                               *)
(***************************************************************************)

\* The protocols check_once chooses for: those more than one server serves.
Contested(servers) == {t \in Mode : Cardinality(Enabled(servers, t)) > 1}

\* checker_task_all_servers and checker_task_best_server.
Tasks == {"all", "favoured"}
SetTask(ctx, c, task) == [ctx EXCEPT !.task[c] = task]

Idle == [at |-> "sleep", types |-> {}, pending |-> {}]

\* check_once probes every server of the contested protocols.
CheckOnce(ctx) ==
    [at |-> "probe", types |-> Contested(ctx.servers),
     pending |-> Probes(ctx.servers, Contested(ctx.servers))]

\* Mutant of CheckBestServer: the best server is probed for every protocol,
\* whatever it serves.
CheckBestForAll(ctx) ==
    [at |-> "probe", types |-> Mode, pending |-> {<<ctx.best[t], t>> : t \in Mode}]

\* check_best_server probes the best server of every protocol it serves.
CheckBestServer(ctx) ==
    LET types == {t \in Mode : ctx.best[t] \in Enabled(ctx.servers, t)}
    IN  [at |-> "probe", types |-> types, pending |-> {<<ctx.best[t], t>> : t \in types}]

\* PingBalancerContext::new, up to the first probes of init_score.
NewContext(servers) ==
    LET ctx == [servers |-> servers,
                queue   |-> [i \in DOMAIN servers |-> [t \in Mode |-> <<>>]],
                score   |-> [i \in DOMAIN servers |-> [t \in Mode |-> MaxScore]],
                best    |-> [t \in Mode |-> FindBest(servers, t)],
                task    |-> [c \in Tasks |-> IF c = "all" THEN Idle ELSE [Idle EXCEPT !.at = "wait"]],
                count   |-> 0,
                dialing |-> {}]
    IN  SetTask(ctx, "all", CheckOnce(ctx))

Init ==
    /\ current = None
    /\ \E servers \in Configs : building = NewContext(servers)
    /\ reloads = 0
    /\ down \in SUBSET Indices
    /\ flips = 0

\* A probe by the checker named c of a context: the answer or the error of
\* check_delay is pushed to the score of the server probed.
Probed(ctx, c, p) ==
    {SetTask(x, c, [x.task[c] EXCEPT !.pending = @ \ {p}]) :
        x \in PushScore(ctx, p[1], p[2], IF p[1] \in down THEN "errored" ELSE "latency")}

-----------------------------------------------------------------------------
(***************************************************************************)
(* Building a context: at start, and in reset_servers.                     *)
(***************************************************************************)

reset_servers ==
    /\ current # None /\ building = None
    /\ reloads < MaxReloads
    /\ reloads' = reloads + 1
    /\ \E servers \in Configs : building' = NewContext(servers)
    /\ UNCHANGED <<current, down, flips>>

\* A plugin of the new context does not start: the old context stays.
BuildFails ==
    /\ current # None /\ building # None
    /\ building' = None
    /\ UNCHANGED <<current, reloads, down, flips>>

InitProbe ==
    /\ building # None
    /\ \E p \in building.task["all"].pending : building' \in Probed(building, "all", p)
    /\ UNCHANGED <<current, reloads, down, flips>>

\* All probes of init_score have ended: choose, spawn the checkers of the new
\* context, abort those of the old one, store the new context.
Swap ==
    /\ building # None
    /\ building.task["all"].pending = {}
    /\ current' = SetTask(Choose(building, building.task["all"].types), "all", Idle)
    /\ building' = None
    /\ UNCHANGED <<reloads, down, flips>>

-----------------------------------------------------------------------------
(***************************************************************************)
(* The checkers of the current context.                                    *)
(***************************************************************************)

\* checker_task_dummy never probes.
ProbingRequired == current # None /\ Contested(current.servers) # {}

StartCheckAll ==
    /\ ProbingRequired
    /\ current.task["all"].at = "sleep"
    /\ current' = SetTask(current, "all", CheckOnce(current))
    /\ UNCHANGED <<building, reloads, down, flips>>

StartCheckBest ==
    /\ ProbingRequired
    /\ CheckBest
    /\ current.task["favoured"].at = "sleep"
    /\ current' = SetTask(current, "favoured", CheckBestServer(current))
    /\ UNCHANGED <<building, reloads, down, flips>>

Probe(c) ==
    /\ current # None
    /\ \E p \in current.task[c].pending : current' \in Probed(current, c, p)
    /\ UNCHANGED <<building, reloads, down, flips>>

\* Mutant of Notified: nobody wakes the checker of the best server.
Unnotified(ctx) == ctx

\* best_task_notify.notify_one: the checker of the best server goes to sleep.
Notified(ctx) == SetTask(ctx, "favoured", [ctx.task["favoured"] EXCEPT !.at = "sleep"])

\* checker_task_all_servers: after the first WarmUp checks of all servers it
\* wakes the checker of the best one.
EndCheckAll ==
    /\ current # None
    /\ current.task["all"].at = "probe" /\ current.task["all"].pending = {}
    /\ LET chosen  == SetTask(Choose(current, current.task["all"].types), "all", Idle)
           warming == CheckBest /\ current.count < WarmUp
           counted == [chosen EXCEPT !.count = @ + 1]
       IN  current' = IF ~warming THEN chosen
                      ELSE IF counted.count = WarmUp THEN Notified(counted) ELSE counted
    /\ UNCHANGED <<building, reloads, down, flips>>

EndCheckBest ==
    /\ current # None
    /\ current.task["favoured"].at = "probe" /\ current.task["favoured"].pending = {}
    /\ current' = SetTask(Choose(current, current.task["favoured"].types), "favoured", Idle)
    /\ UNCHANGED <<building, reloads, down, flips>>

-----------------------------------------------------------------------------
(***************************************************************************)
(* Connections.  A dial takes the best TCP server; it may fail long after  *)
(* another has become the best.                                            *)
(***************************************************************************)

Dial ==
    /\ current # None /\ "tcp" \in Mode
    /\ current.servers # <<>>
    /\ current' = [current EXCEPT !.dialing = @ \union {current.best["tcp"]}]
    /\ UNCHANGED <<building, reloads, down, flips>>

DialEnds(i) ==
    /\ current # None
    /\ i \in current.dialing
    /\ LET ended == [current EXCEPT !.dialing = @ \ {i}]
       IN  IF i \in down THEN current' \in PushScore(ended, i, "tcp", "errored")
           ELSE current' = ended
    /\ UNCHANGED <<building, reloads, down, flips>>

\* A server goes down or comes back.
Flip(i) ==
    /\ flips < MaxFlips
    /\ flips' = flips + 1
    /\ down' = IF i \in down THEN down \ {i} ELSE down \union {i}
    /\ UNCHANGED <<current, building, reloads>>

Next ==
    \/ reset_servers \/ BuildFails \/ InitProbe \/ Swap
    \/ StartCheckAll \/ StartCheckBest \/ Probe("all") \/ Probe("favoured")
    \/ EndCheckAll \/ EndCheckBest
    \/ Dial \/ \E i \in Indices : DialEnds(i) \/ Flip(i)

Spec == Init /\ [][Next]_vars

\* Sleeps end, a probe ends by the timeout max_server_rtt at the latest, and
\* the runtime polls every task that can go on.
Checking ==
    /\ WF_vars(InitProbe) /\ WF_vars(Swap)
    /\ WF_vars(StartCheckAll) /\ WF_vars(Probe("all")) /\ WF_vars(EndCheckAll)
    /\ WF_vars(StartCheckBest) /\ WF_vars(Probe("favoured")) /\ WF_vars(EndCheckBest)

FairSpec == Spec /\ Checking

-----------------------------------------------------------------------------
(***************************************************************************)
(* Properties.                                                             *)
(***************************************************************************)

Checkers == [at : {"wait", "sleep", "probe"}, types : SUBSET Mode,
             pending : SUBSET (Indices \X Mode)]

Queues == {queue \in Seq({"errored", "latency"}) : Len(queue) <= Window}

Contexts(servers) ==
    [servers : {servers},
     queue   : [DOMAIN servers -> [Mode -> Queues]],
     score   : [DOMAIN servers -> [Mode -> 0 .. MaxScore]],
     best    : [Mode -> Indices \union {1}],
     task    : [Tasks -> Checkers],
     count   : 0 .. WarmUp,
     dialing : SUBSET {i \in DOMAIN servers : "tcp" \in Mode}]

ContextOK(ctx) == ctx.servers \in Configs /\ ctx \in Contexts(ctx.servers)

TypeOK ==
    /\ current # None => ContextOK(current)
    /\ building # None => ContextOK(building)
    /\ reloads \in 0 .. MaxReloads
    /\ down \subseteq Indices
    /\ flips \in 0 .. MaxFlips

\* The weight of the server keeps its score below the value that check_once
\* takes for unscored.
Scorable(servers, i, t) == Weighted(5 * Fifth, servers[i][t]) < MaxScore

\* The server a connection is given exists and serves its protocol, if any
\* does whose score cannot saturate: a server that does not serve it is never
\* scored into the first place, not even by the failed dials of
\* connect_proxied, and servers of tiny weights do not stand in its way.
BestIsUsable ==
    current # None /\ current.servers # <<>> =>
        \A t \in Mode : LET enabled == Enabled(current.servers, t) IN
            /\ current.best[t] \in Servers(current)
            /\ (\E i \in enabled : Scorable(current.servers, i, t)) => current.best[t] \in enabled

\* The inductive invariant behind it, for the context in use and the one that
\* is built: only servers of a protocol are probed and, as long as one of them
\* can be scored, chosen, dialled and scored; and when a checker chooses, such
\* a server has a score.
Usable(servers, t) == \E i \in Enabled(servers, t) : Scorable(servers, i, t)

HasScore(ctx, i, t) ==
    i \in Enabled(ctx.servers, t) /\ Scorable(ctx.servers, i, t) /\ ctx.score[i][t] < MaxScore

ProbesEnabled(ctx) ==
    \A c \in Tasks : \A p \in ctx.task[c].pending :
        p \in Servers(ctx) \X Mode /\ p[1] \in Enabled(ctx.servers, p[2])

BestExists(ctx) == ctx.servers # <<>> => \A t \in Mode : ctx.best[t] \in Servers(ctx)

OnlyEnabled(ctx) ==
    \A t \in Mode : Usable(ctx.servers, t) =>
        /\ ctx.best[t] \in Enabled(ctx.servers, t)
        /\ t = "tcp" => ctx.dialing \subseteq Enabled(ctx.servers, t)
        /\ \A i \in Servers(ctx) \ Enabled(ctx.servers, t) : ctx.score[i][t] = MaxScore

WillBeScored(ctx) ==
    \A c \in Tasks : \A t \in ctx.task[c].types : Usable(ctx.servers, t) =>
        \E i \in Enabled(ctx.servers, t) :
            /\ Scorable(ctx.servers, i, t)
            /\ <<i, t>> \in ctx.task[c].pending \/ ctx.score[i][t] < MaxScore

ContextInv(ctx) ==
    ContextOK(ctx) /\ ProbesEnabled(ctx) /\ BestExists(ctx) /\ OnlyEnabled(ctx) /\ WillBeScored(ctx)

\* In the context in use the best server can be scored, or another one has been.
ScoredOnce(ctx) ==
    \A t \in Mode : Usable(ctx.servers, t) =>
        Scorable(ctx.servers, ctx.best[t], t) \/ \E i \in Servers(ctx) : HasScore(ctx, i, t)

\* The inductive invariant: scores, queues and checkers of the context in use
\* and of the one a reload builds fit their servers, and probe only those that
\* serve the protocol (check_best_server, probing_required).
BalancerInv ==
    /\ TypeOK
    /\ current # None => ContextInv(current) /\ ScoredOnce(current)
    /\ building # None =>
          /\ ContextInv(building)
          /\ building.task["all"].types = Contested(building.servers)

\* Once servers stop going down and coming back, the balancer settles on a
\* server that answers, for every protocol of which there is a choice and
\* whose weights do not outdo the failures.
Outdone(servers, t) ==
    \E i, j \in Enabled(servers, t), p, q \in LatencyParts :
        Weighted(3 * Fifth + p, servers[i][t]) <= Weighted(q, servers[j][t])

Failover ==
    <>[](current # None /\
         \A t \in {t \in Contested(current.servers) : ~Outdone(current.servers, t)} :
             Enabled(current.servers, t) \subseteq down \/ current.best[t] \notin down)

\* The checker of the best server is woken in the last context, if that one
\* probes at all, whatever contexts were there before it.
BestCheckerWakes ==
    CheckBest => <>[](ProbingRequired => current.task["favoured"].at # "wait")
=============================================================================
