------------------------- MODULE PingBalancerProofs -------------------------
(***************************************************************************)
(* The balancer never hands out a server that does not carry the protocol, *)
(* for every list of servers, every weight and any order of probes, dials  *)
(* and reloads.                                                            *)
(***************************************************************************)
EXTENDS PingBalancer, FiniteSetTheorems, WellFoundedInduction, TLAPS

LEMMA Bounds ==
    /\ Fifth \in Nat \ {0} /\ LatencyParts \subseteq 0 .. 2 * Fifth /\ 5 * Fifth < MaxScore
    /\ WarmUp \in Nat /\ Window \in Nat \ {0} /\ MaxScore \in Nat
    /\ MaxReloads \in Nat /\ MaxFlips \in Nat /\ CheckBest \in BOOLEAN
BY BoundAssumption

LEMMA ServerLists ==
    ASSUME NEW servers \in Configs
    PROVE  /\ servers \in Seq([Mode -> Nat]) /\ Len(servers) \in Nat
           /\ DOMAIN servers = 1 .. Len(servers) /\ DOMAIN servers \subseteq Indices
           /\ servers # <<>> => 1 \in DOMAIN servers
           /\ \A i \in DOMAIN servers, t \in Mode : servers[i][t] \in Nat
<1>1. servers \in Seq([Mode -> Nat]) /\ Len(servers) \in Nat /\ DOMAIN servers = 1 .. Len(servers)
    BY ConfigAssumption
<1>2. DOMAIN servers \subseteq Indices
    BY DEF Indices
<1>3. servers # <<>> => 1 \in DOMAIN servers
    BY <1>1
<1>4. \A i \in DOMAIN servers, t \in Mode : servers[i][t] \in Nat
    BY <1>1
<1> QED
    BY <1>1, <1>2, <1>3, <1>4

-----------------------------------------------------------------------------
(***************************************************************************)
(* Scores.                                                                 *)
(***************************************************************************)

LEMMA ErrorsBound ==
    ASSUME NEW queue \in Seq({"errored", "latency"})
    PROVE  Errors(queue) \in 0 .. Len(queue)
<1> DEFINE E == {k \in DOMAIN queue : queue[k] = "errored"}
<1>1. DOMAIN queue = 1 .. Len(queue) /\ Len(queue) \in Nat
    OBVIOUS
<1>2. IsFiniteSet(1 .. Len(queue)) /\ Cardinality(1 .. Len(queue)) = Len(queue)
    BY <1>1, FS_Interval
<1>3. E \in SUBSET (1 .. Len(queue))
    BY <1>1
<1> HIDE DEF E
<1>4. IsFiniteSet(E) /\ Cardinality(E) <= Cardinality(1 .. Len(queue))
    BY <1>2, <1>3, FS_Subset
<1>5. Cardinality(E) \in Nat
    BY <1>4, FS_CardinalityType
<1>6. Cardinality(E) \in 0 .. Len(queue)
    BY <1>1, <1>2, <1>4, <1>5
<1> QED
    BY <1>6 DEF E, Errors

\* A share of a whole is not more than the whole.
LEMMA Share ==
    ASSUME NEW a \in Nat, NEW n \in Nat \ {0}, NEW e \in 0 .. n
    PROVE  (a * e) \div n \in 0 .. a
<1>1. a * e \in Nat /\ a * n \in Nat /\ a * e <= a * n
    <2>1. a * (n - e) \in Nat
        <3> DEFINE m == n - e
        <3>1. m \in Nat
            OBVIOUS
        <3> HIDE DEF m
        <3>2. a * m \in Nat
            BY <3>1
        <3> QED
            BY <3>2 DEF m
    <2>2. a * (n - e) = a * n - a * e
        OBVIOUS
    <2>3. a * e \in Nat /\ a * n \in Nat
        OBVIOUS
    <2> QED
        BY <2>1, <2>2, <2>3
<1> DEFINE q == (a * e) \div n
<1>2. q \in Nat /\ q * n <= a * e
    BY <1>1
<1> HIDE DEF q
<1>3. q * n <= a * n
    BY <1>1, <1>2
<1>4. q <= a
    <2> SUFFICES ASSUME q >= a + 1 PROVE FALSE
        BY <1>2
    <2>1. q * n >= (a + 1) * n
        BY <1>2
    <2>2. (a + 1) * n = a * n + n
        OBVIOUS
    <2> QED
        BY <1>1, <1>2, <1>3, <2>1, <2>2
<1> QED
    BY <1>2, <1>4 DEF q

LEMMA ScoreBound ==
    ASSUME NEW queue \in Seq({"errored", "latency"}), queue # <<>>, NEW score \in Scores(queue)
    PROVE  score \in 0 .. 5 * Fifth
<1>1. PICK part \in LatencyParts : score = (3 * Fifth * Errors(queue)) \div Len(queue) + part
    BY DEF Scores
<1>2. Len(queue) \in Nat \ {0} /\ Errors(queue) \in 0 .. Len(queue)
    BY ErrorsBound
<1>3. part \in 0 .. 2 * Fifth /\ Fifth \in Nat
    BY Bounds
<1> DEFINE a == 3 * Fifth
<1>4. a \in Nat
    BY <1>3
<1> HIDE DEF a
<1>5. (a * Errors(queue)) \div Len(queue) \in 0 .. a
    BY <1>2, <1>4, Share
<1>6. score = (a * Errors(queue)) \div Len(queue) + part
    BY <1>1 DEF a
<1>7. score \in 0 .. a + 2 * Fifth
    BY <1>3, <1>4, <1>5, <1>6
<1> QED
    BY <1>3, <1>7 DEF a

LEMMA WeightedType ==
    ASSUME NEW score \in Nat, NEW inverse \in Nat
    PROVE  Weighted(score, inverse) \in 0 .. MaxScore
<1>1. score * inverse \in Nat
    OBVIOUS
<1> QED
    BY <1>1, Bounds DEF Weighted

\* A server whose worst score does not saturate is always scored.
LEMMA WeightedBelow ==
    ASSUME NEW score \in 0 .. 5 * Fifth, NEW inverse \in Nat, Weighted(5 * Fifth, inverse) < MaxScore
    PROVE  Weighted(score, inverse) < MaxScore
<1> DEFINE w == 5 * Fifth
<1>1. w \in Nat /\ score \in Nat /\ score <= w /\ MaxScore \in Nat
    BY Bounds
<1>2. w * inverse < MaxScore
    BY Bounds DEF Weighted
<1> HIDE DEF w
<1>3. score * inverse \in Nat /\ score * inverse <= w * inverse
    BY <1>1
<1>4. w * inverse \in Nat
    BY <1>1
<1>5. score * inverse < MaxScore
    BY <1>1, <1>2, <1>3, <1>4
<1> QED
    BY <1>5 DEF Weighted

\* What is pushed to a queue: never empty, and never longer than the window.
LEMMA PushedType ==
    ASSUME NEW queue \in Queues, NEW result \in {"errored", "latency"}, NEW q \in Pushed(queue, result)
    PROVE  q \in Queues /\ q # <<>>
<1> DEFINE a == Append(queue, result)
<1>1. a \in Seq({"errored", "latency"}) /\ Len(a) \in Nat
    BY DEF Queues
<1>2. PICK k \in 1 .. Len(a) : Len(a) - k < Window /\ q = SubSeq(a, k, Len(a))
    BY DEF Pushed
<1> HIDE DEF a
<1>3. q \in Seq({"errored", "latency"}) /\ Len(q) = Len(a) - k + 1
    BY <1>1, <1>2
<1>4. Len(q) \in Nat \ {0} /\ Len(q) <= Window
    BY <1>1, <1>2, <1>3, Bounds
<1> QED
    BY <1>3, <1>4 DEF Queues

-----------------------------------------------------------------------------
(***************************************************************************)
(* Choosing.                                                               *)
(***************************************************************************)

LEMMA HasLeast ==
    ASSUME NEW S \in SUBSET Nat, S # {}
    PROVE  \E m \in S : \A n \in S : m <= n
<1>1. PICK m \in S : \A n \in S : ~(<<n, m>> \in OpToRel(<, Nat))
    BY NatLessThanWellFounded, WFMin
<1>2. ASSUME NEW n \in S PROVE m <= n
    <2>1. m \in Nat /\ n \in Nat /\ ~(<<n, m>> \in OpToRel(<, Nat))
        BY <1>1, <1>2
    <2>2. ~(n < m)
        BY <2>1 DEF OpToRel
    <2>3. m \in Nat /\ n \in Nat
        BY <2>1
    <2> QED
        BY <2>2, <2>3
<1> QED
    BY <1>2

LEMMA FirstIn ==
    ASSUME NEW S \in SUBSET Nat, S # {}
    PROVE  First(S) \in S
BY HasLeast DEF First

LEMMA EnabledServers ==
    ASSUME NEW servers \in Configs, NEW t \in Mode
    PROVE  /\ Enabled(servers, t) \in SUBSET (DOMAIN servers)
           /\ Enabled(servers, t) \in SUBSET Nat
           /\ \A i \in Enabled(servers, t) : servers[i][t] \in Nat \ {0}
           /\ IsFiniteSet(Enabled(servers, t))
<1>1. /\ Enabled(servers, t) \in SUBSET (1 .. Len(servers)) /\ Len(servers) \in Nat
      /\ \A i \in Enabled(servers, t) : servers[i][t] \in Nat \ {0}
    BY ServerLists DEF Enabled
<1>2. IsFiniteSet(1 .. Len(servers))
    BY <1>1, FS_Interval
<1>3. IsFiniteSet(Enabled(servers, t))
    BY <1>1, <1>2, FS_Subset
<1> QED
    BY <1>1, <1>3, ServerLists

LEMMA FindBestFacts ==
    ASSUME NEW servers \in Configs, NEW t \in Mode
    PROVE  /\ FindBest(servers, t) \in Indices \union {1}
           /\ servers # <<>> => FindBest(servers, t) \in DOMAIN servers
           /\ Enabled(servers, t) # {} => FindBest(servers, t) \in Enabled(servers, t)
<1>1. CASE Enabled(servers, t) = {}
    BY <1>1, ServerLists DEF FindBest
<1>2. CASE Enabled(servers, t) # {}
    <2>1. First(Enabled(servers, t)) \in Enabled(servers, t)
        BY <1>2, EnabledServers, FirstIn
    <2> QED
        BY <1>2, <2>1, EnabledServers, ServerLists DEF FindBest
<1> QED
    BY <1>1, <1>2

\* The best of the scored servers is one of them.
LEMMA BestFacts ==
    ASSUME NEW ctx, ContextOK(ctx), NEW t \in Mode
    PROVE  /\ Best(ctx, t) \in Indices \union {1}
           /\ ctx.servers # <<>> => Best(ctx, t) \in Servers(ctx)
           /\ (\E i \in Servers(ctx) : ctx.score[i][t] < MaxScore) =>
                 Best(ctx, t) \in Servers(ctx) /\ ctx.score[Best(ctx, t)][t] < MaxScore
<1> DEFINE scored == {i \in Servers(ctx) : ctx.score[i][t] < MaxScore}
           lowest == {i \in scored : \A j \in scored : ctx.score[i][t] <= ctx.score[j][t]}
<1>1. /\ ctx.servers \in Configs /\ \A i \in Servers(ctx) : ctx.score[i][t] \in Nat
      /\ Servers(ctx) \in SUBSET Nat /\ Servers(ctx) \subseteq Indices
    BY ServerLists, Bounds DEF ContextOK, Contexts, Servers
<1>2. CASE scored = {}
    BY <1>1, <1>2, ServerLists DEF Best, Servers
<1>3. CASE scored # {}
    <2> DEFINE values == {ctx.score[i][t] : i \in scored}
    <2>1. values \in SUBSET Nat /\ values # {}
        BY <1>1, <1>3
    <2>2. PICK m \in values : \A n \in values : m <= n
        BY <2>1, HasLeast
    <2>3. lowest # {}
        BY <2>2
    <2>4. lowest \in SUBSET Nat
        BY <1>1
    <2>5. First(lowest) \in lowest
        BY <2>3, <2>4, FirstIn
    <2>6. Best(ctx, t) = First(lowest)
        BY <1>3 DEF Best
    <2> QED
        BY <1>1, <2>5, <2>6
<1> QED
    BY <1>2, <1>3

-----------------------------------------------------------------------------
(***************************************************************************)
(* Operations on a context: what each one changes.                         *)
(***************************************************************************)

LEMMA ContextFields ==
    ASSUME NEW ctx, ContextOK(ctx)
    PROVE  /\ ctx.servers \in Configs /\ Servers(ctx) = DOMAIN ctx.servers
           /\ ctx.queue \in [Servers(ctx) -> [Mode -> Queues]]
           /\ ctx.score \in [Servers(ctx) -> [Mode -> 0 .. MaxScore]]
           /\ ctx.best \in [Mode -> Indices \union {1}]
           /\ ctx.task \in [Tasks -> Checkers]
           /\ ctx.count \in 0 .. WarmUp
           /\ ctx.dialing \in SUBSET Servers(ctx)
           /\ ctx.dialing # {} => "tcp" \in Mode
BY DEF ContextOK, Contexts, Servers

LEMMA SetQueueFacts ==
    ASSUME NEW ctx, ContextOK(ctx), NEW i \in Servers(ctx), NEW t \in Mode, NEW q \in Queues
    PROVE  LET x == SetQueue(ctx, i, t, q) IN
           /\ ContextOK(x)
           /\ x.servers = ctx.servers /\ x.score = ctx.score /\ x.best = ctx.best /\ x.task = ctx.task
           /\ x.count = ctx.count /\ x.dialing = ctx.dialing
BY DEF ContextOK, Contexts, Servers, SetQueue

LEMMA SetScoreFacts ==
    ASSUME NEW ctx, ContextOK(ctx), NEW i \in Servers(ctx), NEW t \in Mode, NEW w \in 0 .. MaxScore
    PROVE  LET x == SetScore(ctx, i, t, w) IN
           /\ ContextOK(x)
           /\ x.servers = ctx.servers /\ x.best = ctx.best /\ x.task = ctx.task
           /\ x.count = ctx.count /\ x.dialing = ctx.dialing
           /\ \A j \in Servers(ctx), u \in Mode :
                 x.score[j][u] = IF j = i /\ u = t THEN w ELSE ctx.score[j][u]
BY DEF ContextOK, Contexts, Servers, SetScore

LEMMA SetTaskFacts ==
    ASSUME NEW ctx, ContextOK(ctx), NEW c \in Tasks, NEW task \in Checkers
    PROVE  LET x == SetTask(ctx, c, task) IN
           /\ ContextOK(x)
           /\ x.servers = ctx.servers /\ x.best = ctx.best /\ x.score = ctx.score
           /\ x.count = ctx.count /\ x.dialing = ctx.dialing
           /\ \A b \in Tasks : x.task[b] = IF b = c THEN task ELSE ctx.task[b]
BY DEF ContextOK, Contexts, Servers, SetTask

LEMMA ChooseFacts ==
    ASSUME NEW ctx, ContextOK(ctx), NEW types \in SUBSET Mode
    PROVE  LET x == Choose(ctx, types) IN
           /\ ContextOK(x)
           /\ x.servers = ctx.servers /\ x.score = ctx.score /\ x.task = ctx.task
           /\ x.count = ctx.count /\ x.dialing = ctx.dialing
           /\ \A t \in Mode : x.best[t] = IF t \in types THEN Best(ctx, t) ELSE ctx.best[t]
<1> DEFINE best == [t \in Mode |-> IF t \in types THEN Best(ctx, t) ELSE ctx.best[t]]
<1>1. best \in [Mode -> Indices \union {1}]
    BY BestFacts, ContextFields
<1> HIDE DEF best
<1>2. Choose(ctx, types) = [ctx EXCEPT !.best = best]
    BY DEF Choose, best
<1>3. /\ ContextOK(Choose(ctx, types))
      /\ Choose(ctx, types).best = best
      /\ LET x == Choose(ctx, types) IN
           /\ x.servers = ctx.servers /\ x.score = ctx.score /\ x.task = ctx.task
           /\ x.count = ctx.count /\ x.dialing = ctx.dialing
    BY <1>1, <1>2 DEF ContextOK, Contexts
<1> QED
    BY <1>3 DEF best

\* What push_score changes: one queue and one score, which is below the value
\* of an unscored server if the server can be scored.
LEMMA PushFacts ==
    ASSUME NEW ctx, ContextOK(ctx), NEW i \in Servers(ctx), NEW t \in Mode,
           NEW result \in {"errored", "latency"}, NEW x \in PushScore(ctx, i, t, result)
    PROVE  /\ ContextOK(x)
           /\ x.servers = ctx.servers /\ x.best = ctx.best /\ x.task = ctx.task
           /\ x.count = ctx.count /\ x.dialing = ctx.dialing
           /\ \A j \in Servers(ctx), u \in Mode : j # i \/ u # t => x.score[j][u] = ctx.score[j][u]
           /\ i \in Enabled(ctx.servers, t) /\ Scorable(ctx.servers, i, t) => x.score[i][t] < MaxScore
<1>0. PICK q \in Pushed(ctx.queue[i][t], result) :
          x \in {SetScore(SetQueue(ctx, i, t, q), i, t, Weighted(score, inverse)) :
                    score \in Scores(q), inverse \in Inverses(ctx.servers[i][t])}
    BY DEF PushScore
<1>1. PICK score \in Scores(q), inverse \in Inverses(ctx.servers[i][t]) :
          x = SetScore(SetQueue(ctx, i, t, q), i, t, Weighted(score, inverse))
    BY <1>0
<1>2. ctx.queue[i][t] \in Queues /\ ctx.servers \in Configs /\ ctx.servers[i][t] \in Nat
    BY ContextFields, ServerLists
<1>3. q \in Queues /\ q # <<>>
    BY <1>2, PushedType
<1>4. score \in 0 .. 5 * Fifth /\ score \in Nat
    <2>1. q \in Seq({"errored", "latency"})
        BY <1>3 DEF Queues
    <2>2. score \in 0 .. 5 * Fifth
        BY <1>3, <2>1, ScoreBound
    <2> QED
        BY <2>2, Bounds
<1>5. inverse \in Nat
    BY <1>2, Bounds DEF Inverses
<1> DEFINE w == Weighted(score, inverse)
           y == SetQueue(ctx, i, t, q)
<1>6. w \in 0 .. MaxScore
    BY <1>4, <1>5, WeightedType
<1>7. i \in Enabled(ctx.servers, t) /\ Scorable(ctx.servers, i, t) => w < MaxScore
    <2> SUFFICES ASSUME i \in Enabled(ctx.servers, t), Scorable(ctx.servers, i, t) PROVE w < MaxScore
        OBVIOUS
    <2>1. inverse = ctx.servers[i][t]
        BY <1>2, EnabledServers DEF Inverses
    <2>2. Weighted(5 * Fifth, inverse) < MaxScore
        BY <2>1 DEF Scorable
    <2> QED
        BY <1>4, <1>5, <2>2, WeightedBelow
<1>8. /\ ContextOK(y)
      /\ y.servers = ctx.servers /\ y.score = ctx.score /\ y.best = ctx.best /\ y.task = ctx.task
      /\ y.count = ctx.count /\ y.dialing = ctx.dialing
    BY <1>3, SetQueueFacts
<1>9. x = SetScore(y, i, t, w)
    BY <1>1
<1> HIDE DEF w, y
<1>10. i \in Servers(y) /\ Servers(y) = Servers(ctx)
    BY <1>8 DEF Servers
<1>11. /\ ContextOK(x)
       /\ x.servers = y.servers /\ x.best = y.best /\ x.task = y.task
       /\ x.count = y.count /\ x.dialing = y.dialing
       /\ \A j \in Servers(y), u \in Mode :
             x.score[j][u] = IF j = i /\ u = t THEN w ELSE y.score[j][u]
    BY <1>6, <1>8, <1>9, <1>10, SetScoreFacts
<1> QED
    BY <1>7, <1>8, <1>10, <1>11

\* A score pushed for a server of the protocol, or where no server of it can
\* be scored, keeps the context in order.
LEMMA PushInv ==
    ASSUME NEW ctx, ContextInv(ctx), NEW i \in Servers(ctx), NEW t \in Mode,
           NEW result \in {"errored", "latency"}, NEW x \in PushScore(ctx, i, t, result),
           i \in Enabled(ctx.servers, t) \/ ~Usable(ctx.servers, t)
    PROVE  ContextInv(x) /\ (ScoredOnce(ctx) => ScoredOnce(x))
<1>1. /\ ContextOK(ctx) /\ ProbesEnabled(ctx) /\ BestExists(ctx) /\ OnlyEnabled(ctx) /\ WillBeScored(ctx)
    BY DEF ContextInv
<1>2. /\ ContextOK(x)
      /\ x.servers = ctx.servers /\ x.best = ctx.best /\ x.task = ctx.task
      /\ x.count = ctx.count /\ x.dialing = ctx.dialing
      /\ \A j \in Servers(ctx), u \in Mode : j # i \/ u # t => x.score[j][u] = ctx.score[j][u]
      /\ i \in Enabled(ctx.servers, t) /\ Scorable(ctx.servers, i, t) => x.score[i][t] < MaxScore
    BY <1>1, PushFacts
<1>3. Servers(x) = Servers(ctx)
    BY <1>2 DEF Servers
<1>4. ProbesEnabled(x) /\ BestExists(x)
    BY <1>1, <1>2, <1>3 DEF ProbesEnabled, BestExists
<1>5. OnlyEnabled(x)
    BY <1>1, <1>2, <1>3 DEF OnlyEnabled
<1>6. \A j \in Servers(ctx), u \in Mode :
          /\ j \in Enabled(ctx.servers, u) /\ Scorable(ctx.servers, j, u) /\ ctx.score[j][u] < MaxScore
          => x.score[j][u] < MaxScore
    BY <1>2
<1>7. \A u \in Mode : Enabled(ctx.servers, u) \subseteq Servers(ctx)
    BY <1>1, ContextFields, EnabledServers
<1>8. WillBeScored(x)
    <2> SUFFICES ASSUME NEW c \in Tasks, NEW u \in x.task[c].types, Usable(x.servers, u)
                 PROVE  \E j \in Enabled(x.servers, u) :
                            /\ Scorable(x.servers, j, u)
                            /\ <<j, u>> \in x.task[c].pending \/ x.score[j][u] < MaxScore
        BY DEF WillBeScored
    <2>1. u \in Mode
        BY <1>1, <1>2, ContextFields DEF Checkers
    <2>2. PICK j \in Enabled(ctx.servers, u) :
              /\ Scorable(ctx.servers, j, u)
              /\ <<j, u>> \in ctx.task[c].pending \/ ctx.score[j][u] < MaxScore
        BY <1>1, <1>2 DEF WillBeScored
    <2> QED
        BY <1>2, <1>6, <1>7, <2>1, <2>2
<1>9. ScoredOnce(ctx) => ScoredOnce(x)
    BY <1>2, <1>3, <1>6 DEF ScoredOnce, HasScore
<1> QED
    BY <1>2, <1>4, <1>5, <1>8, <1>9 DEF ContextInv

\* A task of a context is replaced by one that probes only servers of the
\* protocol and will have a score to choose by.
LEMMA SetTaskInv ==
    ASSUME NEW ctx, ContextInv(ctx), NEW c \in Tasks, NEW task \in Checkers,
           \A p \in task.pending : p \in Servers(ctx) \X Mode /\ p[1] \in Enabled(ctx.servers, p[2]),
           \A t \in task.types : Usable(ctx.servers, t) =>
               \E i \in Enabled(ctx.servers, t) :
                   /\ Scorable(ctx.servers, i, t)
                   /\ <<i, t>> \in task.pending \/ ctx.score[i][t] < MaxScore
    PROVE  /\ ContextInv(SetTask(ctx, c, task))
           /\ ScoredOnce(ctx) => ScoredOnce(SetTask(ctx, c, task))
<1> DEFINE x == SetTask(ctx, c, task)
<1>1. /\ ContextOK(ctx) /\ ProbesEnabled(ctx) /\ BestExists(ctx) /\ OnlyEnabled(ctx) /\ WillBeScored(ctx)
    BY DEF ContextInv
<1>2. /\ ContextOK(x)
      /\ x.servers = ctx.servers /\ x.best = ctx.best /\ x.score = ctx.score
      /\ x.count = ctx.count /\ x.dialing = ctx.dialing
      /\ \A b \in Tasks : x.task[b] = IF b = c THEN task ELSE ctx.task[b]
    BY <1>1, SetTaskFacts
<1> HIDE DEF x
<1>3. Servers(x) = Servers(ctx)
    BY <1>2 DEF Servers
<1>4. ProbesEnabled(x)
    BY <1>1, <1>2, <1>3 DEF ProbesEnabled
<1>5. BestExists(x) /\ OnlyEnabled(x)
    BY <1>1, <1>2, <1>3 DEF BestExists, OnlyEnabled
<1>6. WillBeScored(x)
    BY <1>1, <1>2 DEF WillBeScored
<1>7. ScoredOnce(ctx) => ScoredOnce(x)
    BY <1>2, <1>3 DEF ScoredOnce, HasScore
<1> QED
    BY <1>2, <1>4, <1>5, <1>6, <1>7 DEF ContextInv, x

LEMMA ProbedInv ==
    ASSUME NEW ctx, ContextInv(ctx), NEW c \in Tasks, NEW p \in ctx.task[c].pending,
           NEW x \in Probed(ctx, c, p)
    PROVE  /\ ContextInv(x) /\ (ScoredOnce(ctx) => ScoredOnce(x))
           /\ x.servers = ctx.servers /\ \A b \in Tasks : x.task[b].types = ctx.task[b].types
<1> DEFINE i == p[1]
           t == p[2]
           result == IF p[1] \in down THEN "errored" ELSE "latency"
<1>1. PICK y \in PushScore(ctx, i, t, result) :
          x = SetTask(y, c, [y.task[c] EXCEPT !.pending = @ \ {p}])
    BY DEF Probed
<1>2. p \in Servers(ctx) \X Mode /\ i \in Enabled(ctx.servers, t) /\ ContextOK(ctx)
    BY DEF ContextInv, ProbesEnabled
<1>3. i \in Servers(ctx) /\ t \in Mode /\ p = <<i, t>> /\ result \in {"errored", "latency"}
    BY <1>2
<1> HIDE DEF i, t, result
<1>4. ContextInv(y) /\ (ScoredOnce(ctx) => ScoredOnce(y))
    BY <1>2, <1>3, PushInv
<1>5. /\ y.servers = ctx.servers /\ y.task = ctx.task
      /\ Scorable(ctx.servers, i, t) => y.score[i][t] < MaxScore
    BY <1>2, <1>3, PushFacts
<1> DEFINE task == [y.task[c] EXCEPT !.pending = @ \ {p}]
<1>6. ContextOK(y) /\ ProbesEnabled(y) /\ WillBeScored(y)
    BY <1>4 DEF ContextInv
<1>7. /\ task \in Checkers /\ task.types = y.task[c].types /\ task.pending = y.task[c].pending \ {p}
    <2>1. y.task[c] \in Checkers
        BY <1>6, ContextFields
    <2> QED
        BY <2>1 DEF Checkers
<1> HIDE DEF task
<1>8. \A q \in task.pending : q \in Servers(y) \X Mode /\ q[1] \in Enabled(y.servers, q[2])
    BY <1>6, <1>7 DEF ProbesEnabled
<1>9. ASSUME NEW u \in task.types, Usable(y.servers, u)
      PROVE  \E j \in Enabled(y.servers, u) :
                 /\ Scorable(y.servers, j, u)
                 /\ <<j, u>> \in task.pending \/ y.score[j][u] < MaxScore
    <2>1. PICK j \in Enabled(y.servers, u) :
              /\ Scorable(y.servers, j, u)
              /\ <<j, u>> \in y.task[c].pending \/ y.score[j][u] < MaxScore
        BY <1>6, <1>7, <1>9 DEF WillBeScored
    <2>2. CASE <<j, u>> = p
        <3>1. j = i /\ u = t
            BY <1>3, <2>2
        <3> QED
            BY <1>5, <2>1, <3>1
    <2>3. CASE <<j, u>> # p
        BY <1>7, <2>1, <2>3
    <2> QED
        BY <2>2, <2>3
<1>10. x = SetTask(y, c, task)
    BY <1>1 DEF task
<1>11. ContextInv(x) /\ (ScoredOnce(y) => ScoredOnce(x))
    BY <1>4, <1>7, <1>8, <1>9, <1>10, SetTaskInv
<1>12. x.servers = y.servers /\ \A b \in Tasks : x.task[b] = IF b = c THEN task ELSE y.task[b]
    BY <1>6, <1>7, <1>10, SetTaskFacts
<1> QED
    BY <1>4, <1>5, <1>7, <1>11, <1>12

LEMMA CheckOnceFacts ==
    ASSUME NEW ctx, ContextOK(ctx)
    PROVE  /\ CheckOnce(ctx) \in Checkers
           /\ CheckOnce(ctx).types = Contested(ctx.servers)
           /\ CheckOnce(ctx).pending = Probes(ctx.servers, Contested(ctx.servers))
<1>1. ctx.servers \in Configs /\ DOMAIN ctx.servers \subseteq Indices
    BY ContextFields, ServerLists
<1>2. Contested(ctx.servers) \in SUBSET Mode
    BY DEF Contested
<1>3. Probes(ctx.servers, Contested(ctx.servers)) \in SUBSET (Indices \X Mode)
    BY <1>1, <1>2 DEF Probes
<1> QED
    BY <1>2, <1>3 DEF CheckOnce, Checkers

\* check_once, begun for a context in order.
LEMMA CheckOnceInv ==
    ASSUME NEW ctx, ContextInv(ctx)
    PROVE  /\ ContextInv(SetTask(ctx, "all", CheckOnce(ctx)))
           /\ ScoredOnce(ctx) => ScoredOnce(SetTask(ctx, "all", CheckOnce(ctx)))
<1> DEFINE task == CheckOnce(ctx)
           types == Contested(ctx.servers)
<1>1. ContextOK(ctx) /\ "all" \in Tasks
    BY DEF ContextInv, Tasks
<1>2. task \in Checkers /\ task.types = types /\ task.pending = Probes(ctx.servers, types)
    BY <1>1, CheckOnceFacts
<1>3. types \subseteq Mode
    BY DEF Contested
<1> HIDE DEF task, types
<1>4. \A p \in task.pending : p \in Servers(ctx) \X Mode /\ p[1] \in Enabled(ctx.servers, p[2])
    BY <1>2, <1>3 DEF Probes, Servers
<1>5. ASSUME NEW t \in task.types, Usable(ctx.servers, t)
      PROVE  \E i \in Enabled(ctx.servers, t) :
                 Scorable(ctx.servers, i, t) /\ <<i, t>> \in task.pending
    BY <1>2, <1>5 DEF Usable, Probes, Enabled
<1>6. \A t \in task.types : Usable(ctx.servers, t) =>
          \E i \in Enabled(ctx.servers, t) :
              /\ Scorable(ctx.servers, i, t)
              /\ <<i, t>> \in task.pending \/ ctx.score[i][t] < MaxScore
    BY <1>5
<1> QED
    BY <1>1, <1>2, <1>4, <1>6, SetTaskInv DEF task

\* check_best_server, begun for the context in use: if its best server cannot
\* be scored, another one has been.
LEMMA CheckBestInv ==
    ASSUME NEW ctx, ContextInv(ctx), ScoredOnce(ctx)
    PROVE  LET x == SetTask(ctx, "favoured", CheckBestServer(ctx))
           IN  ContextInv(x) /\ ScoredOnce(x)
<1> DEFINE task  == CheckBestServer(ctx)
           types == {t \in Mode : ctx.best[t] \in Enabled(ctx.servers, t)}
           pending == {<<ctx.best[t], t>> : t \in types}
<1>1. ContextOK(ctx) /\ OnlyEnabled(ctx) /\ "favoured" \in Tasks
    BY DEF ContextInv, Tasks
<1>2. /\ ctx.servers \in Configs
      /\ \A t \in Mode : Enabled(ctx.servers, t) \subseteq Servers(ctx)
      /\ Servers(ctx) \subseteq Indices
    BY <1>1, ContextFields, EnabledServers, ServerLists
<1>3. types \in SUBSET Mode /\ \A t \in types : ctx.best[t] \in Enabled(ctx.servers, t)
    OBVIOUS
<1>4. task = [at |-> "probe", types |-> types, pending |-> pending]
    BY DEF CheckBestServer
<1> HIDE DEF task, types
<1>5. \A p \in pending : p \in Servers(ctx) \X Mode /\ p[1] \in Enabled(ctx.servers, p[2])
    BY <1>2, <1>3
<1>6. pending \in SUBSET (Indices \X Mode)
    BY <1>2, <1>5
<1>7. \A t \in types : <<ctx.best[t], t>> \in pending
    OBVIOUS
<1> HIDE DEF pending
<1>8. task \in Checkers /\ task.types = types /\ task.pending = pending
    BY <1>3, <1>4, <1>6 DEF Checkers
<1>9. ASSUME NEW t \in types, Usable(ctx.servers, t)
      PROVE  \E i \in Enabled(ctx.servers, t) :
                 /\ Scorable(ctx.servers, i, t)
                 /\ <<i, t>> \in pending \/ ctx.score[i][t] < MaxScore
    <2>1. CASE Scorable(ctx.servers, ctx.best[t], t)
        BY <1>3, <1>7, <2>1
    <2>2. CASE \E i \in Servers(ctx) : HasScore(ctx, i, t)
        BY <2>2 DEF HasScore
    <2> QED
        BY <1>3, <1>9, <2>1, <2>2 DEF ScoredOnce
<1>10. \A p \in task.pending : p \in Servers(ctx) \X Mode /\ p[1] \in Enabled(ctx.servers, p[2])
    BY <1>5, <1>8
<1>11. \A t \in task.types : Usable(ctx.servers, t) =>
          \E i \in Enabled(ctx.servers, t) :
              /\ Scorable(ctx.servers, i, t)
              /\ <<i, t>> \in task.pending \/ ctx.score[i][t] < MaxScore
    BY <1>8, <1>9
<1> QED
    BY <1>1, <1>8, <1>10, <1>11, SetTaskInv DEF task

\* A new context has the first server of every protocol as its best and will
\* probe the servers of the contested ones.
LEMMA NewContextInv ==
    ASSUME NEW servers \in Configs
    PROVE  LET x == NewContext(servers) IN
           /\ ContextInv(x) /\ x.servers = servers
           /\ x.task["all"].types = Contested(servers)
<1> DEFINE task == [c \in Tasks |-> IF c = "all" THEN Idle ELSE [Idle EXCEPT !.at = "wait"]]
           best == [t \in Mode |-> FindBest(servers, t)]
           queue == [i \in DOMAIN servers |-> [t \in Mode |-> <<>>]]
           score == [i \in DOMAIN servers |-> [t \in Mode |-> MaxScore]]
           y == [servers |-> servers, queue |-> queue, score |-> score, best |-> best,
                 task |-> task, count |-> 0, dialing |-> {}]
<1>1. task \in [Tasks -> Checkers] /\ \A c \in Tasks : task[c].pending = {} /\ task[c].types = {}
    BY DEF Idle, Checkers, Tasks
<1>2. best \in [Mode -> Indices \union {1}]
    BY FindBestFacts
<1>3. queue \in [DOMAIN servers -> [Mode -> Queues]]
    <2>1. <<>> \in Queues
        BY Bounds DEF Queues
    <2> QED
        BY <2>1
<1>4. score \in [DOMAIN servers -> [Mode -> 0 .. MaxScore]]
    BY Bounds
<1>5. /\ y.servers = servers /\ y.task = task /\ y.dialing = {}
      /\ \A t \in Mode : y.best[t] = FindBest(servers, t)
      /\ \A i \in DOMAIN servers, t \in Mode : y.score[i][t] = MaxScore
    OBVIOUS
<1>6. NewContext(servers) = SetTask(y, "all", CheckOnce(y))
    BY DEF NewContext
<1> HIDE DEF task, best, queue, score
<1>7. ContextOK(y)
    BY <1>1, <1>2, <1>3, <1>4, Bounds DEF ContextOK, Contexts
<1> HIDE DEF y
<1>8. ProbesEnabled(y) /\ WillBeScored(y)
    BY <1>1, <1>5 DEF ProbesEnabled, WillBeScored
<1>9. BestExists(y) /\ OnlyEnabled(y)
    BY <1>5, FindBestFacts DEF BestExists, OnlyEnabled, Servers, Usable
<1>10. ContextInv(y)
    BY <1>7, <1>8, <1>9 DEF ContextInv
<1>11. "all" \in Tasks
    BY DEF Tasks
<1>12. CheckOnce(y) \in Checkers /\ CheckOnce(y).types = Contested(servers)
    BY <1>5, CheckOnceFacts, <1>7
<1>13. ContextInv(NewContext(servers))
    BY <1>6, <1>10, CheckOnceInv
<1> QED
    BY <1>5, <1>6, <1>7, <1>11, <1>12, <1>13, SetTaskFacts

-----------------------------------------------------------------------------
(***************************************************************************)
(* A checker has all its answers and chooses.                              *)
(***************************************************************************)

LEMMA IdleType == Idle \in Checkers /\ Idle.pending = {} /\ Idle.types = {}
BY DEF Idle, Checkers

LEMMA ChooseInv ==
    ASSUME NEW ctx, ContextInv(ctx), NEW types \in SUBSET Mode,
           \A t \in types : Usable(ctx.servers, t) => \E i \in Servers(ctx) : HasScore(ctx, i, t)
    PROVE  LET x == Choose(ctx, types) IN
           /\ ContextInv(x)
           /\ (\A t \in Mode \ types : Usable(ctx.servers, t) =>
                  Scorable(ctx.servers, ctx.best[t], t) \/ \E i \in Servers(ctx) : HasScore(ctx, i, t))
              => ScoredOnce(x)
<1> DEFINE x == Choose(ctx, types)
<1>1. ContextOK(ctx) /\ ProbesEnabled(ctx) /\ BestExists(ctx) /\ OnlyEnabled(ctx) /\ WillBeScored(ctx)
    BY DEF ContextInv
<1>2. /\ ContextOK(x)
      /\ x.servers = ctx.servers /\ x.score = ctx.score /\ x.task = ctx.task
      /\ x.count = ctx.count /\ x.dialing = ctx.dialing
      /\ \A t \in Mode : x.best[t] = IF t \in types THEN Best(ctx, t) ELSE ctx.best[t]
    BY <1>1, ChooseFacts
<1> HIDE DEF x
<1>3. Servers(x) = Servers(ctx)
    BY <1>2 DEF Servers
<1>4. ProbesEnabled(x) /\ WillBeScored(x)
    BY <1>1, <1>2, <1>3 DEF ProbesEnabled, WillBeScored
<1>5. BestExists(x)
    BY <1>1, <1>2, <1>3, BestFacts DEF BestExists
<1>6. ASSUME NEW t \in types, Usable(ctx.servers, t) PROVE Best(ctx, t) \in Enabled(ctx.servers, t)
    <2>1. \E i \in Servers(ctx) : ctx.score[i][t] < MaxScore
        BY <1>6 DEF HasScore
    <2>2. Best(ctx, t) \in Servers(ctx) /\ ctx.score[Best(ctx, t)][t] < MaxScore
        BY <1>1, <2>1, BestFacts
    <2>3. \A i \in Servers(ctx) \ Enabled(ctx.servers, t) : ctx.score[i][t] = MaxScore
        BY <1>1, <1>6 DEF OnlyEnabled
    <2> QED
        BY <2>2, <2>3, Bounds
<1>7. OnlyEnabled(x)
    BY <1>1, <1>2, <1>3, <1>6 DEF OnlyEnabled
<1>8. \A t \in Mode, i \in Servers(ctx) : HasScore(ctx, i, t) => HasScore(x, i, t)
    BY <1>2 DEF HasScore
<1>9. ASSUME \A t \in Mode \ types : Usable(ctx.servers, t) =>
                 Scorable(ctx.servers, ctx.best[t], t) \/ \E i \in Servers(ctx) : HasScore(ctx, i, t)
      PROVE  ScoredOnce(x)
    <2> SUFFICES ASSUME NEW t \in Mode, Usable(x.servers, t)
                 PROVE  Scorable(x.servers, x.best[t], t) \/ \E i \in Servers(x) : HasScore(x, i, t)
        BY DEF ScoredOnce
    <2>1. CASE t \in types
        BY <1>2, <1>3, <1>8, <2>1
    <2>2. CASE t \notin types
        <3>1. x.best[t] = ctx.best[t]
            BY <1>2, <2>2
        <3> QED
            BY <1>2, <1>3, <1>8, <1>9, <2>2, <3>1
    <2> QED
        BY <2>1, <2>2
<1> QED
    BY <1>2, <1>4, <1>5, <1>7, <1>9 DEF ContextInv, x

\* A checker whose probes have all ended has a score to choose by.
LEMMA AllAnswered ==
    ASSUME NEW ctx, ContextInv(ctx), NEW c \in Tasks, ctx.task[c].pending = {}
    PROVE  /\ ctx.task[c].types \in SUBSET Mode
           /\ \A t \in ctx.task[c].types : Usable(ctx.servers, t) =>
                  \E i \in Servers(ctx) : HasScore(ctx, i, t)
<1>1. ContextOK(ctx) /\ WillBeScored(ctx)
    BY DEF ContextInv
<1>2. ctx.task[c].types \in SUBSET Mode
    BY <1>1, ContextFields DEF Checkers
<1>3. ASSUME NEW t \in ctx.task[c].types, Usable(ctx.servers, t)
      PROVE  \E i \in Servers(ctx) : HasScore(ctx, i, t)
    <2>1. PICK i \in Enabled(ctx.servers, t) : Scorable(ctx.servers, i, t) /\ ctx.score[i][t] < MaxScore
        BY <1>1, <1>3 DEF WillBeScored
    <2>2. i \in Servers(ctx)
        BY <1>1, <1>2, ContextFields, EnabledServers
    <2> QED
        BY <2>1, <2>2 DEF HasScore
<1> QED
    BY <1>2, <1>3

LEMMA IdleInv ==
    ASSUME NEW ctx, ContextInv(ctx), NEW c \in Tasks
    PROVE  /\ ContextInv(SetTask(ctx, c, Idle))
           /\ ScoredOnce(ctx) => ScoredOnce(SetTask(ctx, c, Idle))
BY IdleType, SetTaskInv

\* check_once or check_best_server ends, in the context in use.
LEMMA ChosenInv ==
    ASSUME NEW ctx, ContextInv(ctx), ScoredOnce(ctx), NEW c \in Tasks, ctx.task[c].pending = {}
    PROVE  LET x == SetTask(Choose(ctx, ctx.task[c].types), c, Idle) IN
           ContextInv(x) /\ ScoredOnce(x) /\ x.count = ctx.count
<1> DEFINE y == Choose(ctx, ctx.task[c].types)
<1>1. /\ ctx.task[c].types \in SUBSET Mode
      /\ \A t \in ctx.task[c].types : Usable(ctx.servers, t) => \E i \in Servers(ctx) : HasScore(ctx, i, t)
    BY AllAnswered
<1>2. \A t \in Mode : Usable(ctx.servers, t) =>
          Scorable(ctx.servers, ctx.best[t], t) \/ \E i \in Servers(ctx) : HasScore(ctx, i, t)
    BY DEF ScoredOnce
<1>3. ContextInv(y) /\ ScoredOnce(y)
    BY <1>1, <1>2, ChooseInv
<1>4. y.count = ctx.count
    BY <1>1, ChooseFacts DEF ContextInv
<1> HIDE DEF y
<1>5. ContextInv(SetTask(y, c, Idle)) /\ ScoredOnce(SetTask(y, c, Idle))
    BY <1>3, IdleInv
<1>6. SetTask(y, c, Idle).count = y.count
    BY <1>3, IdleType, SetTaskFacts DEF ContextInv
<1> QED
    BY <1>4, <1>5, <1>6 DEF y

\* Where a protocol has no choice of servers, the one enabled is the only one.
LEMMA Uncontested ==
    ASSUME NEW servers \in Configs, NEW t \in Mode \ Contested(servers),
           NEW i \in Enabled(servers, t), NEW j \in Enabled(servers, t)
    PROVE  i = j
<1> SUFFICES ASSUME i # j PROVE FALSE
    OBVIOUS
<1> DEFINE E == Enabled(servers, t)
<1>1. IsFiniteSet(E) /\ ~(Cardinality(E) > 1)
    BY EnabledServers DEF Contested
<1> HIDE DEF E
<1>2. Cardinality({i}) = 1 /\ IsFiniteSet({i})
    BY FS_Singleton
<1> DEFINE P == {i} \union {j}
<1>3. j \notin {i}
    OBVIOUS
<1>4. Cardinality(P) = Cardinality({i}) + 1
    BY <1>2, <1>3, FS_AddElement, Zenon
<1>5. P \in SUBSET E
    BY DEF E
<1> HIDE DEF P
<1>6. Cardinality(P) <= Cardinality(E) /\ Cardinality(E) \in Nat
    BY <1>1, <1>5, FS_Subset, FS_CardinalityType
<1> QED
    BY <1>1, <1>2, <1>4, <1>6

\* init_score ends: the context that was built goes into use.
LEMMA SwapInv ==
    ASSUME NEW ctx, ContextInv(ctx), ctx.task["all"].types = Contested(ctx.servers),
           ctx.task["all"].pending = {}
    PROVE  LET x == SetTask(Choose(ctx, ctx.task["all"].types), "all", Idle) IN
           ContextInv(x) /\ ScoredOnce(x)
<1> DEFINE types == ctx.task["all"].types
           y == Choose(ctx, types)
<1>1. "all" \in Tasks /\ ContextOK(ctx) /\ OnlyEnabled(ctx) /\ ctx.servers \in Configs
    BY ContextFields DEF Tasks, ContextInv
<1>2. /\ types \in SUBSET Mode
      /\ \A t \in types : Usable(ctx.servers, t) => \E i \in Servers(ctx) : HasScore(ctx, i, t)
    BY <1>1, AllAnswered
<1>3. ASSUME NEW t \in Mode \ types, Usable(ctx.servers, t)
      PROVE  Scorable(ctx.servers, ctx.best[t], t)
    <2>1. PICK i \in Enabled(ctx.servers, t) : Scorable(ctx.servers, i, t)
        BY <1>3 DEF Usable
    <2>2. ctx.best[t] \in Enabled(ctx.servers, t)
        BY <1>1, <1>3 DEF OnlyEnabled
    <2>3. ctx.best[t] = i
        BY <1>1, <1>3, <2>2, Uncontested
    <2> QED
        BY <2>1, <2>3
<1> HIDE DEF types
<1>4. ContextInv(y) /\ ScoredOnce(y)
    BY <1>2, <1>3, ChooseInv
<1> HIDE DEF y
<1>5. ContextInv(SetTask(y, "all", Idle)) /\ ScoredOnce(SetTask(y, "all", Idle))
    BY <1>1, <1>4, IdleInv
<1> QED
    BY <1>5 DEF y, types

\* best_task_notify and the counter of checks.
LEMMA CountInv ==
    ASSUME NEW ctx, ContextInv(ctx), ScoredOnce(ctx), NEW n \in 0 .. WarmUp
    PROVE  LET x == [ctx EXCEPT !.count = n] IN
           ContextInv(x) /\ ScoredOnce(x)
<1> DEFINE x == [ctx EXCEPT !.count = n]
<1>1. ContextOK(ctx) /\ ProbesEnabled(ctx) /\ BestExists(ctx) /\ OnlyEnabled(ctx) /\ WillBeScored(ctx)
    BY DEF ContextInv
<1>2. /\ ContextOK(x)
      /\ x.servers = ctx.servers /\ x.score = ctx.score /\ x.task = ctx.task
      /\ x.best = ctx.best /\ x.dialing = ctx.dialing
    BY <1>1 DEF ContextOK, Contexts
<1> HIDE DEF x
<1>3. Servers(x) = Servers(ctx)
    BY <1>2 DEF Servers
<1>4. ProbesEnabled(x) /\ WillBeScored(x)
    BY <1>1, <1>2, <1>3 DEF ProbesEnabled, WillBeScored
<1>5. BestExists(x) /\ OnlyEnabled(x)
    BY <1>1, <1>2, <1>3 DEF BestExists, OnlyEnabled
<1>6. ScoredOnce(x)
    BY <1>2, <1>3 DEF ScoredOnce, HasScore
<1> QED
    BY <1>2, <1>4, <1>5, <1>6 DEF ContextInv, x

LEMMA NotifiedInv ==
    ASSUME NEW ctx, ContextInv(ctx), ScoredOnce(ctx)
    PROVE  ContextInv(Notified(ctx)) /\ ScoredOnce(Notified(ctx))
<1> DEFINE task == [ctx.task["favoured"] EXCEPT !.at = "sleep"]
<1>1. ContextOK(ctx) /\ ProbesEnabled(ctx) /\ WillBeScored(ctx) /\ "favoured" \in Tasks
    BY DEF ContextInv, Tasks
<1>2. /\ task \in Checkers /\ task.types = ctx.task["favoured"].types
      /\ task.pending = ctx.task["favoured"].pending
    BY <1>1, ContextFields DEF Checkers
<1>3. Notified(ctx) = SetTask(ctx, "favoured", task)
    BY DEF Notified
<1> HIDE DEF task
<1>4. \A p \in task.pending : p \in Servers(ctx) \X Mode /\ p[1] \in Enabled(ctx.servers, p[2])
    BY <1>1, <1>2 DEF ProbesEnabled
<1>5. \A t \in task.types : Usable(ctx.servers, t) =>
          \E i \in Enabled(ctx.servers, t) :
              /\ Scorable(ctx.servers, i, t)
              /\ <<i, t>> \in task.pending \/ ctx.score[i][t] < MaxScore
    BY <1>1, <1>2 DEF WillBeScored
<1> QED
    BY <1>1, <1>2, <1>3, <1>4, <1>5, SetTaskInv

\* connect_proxied, begun and ended: only servers of the protocol are dialled.
LEMMA DialingInv ==
    ASSUME NEW ctx, ContextInv(ctx), ScoredOnce(ctx), "tcp" \in Mode,
           NEW dialing \in SUBSET Servers(ctx),
           Usable(ctx.servers, "tcp") => dialing \subseteq Enabled(ctx.servers, "tcp")
    PROVE  LET x == [ctx EXCEPT !.dialing = dialing] IN
           ContextInv(x) /\ ScoredOnce(x) /\ x.servers = ctx.servers
<1> DEFINE x == [ctx EXCEPT !.dialing = dialing]
<1>1. ContextOK(ctx) /\ ProbesEnabled(ctx) /\ BestExists(ctx) /\ OnlyEnabled(ctx) /\ WillBeScored(ctx)
    BY DEF ContextInv
<1>2. /\ ContextOK(x)
      /\ x.servers = ctx.servers /\ x.score = ctx.score /\ x.task = ctx.task
      /\ x.best = ctx.best /\ x.dialing = dialing
    BY <1>1 DEF ContextOK, Contexts, Servers
<1> HIDE DEF x
<1>3. Servers(x) = Servers(ctx)
    BY <1>2 DEF Servers
<1>4. ProbesEnabled(x) /\ WillBeScored(x)
    BY <1>1, <1>2, <1>3 DEF ProbesEnabled, WillBeScored
<1>5. BestExists(x) /\ OnlyEnabled(x)
    BY <1>1, <1>2, <1>3 DEF BestExists, OnlyEnabled
<1>6. ScoredOnce(x)
    BY <1>2, <1>3 DEF ScoredOnce, HasScore
<1> QED
    BY <1>2, <1>4, <1>5, <1>6 DEF ContextInv, x

-----------------------------------------------------------------------------
(***************************************************************************)
(* The invariant of the balancer.                                          *)
(***************************************************************************)

\* What a step of the current context has to keep.
InUse(ctx) == ContextInv(ctx) /\ ScoredOnce(ctx)

LEMMA CurrentStep ==
    ASSUME BalancerInv, InUse(current'), UNCHANGED <<building, reloads, down, flips>>
    PROVE  BalancerInv'
BY DEF BalancerInv, TypeOK, InUse, ContextInv

LEMMA BalancerInit ==
    ASSUME Init PROVE BalancerInv
<1>1. PICK servers \in Configs : building = NewContext(servers)
    BY DEF Init
<1>2. ContextInv(building) /\ building.servers = servers /\ building.task["all"].types = Contested(servers)
    BY <1>1, NewContextInv
<1>3. TypeOK
    BY <1>2, Bounds DEF Init, TypeOK, ContextInv
<1> QED
    BY <1>2, <1>3 DEF BalancerInv, Init

LEMMA ResetStep ==
    ASSUME BalancerInv, reset_servers PROVE BalancerInv'
<1>1. PICK servers \in Configs : building' = NewContext(servers)
    BY DEF reset_servers
<1> DEFINE x == NewContext(servers)
<1>2. ContextInv(x) /\ x.servers = servers /\ x.task["all"].types = Contested(servers)
    BY NewContextInv
<1>3. building' = x
    BY <1>1
<1> HIDE DEF x
<1>4. TypeOK'
    BY <1>2, <1>3, Bounds DEF BalancerInv, TypeOK, ContextInv, reset_servers
<1> QED
    BY <1>2, <1>3, <1>4 DEF BalancerInv, reset_servers

LEMMA InitProbeStep ==
    ASSUME BalancerInv, InitProbe PROVE BalancerInv'
<1>1. PICK p \in building.task["all"].pending : building' \in Probed(building, "all", p)
    BY DEF InitProbe
<1>2. /\ ContextInv(building) /\ building.task["all"].types = Contested(building.servers)
      /\ "all" \in Tasks
    BY DEF BalancerInv, InitProbe, Tasks
<1>3. /\ ContextInv(building') /\ building'.servers = building.servers
      /\ building'.task["all"].types = building.task["all"].types
    BY <1>1, <1>2, ProbedInv
<1>4. TypeOK'
    BY <1>3 DEF BalancerInv, TypeOK, ContextInv, InitProbe
<1> QED
    BY <1>2, <1>3, <1>4 DEF BalancerInv, InitProbe

LEMMA SwapStep ==
    ASSUME BalancerInv, Swap PROVE BalancerInv'
<1>1. InUse(current')
    BY SwapInv DEF BalancerInv, Swap, InUse
<1> QED
    BY <1>1 DEF BalancerInv, TypeOK, ContextInv, InUse, Swap

LEMMA ProbeStep ==
    ASSUME BalancerInv, NEW c \in Tasks, Probe(c) PROVE BalancerInv'
<1>1. PICK p \in current.task[c].pending : current' \in Probed(current, c, p)
    BY DEF Probe
<1>2. InUse(current')
    BY <1>1, ProbedInv DEF BalancerInv, Probe, InUse
<1> QED
    BY <1>2, CurrentStep DEF Probe

LEMMA EndCheckAllStep ==
    ASSUME BalancerInv, EndCheckAll PROVE BalancerInv'
<1> DEFINE chosen  == SetTask(Choose(current, current.task["all"].types), "all", Idle)
           warming == CheckBest /\ current.count < WarmUp
           counted == [chosen EXCEPT !.count = @ + 1]
<1>1. current' = IF ~warming THEN chosen
                 ELSE IF counted.count = WarmUp THEN Notified(counted) ELSE counted
    BY DEF EndCheckAll
<1>2. ContextInv(current) /\ ScoredOnce(current) /\ "all" \in Tasks /\ current.task["all"].pending = {}
    BY DEF BalancerInv, EndCheckAll, Tasks
<1>3. ContextInv(chosen) /\ ScoredOnce(chosen) /\ chosen.count = current.count
    BY <1>2, ChosenInv
<1> HIDE DEF chosen
<1>4. warming => InUse(counted)
    <2> SUFFICES ASSUME warming PROVE InUse(counted)
        OBVIOUS
    <2>1. chosen.count + 1 \in 0 .. WarmUp
        BY <1>2, <1>3, ContextFields, Bounds DEF ContextInv
    <2> QED
        BY <1>3, <2>1, CountInv DEF InUse
<1> HIDE DEF counted
<1>5. warming => InUse(Notified(counted))
    BY <1>4, NotifiedInv DEF InUse
<1>6. InUse(current')
    BY <1>1, <1>3, <1>4, <1>5 DEF InUse
<1> QED
    BY <1>6, CurrentStep DEF EndCheckAll

LEMMA EndCheckBestStep ==
    ASSUME BalancerInv, EndCheckBest PROVE BalancerInv'
<1>1. ContextInv(current) /\ ScoredOnce(current) /\ "favoured" \in Tasks
    BY DEF BalancerInv, EndCheckBest, Tasks
<1>2. InUse(current')
    BY <1>1, ChosenInv DEF EndCheckBest, InUse
<1> QED
    BY <1>2, CurrentStep DEF EndCheckBest

LEMMA DialStep ==
    ASSUME BalancerInv, Dial PROVE BalancerInv'
<1> DEFINE dialing == current.dialing \union {current.best["tcp"]}
<1>1. ContextInv(current) /\ ScoredOnce(current) /\ "tcp" \in Mode /\ current.servers # <<>>
    BY DEF BalancerInv, Dial
<1>2. dialing \in SUBSET Servers(current)
    BY <1>1, ContextFields DEF ContextInv, BestExists
<1>3. Usable(current.servers, "tcp") => dialing \subseteq Enabled(current.servers, "tcp")
    BY <1>1 DEF ContextInv, OnlyEnabled
<1>4. current' = [current EXCEPT !.dialing = dialing]
    BY DEF Dial
<1> HIDE DEF dialing
<1>5. InUse(current')
    BY <1>1, <1>2, <1>3, <1>4, DialingInv DEF InUse
<1> QED
    BY <1>5, CurrentStep DEF Dial

LEMMA DialEndsStep ==
    ASSUME BalancerInv, NEW i \in Indices, DialEnds(i) PROVE BalancerInv'
<1> DEFINE dialing == current.dialing \ {i}
           ended == [current EXCEPT !.dialing = dialing]
<1>1. ContextInv(current) /\ ScoredOnce(current) /\ i \in current.dialing
    BY DEF BalancerInv, DialEnds
<1>2. dialing \in SUBSET Servers(current) /\ i \in Servers(current) /\ "tcp" \in Mode
    BY <1>1, ContextFields DEF ContextInv
<1>3. Usable(current.servers, "tcp") =>
          dialing \subseteq Enabled(current.servers, "tcp") /\ i \in Enabled(current.servers, "tcp")
    BY <1>1, <1>2 DEF ContextInv, OnlyEnabled
<1>4. IF i \in down THEN current' \in PushScore(ended, i, "tcp", "errored") ELSE current' = ended
    BY DEF DialEnds
<1> HIDE DEF dialing
<1>5. InUse(ended) /\ ended.servers = current.servers
    BY <1>1, <1>2, <1>3, DialingInv DEF InUse
<1> HIDE DEF ended
<1>6. i \in Servers(ended) /\ (i \in Enabled(ended.servers, "tcp") \/ ~Usable(ended.servers, "tcp"))
    BY <1>2, <1>3, <1>5 DEF Servers
<1>7. CASE i \in down
    <2>1. current' \in PushScore(ended, i, "tcp", "errored")
        BY <1>4, <1>7
    <2>2. InUse(current')
        BY <1>2, <1>5, <1>6, <2>1, PushInv DEF InUse
    <2> QED
        BY <2>2, CurrentStep DEF DialEnds
<1>8. CASE i \notin down
    <2>1. InUse(current')
        BY <1>4, <1>5, <1>8
    <2> QED
        BY <2>1, CurrentStep DEF DialEnds
<1> QED
    BY <1>7, <1>8

LEMMA BalancerStep ==
    ASSUME BalancerInv, [Next]_vars PROVE BalancerInv'
<1>1. CASE reset_servers
    BY <1>1, ResetStep
<1>2. CASE BuildFails
    BY <1>2 DEF BuildFails, BalancerInv, TypeOK
<1>3. CASE InitProbe
    BY <1>3, InitProbeStep
<1>4. CASE Swap
    BY <1>4, SwapStep
<1>5. CASE StartCheckAll
    <2>1. InUse(current')
        BY <1>5, CheckOnceInv DEF BalancerInv, StartCheckAll, ProbingRequired, InUse
    <2> QED
        BY <1>5, <2>1, CurrentStep DEF StartCheckAll
<1>6. CASE StartCheckBest
    <2>1. InUse(current')
        BY <1>6, CheckBestInv DEF BalancerInv, StartCheckBest, ProbingRequired, InUse
    <2> QED
        BY <1>6, <2>1, CurrentStep DEF StartCheckBest
<1>7. CASE Probe("all") \/ Probe("favoured")
    BY <1>7, ProbeStep DEF Tasks
<1>8. CASE EndCheckAll
    BY <1>8, EndCheckAllStep
<1>9. CASE EndCheckBest
    BY <1>9, EndCheckBestStep
<1>10. CASE Dial
    BY <1>10, DialStep
<1>11. ASSUME NEW i \in Indices, DialEnds(i) PROVE BalancerInv'
    BY <1>11, DialEndsStep
<1>12. ASSUME NEW i \in Indices, Flip(i) PROVE BalancerInv'
    <2>1. TypeOK'
        BY <1>12, Bounds DEF Flip, BalancerInv, TypeOK
    <2> QED
        BY <1>12, <2>1 DEF Flip, BalancerInv
<1>13. CASE UNCHANGED vars
    BY <1>13 DEF vars, BalancerInv, TypeOK
<1> QED
    BY <1>1, <1>2, <1>3, <1>4, <1>5, <1>6, <1>7, <1>8, <1>9, <1>10, <1>11, <1>12, <1>13 DEF Next

\* The invariant of the balancer is inductive: whatever order probes, dials,
\* checks and reloads come in, only servers of a protocol are probed and
\* scored for it, and every choice finds a score.
THEOREM BalancerInvariant == Spec => []BalancerInv
<1>1. Init => BalancerInv
    BY BalancerInit
<1>2. BalancerInv /\ [Next]_vars => BalancerInv'
    BY BalancerStep
<1> QED
    BY <1>1, <1>2, PTL DEF Spec

\* The state of the balancer keeps its type, for every list of servers.
THEOREM BalancerTypes == Spec => []TypeOK
<1>1. BalancerInv => TypeOK
    BY DEF BalancerInv
<1> QED
    BY <1>1, BalancerInvariant, PTL

\* A connection is never given a server that does not serve its protocol while
\* there is one that does and whose score cannot saturate
\* (PingBalancerContext::check_once, find_best_idx, connect_proxied).
THEOREM UsableIsGiven == Spec => []BestIsUsable
<1>1. BalancerInv => BestIsUsable
    <2> SUFFICES ASSUME BalancerInv, current # None, current.servers # <<>>, NEW t \in Mode
                 PROVE  /\ current.best[t] \in Servers(current)
                        /\ Usable(current.servers, t) => current.best[t] \in Enabled(current.servers, t)
        BY DEF BestIsUsable, Usable
    <2> QED
        BY DEF BalancerInv, ContextInv, BestExists, OnlyEnabled
<1> QED
    BY <1>1, BalancerInvariant, PTL
=============================================================================
