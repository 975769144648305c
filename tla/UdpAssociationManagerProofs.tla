-------------------- MODULE UdpAssociationManagerProofs --------------------
(***************************************************************************)
(* No association task is lost, expired associations are collected in     *)
(* time, and only silent ones expire: for every number of peers, every    *)
(* capacity of the map and the channels and every time to live.            *)
(***************************************************************************)
EXTENDS UdpAssociationManager, SequenceTheorems, WellFoundedInduction, TLAPS

LEMMA Sizes ==
    /\ Capacity \in Nat \ {0} /\ TimeToLive \in Nat \ {0}
    /\ SendChannelSize \in Nat \ {0} /\ KeepAliveChannelSize \in Nat \ {0}
    /\ MaxErrors \in Nat
    /\ MaxAge \in Nat /\ MaxAge = 2 * TimeToLive + MaxErrors + 1
BY SizesAssumption DEF MaxAge

-----------------------------------------------------------------------------
(***************************************************************************)
(* The map as a sequence: different peers, in the order of their ages.     *)
(***************************************************************************)

Ages == [Peers -> 0 .. MaxAge]
Entries(ages) == {s \in Seq(Peers) : IsInjective(s) /\ InOrder(ages, s)}

LEMMA SuffixFacts ==
    ASSUME NEW ages, NEW s \in Entries(ages), NEW k \in 1 .. Len(s) + 1
    PROVE  LET q == SubSeq(s, k, Len(s)) IN
           /\ q \in Entries(ages) /\ Len(q) = Len(s) - k + 1
           /\ \A i \in DOMAIN q : q[i] = s[i + k - 1]
           /\ Range(q) = {s[i] : i \in k .. Len(s)}
           /\ Range(q) \subseteq Range(s)
<1> DEFINE q == SubSeq(s, k, Len(s))
<1>1. s \in Seq(Peers) /\ Len(s) \in Nat /\ DOMAIN s = 1 .. Len(s)
    BY DEF Entries
<1>2. \A i, j \in DOMAIN s : (s[i] = s[j] => i = j) /\ (i <= j => ages[s[j]] <= ages[s[i]])
    BY DEF Entries, IsInjective, InOrder
<1>3. /\ q \in Seq(Peers) /\ Len(q) = Len(s) - k + 1 /\ DOMAIN q = 1 .. Len(q)
      /\ \A i \in 1 .. Len(q) : q[i] = s[i + k - 1]
    BY <1>1
<1> HIDE DEF q
<1>4. \A i \in DOMAIN q : i + k - 1 \in DOMAIN s /\ i + k - 1 \in k .. Len(s)
    BY <1>1, <1>3
<1>5. IsInjective(q)
    <2> SUFFICES ASSUME NEW i \in DOMAIN q, NEW j \in DOMAIN q, q[i] = q[j] PROVE i = j
        BY DEF IsInjective
    <2>1. i + k - 1 = j + k - 1
        BY <1>2, <1>3, <1>4
    <2> QED
        BY <1>1, <1>3, <2>1
<1>6. InOrder(ages, q)
    <2> SUFFICES ASSUME NEW i \in DOMAIN q, NEW j \in DOMAIN q, i <= j PROVE ages[q[j]] <= ages[q[i]]
        BY DEF InOrder
    <2>1. i + k - 1 <= j + k - 1
        BY <1>1, <1>3
    <2> QED
        BY <1>2, <1>3, <1>4, <2>1
<1>7. ASSUME NEW i \in k .. Len(s) PROVE s[i] \in Range(q)
    <2>1. i - k + 1 \in DOMAIN q /\ (i - k + 1) + k - 1 = i
        BY <1>1, <1>3
    <2> QED
        BY <1>3, <2>1 DEF Range
<1>8. Range(q) = {s[i] : i \in k .. Len(s)}
    BY <1>3, <1>4, <1>7 DEF Range
<1>9. k .. Len(s) \subseteq DOMAIN s
    BY <1>1
<1>10. Range(q) \subseteq Range(s)
    BY <1>8, <1>9 DEF Range
<1> QED
    BY <1>3, <1>5, <1>6, <1>8, <1>10 DEF Entries, q

LEMMA RemoveAtFacts ==
    ASSUME NEW ages, NEW s \in Entries(ages), NEW i \in DOMAIN s
    PROVE  LET q == RemoveAt(s, i) IN
           /\ q \in Entries(ages) /\ Len(q) = Len(s) - 1
           /\ Range(q) = Range(s) \ {s[i]}
<1> DEFINE q == RemoveAt(s, i)
           from(k) == IF k < i THEN k ELSE k + 1
<1>1. s \in Seq(Peers) /\ Len(s) \in Nat /\ DOMAIN s = 1 .. Len(s) /\ i \in 1 .. Len(s)
    BY DEF Entries
<1>2. \A a, b \in DOMAIN s : (s[a] = s[b] => a = b) /\ (a <= b => ages[s[b]] <= ages[s[a]])
    BY DEF Entries, IsInjective, InOrder
<1>3. /\ q \in Seq(Peers) /\ Len(q) = Len(s) - 1 /\ DOMAIN q = 1 .. Len(q)
      /\ \A k \in 1 .. Len(q) : q[k] = s[from(k)]
    <2> DEFINE left  == SubSeq(s, 1, i - 1)
               right == SubSeq(s, i + 1, Len(s))
    <2>1. /\ left \in Seq(Peers) /\ Len(left) = i - 1
          /\ \A k \in 1 .. i - 1 : left[k] = s[k]
        BY <1>1
    <2>2. /\ right \in Seq(Peers) /\ Len(right) = Len(s) - i
          /\ \A k \in 1 .. Len(s) - i : right[k] = s[k + i]
        BY <1>1
    <2>3. q = left \o right
        BY DEF RemoveAt
    <2> HIDE DEF left, right, q
    <2>4. /\ q \in Seq(Peers) /\ Len(q) = Len(left) + Len(right)
          /\ \A k \in 1 .. Len(left) + Len(right) :
                q[k] = IF k <= Len(left) THEN left[k] ELSE right[k - Len(left)]
        BY <2>1, <2>2, <2>3, ConcatProperties, Zenon
    <2>5. \A k \in 1 .. Len(q) : q[k] = IF k <= Len(left) THEN left[k] ELSE right[k - Len(left)]
        BY <2>4
    <2>6. Len(q) = Len(s) - 1 /\ DOMAIN q = 1 .. Len(q)
        BY <1>1, <2>1, <2>2, <2>4
    <2>7. ASSUME NEW k \in 1 .. Len(q) PROVE q[k] = s[from(k)]
        <3>1. CASE k < i
            BY <1>1, <2>1, <2>5, <3>1
        <3>2. CASE ~(k < i)
            <4>1. k - Len(left) \in 1 .. Len(s) - i /\ (k - Len(left)) + i = k + 1 /\ ~(k <= Len(left))
                BY <1>1, <2>1, <2>6, <3>2
            <4>2. q[k] = right[k - Len(left)]
                BY <2>5, <4>1
            <4> QED
                BY <2>2, <3>2, <4>1, <4>2
        <3> QED
            BY <3>1, <3>2
    <2> QED
        BY <2>4, <2>6, <2>7
<1> HIDE DEF q
<1>4. \A k \in DOMAIN q : from(k) \in DOMAIN s /\ from(k) # i
    BY <1>1, <1>3
<1>5. IsInjective(q)
    <2> SUFFICES ASSUME NEW a \in DOMAIN q, NEW b \in DOMAIN q, q[a] = q[b] PROVE a = b
        BY DEF IsInjective
    <2>1. from(a) = from(b)
        BY <1>2, <1>3, <1>4
    <2> QED
        BY <1>1, <1>3, <2>1
<1>6. InOrder(ages, q)
    <2> SUFFICES ASSUME NEW a \in DOMAIN q, NEW b \in DOMAIN q, a <= b PROVE ages[q[b]] <= ages[q[a]]
        BY DEF InOrder
    <2>1. from(a) <= from(b)
        BY <1>1, <1>3
    <2>2. from(a) \in DOMAIN s /\ from(b) \in DOMAIN s
        BY <1>4
    <2>3. q[a] = s[from(a)] /\ q[b] = s[from(b)]
        BY <1>3
    <2> HIDE DEF from
    <2>4. ages[s[from(b)]] <= ages[s[from(a)]]
        BY <1>2, <2>1, <2>2
    <2> QED
        BY <2>3, <2>4
<1>7. ASSUME NEW k \in DOMAIN s, k # i PROVE s[k] \in Range(q)
    <2>1. CASE k < i
        <3>1. k \in DOMAIN q /\ from(k) = k
            BY <1>1, <1>3, <2>1
        <3> QED
            BY <1>3, <3>1 DEF Range
    <2>2. CASE k > i
        <3>1. k - 1 \in DOMAIN q /\ from(k - 1) = k
            BY <1>1, <1>3, <2>2
        <3> QED
            BY <1>3, <3>1 DEF Range
    <2> QED
        BY <1>1, <1>7, <2>1, <2>2
<1> HIDE DEF from
<1>8. Range(q) = Range(s) \ {s[i]}
    BY <1>2, <1>3, <1>4, <1>7 DEF Range
<1> QED
    BY <1>3, <1>5, <1>6, <1>8 DEF Entries, q

\* The entry that is used becomes the last and the youngest.
LEMMA AppendFacts ==
    ASSUME NEW ages \in Ages, NEW s \in Entries(ages), NEW p \in Peers \ Range(s)
    PROVE  LET q == Append(s, p) IN
           /\ q \in Entries([ages EXCEPT ![p] = 0]) /\ Len(q) = Len(s) + 1
           /\ Range(q) = Range(s) \union {p}
<1> DEFINE q == Append(s, p)
           b == [ages EXCEPT ![p] = 0]
<1>1. s \in Seq(Peers) /\ Len(s) \in Nat /\ DOMAIN s = 1 .. Len(s)
    BY DEF Entries
<1>2. \A i, j \in DOMAIN s : (s[i] = s[j] => i = j) /\ (i <= j => ages[s[j]] <= ages[s[i]])
    BY DEF Entries, IsInjective, InOrder
<1>3. /\ q \in Seq(Peers) /\ Len(q) = Len(s) + 1 /\ DOMAIN q = 1 .. Len(s) + 1
      /\ q[Len(s) + 1] = p /\ \A i \in DOMAIN s : q[i] = s[i]
    BY <1>1
<1>4. \A i \in DOMAIN s : s[i] # p /\ s[i] \in Peers
    BY <1>1 DEF Range
<1>5. /\ b[p] = 0 /\ \A r \in Peers : b[r] \in Nat
      /\ \A i \in DOMAIN s : b[s[i]] = ages[s[i]]
    BY <1>4, Sizes DEF Ages
<1> HIDE DEF q, b
<1>6. \A i \in DOMAIN q : i \in DOMAIN s \/ i = Len(s) + 1
    BY <1>1, <1>3
<1>7. IsInjective(q)
    <2> SUFFICES ASSUME NEW i \in DOMAIN q, NEW j \in DOMAIN q, q[i] = q[j] PROVE i = j
        BY DEF IsInjective
    <2> QED
        BY <1>2, <1>3, <1>4, <1>6
<1>8. InOrder(b, q)
    <2> SUFFICES ASSUME NEW i \in DOMAIN q, NEW j \in DOMAIN q, i <= j PROVE b[q[j]] <= b[q[i]]
        BY DEF InOrder
    <2>1. CASE j = Len(s) + 1
        <3>1. q[i] \in Peers /\ b[q[j]] = 0
            BY <1>3, <1>5, <2>1
        <3> QED
            BY <1>5, <3>1
    <2>2. CASE j \in DOMAIN s
        <3>1. i \in DOMAIN s
            BY <1>1, <1>3, <2>2
        <3> QED
            BY <1>2, <1>3, <1>5, <2>2, <3>1
    <2> QED
        BY <1>6, <2>1, <2>2
<1>9. Range(q) = Range(s) \union {p}
    BY <1>1, <1>3, <1>6 DEF Range
<1> QED
    BY <1>3, <1>7, <1>8, <1>9 DEF Entries, q, b

-----------------------------------------------------------------------------
(***************************************************************************)
(* The operations of the map.                                              *)
(***************************************************************************)

LEMMA HasLeast ==
    ASSUME NEW S \in SUBSET Nat, S # {}
    PROVE  Min(S) \in S /\ \A n \in S : Min(S) <= n
<1>1. PICK m \in S : \A n \in S : ~(<<n, m>> \in OpToRel(<, Nat))
    BY NatLessThanWellFounded, WFMin
<1>2. ASSUME NEW n \in S PROVE m <= n
    <2>1. m \in Nat /\ n \in Nat /\ ~(n < m)
        BY <1>1 DEF OpToRel
    <2> QED
        BY <2>1
<1> QED
    BY <1>2 DEF Min

LEMMA MapType ==
    ASSUME TypeOK, AgesInOrder
    PROVE  age \in Ages /\ assoc_map \in Entries(age) /\ Tracked \in SUBSET Peers
BY DEF TypeOK, AgesInOrder, Ages, Entries, Tracked, Range

\* remove_expired leaves exactly the entries that have not expired.
LEMMA FreshFacts ==
    ASSUME TypeOK, AgesInOrder
    PROVE  /\ Fresh \in Entries(age) /\ Len(Fresh) <= Len(assoc_map)
           /\ Range(Fresh) = {p \in Tracked : ~Expired(p)}
<1> DEFINE s == assoc_map
<1>1. age \in Ages /\ s \in Entries(age)
    BY MapType
<1>2. s \in Seq(Peers) /\ Len(s) \in Nat /\ DOMAIN s = 1 .. Len(s) /\ Live \subseteq DOMAIN s
    BY <1>1 DEF Entries, Live
<1>3. \A i \in DOMAIN s : age[s[i]] \in Nat
    BY <1>1, <1>2, Sizes DEF Ages
<1>4. CASE Live = {}
    <2>1. Fresh = <<>>
        BY <1>4 DEF Fresh
    <2>2. Fresh \in Entries(age) /\ Len(Fresh) = 0 /\ Range(Fresh) = {}
        BY <2>1 DEF Entries, IsInjective, InOrder, Range
    <2>3. {p \in Tracked : ~Expired(p)} = {}
        BY <1>4 DEF Live, Tracked, Range
    <2> QED
        BY <1>2, <2>2, <2>3
<1>5. CASE Live # {}
    <2> DEFINE m == Min(Live)
    <2>1. m \in Live /\ \A n \in Live : m <= n
        BY <1>2, <1>5, HasLeast
    <2>2. Fresh = SubSeq(s, m, Len(s))
        BY <1>5 DEF Fresh
    <2> HIDE DEF m
    <2>3. m \in 1 .. Len(s) + 1
        BY <1>2, <2>1
    <2>4. Fresh \in Entries(age) /\ Len(Fresh) = Len(s) - m + 1 /\ Range(Fresh) = {s[i] : i \in m .. Len(s)}
        BY <1>1, <2>2, <2>3, SuffixFacts
    <2>5. ASSUME NEW i \in DOMAIN s PROVE i \in m .. Len(s) <=> ~Expired(s[i])
        <3>1. CASE i >= m
            <4>1. age[s[i]] <= age[s[m]] /\ ~(age[s[m]] > TimeToLive) /\ m \in DOMAIN s
                BY <1>1, <1>2, <2>1, <3>1 DEF Entries, InOrder, Live, Expired
            <4> QED
                BY <1>2, <1>3, <3>1, <4>1, Sizes DEF Expired
        <3>2. CASE ~(i >= m)
            BY <1>2, <2>1, <2>5, <3>2 DEF Live
        <3> QED
            BY <3>1, <3>2
    <2>6. m .. Len(s) \subseteq DOMAIN s
        BY <1>2, <2>1
    <2>7. Range(Fresh) = {p \in Tracked : ~Expired(p)}
        BY <2>4, <2>5, <2>6 DEF Tracked, Range
    <2> QED
        BY <1>2, <2>1, <2>4, <2>7
<1> QED
    BY <1>4, <1>5

LEMMA TouchedFacts ==
    ASSUME TypeOK, AgesInOrder, NEW p \in Range(Fresh)
    PROVE  /\ Touched(p) \in Entries([age EXCEPT ![p] = 0])
           /\ Len(Touched(p)) = Len(Fresh) /\ Range(Touched(p)) = Range(Fresh)
<1> DEFINE i == CHOOSE i \in DOMAIN Fresh : Fresh[i] = p
           q == RemoveAt(Fresh, i)
<1>1. i \in DOMAIN Fresh /\ Fresh[i] = p
    BY DEF Range
<1>2. Touched(p) = Append(q, p)
    BY DEF Touched
<1> HIDE DEF i
<1>3. Fresh \in Entries(age) /\ Fresh \in Seq(Peers)
    BY FreshFacts DEF Entries
<1>4. q \in Entries(age) /\ Len(q) = Len(Fresh) - 1 /\ Range(q) = Range(Fresh) \ {p}
    BY <1>1, <1>3, RemoveAtFacts
<1> HIDE DEF q
<1>5. p \in Peers \ Range(q) /\ age \in Ages
    BY <1>1, <1>3, <1>4, MapType
<1>6. /\ Append(q, p) \in Entries([age EXCEPT ![p] = 0]) /\ Len(Append(q, p)) = Len(q) + 1
      /\ Range(Append(q, p)) = Range(q) \union {p}
    BY <1>4, <1>5, AppendFacts
<1> QED
    BY <1>2, <1>3, <1>4, <1>6

-----------------------------------------------------------------------------
(***************************************************************************)
(* The operations on a task.                                               *)
(***************************************************************************)

LEMMA LaterType ==
    ASSUME NEW n \in 0 .. TimeToLive
    PROVE  /\ Later(n) \in 0 .. TimeToLive /\ Later(n) > 0
           /\ n < TimeToLive => Later(n) = n + 1
           /\ n = TimeToLive => Later(n) = TimeToLive
BY Sizes DEF Later, Capped

LEMMA NewTaskFacts == NewTask \in Task /\ NewTask.answered = FALSE
BY Sizes DEF NewTask, Task

LEMMA RestartedFacts ==
    ASSUME NEW t \in Task
    PROVE  /\ Restarted(t) \in Task /\ Restarted(t).answered = FALSE
           /\ Restarted(t).received = t.received
<1>1. 0 \in 0 .. TimeToLive /\ FALSE \in BOOLEAN
    BY Sizes
<1> QED
    BY <1>1 DEF Restarted, Task

LEMMA EnqueueFacts ==
    ASSUME NEW t \in Task
    PROVE  Enqueue(t) \in Task /\ Enqueue(t).answered = FALSE
<1> DEFINE r == Restarted(t)
<1>1. r \in Task /\ r.answered = FALSE
    BY RestartedFacts
<1>2. Enqueue(t) = [r EXCEPT !.received = IF @ < SendChannelSize THEN @ + 1 ELSE @]
    BY DEF Enqueue
<1> HIDE DEF r
<1> QED
    BY <1>1, <1>2, Sizes DEF Task

LEMMA TakenFacts ==
    ASSUME NEW t \in Task, t.received > 0
    PROVE  LET n == Taken(t) IN
           /\ n \in Task /\ n.due = t.due /\ n.answered = t.answered /\ n.silent = t.silent
           /\ n.keepalive_flag = t.keepalive_flag /\ n.missed = t.missed
<1>1. t.received - 1 \in 0 .. SendChannelSize
    BY Sizes DEF Task
<1> QED
    BY <1>1 DEF Taken, Task

LEMMA TickedFacts ==
    ASSUME NEW t \in Task, t.due > 0
    PROVE  LET n == Ticked(t) IN
           /\ n \in Task /\ n.due = t.due - 1 /\ n.answered = t.answered /\ n.silent = t.silent
           /\ n.keepalive_flag = t.keepalive_flag /\ n.missed = t.missed
<1>1. t.due - 1 \in 0 .. TimeToLive
    BY Sizes DEF Task
<1> QED
    BY <1>1 DEF Ticked, Task

LEMMA MissedFacts ==
    ASSUME NEW t \in Task, t.due > 0
    PROVE  LET m == Missed(t) IN
           /\ m \in Task /\ m.due = t.due - 1 /\ m.answered = t.answered /\ m.silent = t.silent
           /\ m.keepalive_flag = t.keepalive_flag
           /\ m.missed = IF t.due = 1 THEN Later(t.missed) ELSE t.missed
<1> DEFINE n == Ticked(t)
<1>1. t.missed \in 0 .. TimeToLive /\ Later(t.missed) \in 0 .. TimeToLive
    BY LaterType DEF Task
<1>2. /\ n \in Task /\ n.due = t.due - 1 /\ n.answered = t.answered /\ n.silent = t.silent
      /\ n.keepalive_flag = t.keepalive_flag /\ n.missed = t.missed
    BY TickedFacts
<1>3. Missed(t) = [n EXCEPT !.missed = IF t.due = 1 THEN Later(t.missed) ELSE t.missed]
    BY <1>2 DEF Missed
<1> HIDE DEF n
<1> QED
    BY <1>1, <1>2, <1>3 DEF Task

LEMMA AgedFacts ==
    ASSUME NEW t \in Task
    PROVE  LET a == Aged(t) IN
           /\ a \in Task /\ a.due > 0 /\ a.answered = t.answered
           /\ a.keepalive_flag = t.keepalive_flag
           /\ a.silent = IF t.answered THEN t.silent ELSE Later(t.silent)
           /\ a.missed = IF t.answered /\ t.at = "busy" THEN Later(t.missed) ELSE t.missed
<1>1. /\ t.due \in 0 .. TimeToLive /\ Later(t.due) \in 0 .. TimeToLive /\ Later(t.due) > 0
      /\ t.silent \in 0 .. TimeToLive /\ Later(t.silent) \in 0 .. TimeToLive
      /\ t.missed \in 0 .. TimeToLive /\ Later(t.missed) \in 0 .. TimeToLive
    BY LaterType DEF Task
<1> QED
    BY <1>1 DEF Aged, Task

-----------------------------------------------------------------------------
(***************************************************************************)
(* A step that uses the map: the entries in kept stay as they are, those   *)
(* in touched become young, all others are dropped with their tasks.       *)
(***************************************************************************)

MapChange(kept, touched) ==
    /\ kept \subseteq Tracked /\ touched \subseteq Peers
    /\ assoc_map' \in Entries(age') /\ Len(assoc_map') <= Capacity
    /\ Range(assoc_map') = kept \union touched
    /\ age' \in Ages
    /\ \A p \in touched : age'[p] = 0 /\ task'[p] \in Task /\ task'[p].answered = FALSE
    /\ \A p \in Peers \ touched : age'[p] = age[p]
    /\ task' \in [Peers -> Task \union {NoTask}]
    /\ \A p \in kept \ touched : task'[p] = task[p]
    /\ \A p \in Peers \ (kept \union touched) : task'[p] = NoTask
    /\ keepalive' \in Seq(Peers) /\ Len(keepalive') <= KeepAliveChannelSize
    /\ \A p \in kept \ touched : p \in Range(keepalive) => p \in Range(keepalive')
    /\ cleanup' \in -MaxErrors .. TimeToLive /\ cleanup' >= cleanup
    /\ \A p \in kept : age[p] + cleanup' <= 2 * TimeToLive
    /\ UNCHANGED <<sleeping, errors>>

LEMMA TaskTypes ==
    ASSUME TypeOK, TasksAreTracked
    PROVE  /\ \A p \in Tracked : task[p] \in Task
           /\ \A p \in Peers \ Tracked : task[p] = NoTask
BY DEF TypeOK, TasksAreTracked, Running

LEMMA SumGrows ==
    ASSUME NEW a \in Int, NEW b \in Int, NEW n \in Nat, a + n >= 0, b >= a
    PROVE  n >= 0 /\ b + n >= 0
OBVIOUS

LEMMA MapStep ==
    ASSUME ManagerInv, NEW kept, NEW touched, MapChange(kept, touched)
    PROVE  ManagerInv'
<1> USE DEF MapChange
<1>1. /\ TypeOK /\ TasksAreTracked /\ AgesInOrder /\ CleanupInTime /\ KeptAlive /\ SecondsAccounted
    BY DEF ManagerInv
<1>2. Tracked \in SUBSET Peers /\ Tracked' = kept \union touched
    BY <1>1, MapType DEF Tracked
<1>3. /\ \A p \in kept \ touched : task'[p] \in Task /\ task'[p] = task[p]
      /\ \A p \in Peers \ (kept \union touched) : task'[p] = NoTask
    BY <1>1, TaskTypes
<1>4. TypeOK'
    BY <1>1 DEF TypeOK, Entries, Ages
<1>5. AgesInOrder'
    BY DEF AgesInOrder, Entries
<1>6. TasksAreTracked'
    <2>1. Running' = {p \in Peers : task'[p] # NoTask}
        BY DEF Running
    <2>2. \A p \in kept \union touched : task'[p] # NoTask
        BY <1>3, NoTaskAssumption
    <2>3. Running' = kept \union touched
        BY <1>2, <1>3, <2>1, <2>2
    <2> QED
        BY <1>2, <2>3 DEF TasksAreTracked
<1>7. Slept' = Slept /\ Slept \in Nat /\ cleanup \in Int /\ cleanup' \in Int
    BY <1>1, Sizes DEF Slept, TypeOK, CleanupInTime
<1>8. CleanupInTime'
    <2>0. cleanup + Slept >= 0 /\ cleanup' >= cleanup
        BY <1>1 DEF CleanupInTime
    <2>1. Slept' >= 0 /\ cleanup' + Slept' >= 0
        BY <1>7, <2>0, SumGrows
    <2>2. ASSUME NEW p \in Tracked' PROVE age'[p] + cleanup' <= 2 * TimeToLive
        <3>1. CASE p \in touched
            BY <3>1, Sizes
        <3>2. CASE p \in kept \ touched
            BY <1>2, <3>2
        <3> QED
            BY <1>2, <2>2, <3>1, <3>2
    <2> QED
        BY <2>1, <2>2 DEF CleanupInTime
<1>9. KeptAlive'
    <2> SUFFICES ASSUME NEW p \in Running', task'[p].answered, ~task'[p].keepalive_flag
                 PROVE  p \in Range(keepalive')
        BY DEF KeptAlive
    <2>1. p \in kept \union touched
        BY <1>2, <1>6 DEF TasksAreTracked
    <2>2. p \in kept \ touched
        BY <2>1
    <2>3. p \in Running /\ task[p].answered /\ ~task[p].keepalive_flag
        BY <1>1, <1>3, <2>2 DEF TasksAreTracked
    <2> QED
        BY <1>1, <2>2, <2>3 DEF KeptAlive
<1>10. SecondsAccounted'
    <2> SUFFICES ASSUME NEW p \in Tracked'
                 PROVE  \/ task'[p].silent = TimeToLive \/ task'[p].missed = TimeToLive
                        \/ age'[p] <= task'[p].silent + task'[p].missed + Slept' + Owed(p)'
        BY DEF SecondsAccounted
    <2>1. task'[p] \in Task /\ task'[p].silent \in Nat /\ task'[p].missed \in Nat
        BY <1>2, <1>3, Sizes DEF Task
    <2>2. Owed(p)' \in {0, 1}
        BY DEF Owed
    <2>3. CASE p \in touched
        BY <1>7, <2>1, <2>2, <2>3
    <2>4. CASE p \in kept \ touched
        <3>1. /\ task'[p] = task[p] /\ age'[p] = age[p] /\ age[p] \in Nat
            BY <1>2, <1>3, <2>4, <1>1, MapType, Sizes DEF Ages
        <3>2. \/ task[p].silent = TimeToLive \/ task[p].missed = TimeToLive
              \/ age[p] <= task[p].silent + task[p].missed + Slept + Owed(p)
            BY <1>1, <2>4 DEF SecondsAccounted
        <3>3. Owed(p) <= Owed(p)' /\ Owed(p) \in {0, 1}
            BY <2>4, <3>1 DEF Owed
        <3> QED
            BY <1>7, <2>1, <2>2, <3>1, <3>2, <3>3
    <2> QED
        BY <1>2, <2>3, <2>4
<1> QED
    BY <1>4, <1>5, <1>6, <1>8, <1>9, <1>10 DEF ManagerInv

\* What Keep leaves of the tasks.
LEMMA KeepFacts ==
    ASSUME TypeOK, TasksAreTracked, NEW entries
    PROVE  /\ Keep(entries) \in [Peers -> Task \union {NoTask}]
           /\ \A p \in Peers : p \in Range(entries) => Keep(entries)[p] = task[p]
           /\ \A p \in Peers \ Range(entries) : Keep(entries)[p] = NoTask
BY TaskTypes DEF TypeOK, Keep, Abort

\* Entries that have not expired can wait for the next cleanup.
LEMMA FreshInTime ==
    ASSUME ManagerInv, NEW p \in Range(Fresh)
    PROVE  p \in Tracked /\ p \in Peers /\ age[p] \in Nat /\ age[p] <= TimeToLive
           /\ age[p] + cleanup <= 2 * TimeToLive
<1>1. TypeOK /\ AgesInOrder /\ CleanupInTime
    BY DEF ManagerInv
<1>2. p \in Tracked /\ p \in Peers /\ ~(age[p] > TimeToLive)
    BY <1>1, FreshFacts, MapType DEF Expired
<1>3. age[p] \in Nat
    BY <1>1, <1>2, MapType, Sizes DEF Ages
<1> QED
    BY <1>1, <1>2, <1>3, Sizes DEF CleanupInTime

LEMMA FreshFits ==
    ASSUME TypeOK, TasksAreTracked, AgesInOrder
    PROVE  Fresh \in Entries(age) /\ Len(Fresh) \in Nat /\ Len(Fresh) <= Capacity
<1>1. Fresh \in Entries(age) /\ Len(Fresh) <= Len(assoc_map) /\ Len(assoc_map) <= Capacity
    BY FreshFacts DEF TasksAreTracked
<1>2. Len(Fresh) \in Nat /\ Len(assoc_map) \in Nat
    BY <1>1 DEF TypeOK, Entries
<1> QED
    BY <1>1, <1>2, Sizes

LEMMA SendToKnownStep ==
    ASSUME ManagerInv, NEW p \in Peers, SendToKnown(p) PROVE ManagerInv'
<1> DEFINE kept == Range(Fresh) \ {p}
<1>1. TypeOK /\ TasksAreTracked /\ AgesInOrder
    BY DEF ManagerInv
<1>2. p \in Range(Fresh) /\ assoc_map' = Touched(p) /\ age' = [age EXCEPT ![p] = 0]
    BY DEF SendToKnown
<1>3. /\ assoc_map' \in Entries(age') /\ Len(assoc_map') = Len(Fresh) /\ Range(assoc_map') = Range(Fresh)
    BY <1>1, <1>2, TouchedFacts
<1>4. Len(assoc_map') <= Capacity
    BY <1>1, <1>3, FreshFits
<1>5. kept \subseteq Tracked /\ p \in Tracked /\ \A q \in kept : age[q] + cleanup <= 2 * TimeToLive
    BY <1>2, FreshInTime
<1>6. age' \in Ages /\ age'[p] = 0 /\ \A q \in Peers \ {p} : age'[q] = age[q]
    BY <1>1, <1>2, MapType, Sizes DEF Ages
<1> DEFINE k == Keep(assoc_map')
<1>7. /\ k \in [Peers -> Task \union {NoTask}]
      /\ \A q \in Peers : q \in Range(Fresh) => k[q] = task[q]
      /\ \A q \in Peers \ Range(Fresh) : k[q] = NoTask
    BY <1>1, <1>3, KeepFacts
<1>8. task' = [k EXCEPT ![p] = Enqueue(k[p])]
    BY DEF SendToKnown
<1> HIDE DEF k
<1>9. k[p] \in Task
    BY <1>1, <1>2, <1>5, <1>7, TaskTypes
<1>10. Enqueue(k[p]) \in Task /\ Enqueue(k[p]).answered = FALSE
    BY <1>9, EnqueueFacts
<1>11. /\ task' \in [Peers -> Task \union {NoTask}] /\ task'[p] = Enqueue(k[p])
       /\ \A q \in Peers \ {p} : task'[q] = k[q]
    BY <1>7, <1>8, <1>10
<1>12. \A q \in kept : task'[q] = task[q]
    BY <1>1, <1>5, <1>7, <1>11, MapType
<1>13. \A q \in Peers \ (kept \union {p}) : task'[q] = NoTask
    BY <1>7, <1>11
<1>14. /\ UNCHANGED <<keepalive, cleanup, sleeping, errors>> /\ Range(assoc_map') = kept \union {p}
       /\ keepalive' \in Seq(Peers) /\ Len(keepalive') <= KeepAliveChannelSize
       /\ cleanup' \in -MaxErrors .. TimeToLive /\ cleanup' >= cleanup
    BY <1>1, <1>2, <1>3, Sizes DEF SendToKnown, TypeOK
<1>15. task'[p] \in Task /\ task'[p].answered = FALSE
    BY <1>10, <1>11
<1> HIDE DEF kept
<1>16. MapChange(kept, {p})
    BY <1>3, <1>4, <1>5, <1>6, <1>11, <1>12, <1>13, <1>14, <1>15 DEF MapChange
<1> QED
    BY <1>16, MapStep

LEMMA SendToNewStep ==
    ASSUME ManagerInv, NEW p \in Peers, SendToNew(p) PROVE ManagerInv'
<1> DEFINE stay == IF Len(Fresh) < Capacity THEN Fresh
                   ELSE SubSeq(Fresh, Len(Fresh) - Capacity + 2, Len(Fresh))
           kept == Range(stay)
<1>1. TypeOK /\ TasksAreTracked /\ AgesInOrder
    BY DEF ManagerInv
<1>2. /\ p \notin Range(Fresh) /\ age' = [age EXCEPT ![p] = 0] /\ assoc_map' = Append(stay, p)
      /\ task' = [Keep(stay) EXCEPT ![p] = Enqueue(NewTask)]
    BY DEF SendToNew
<1>3. /\ Fresh \in Entries(age) /\ Len(Fresh) \in Nat /\ Len(Fresh) <= Capacity
    BY <1>1, FreshFits
<1>4. stay \in Entries(age) /\ Len(stay) + 1 <= Capacity /\ Range(stay) \subseteq Range(Fresh)
    <2>1. CASE Len(Fresh) < Capacity
        BY <1>3, <2>1, Sizes
    <2>2. CASE ~(Len(Fresh) < Capacity)
        <3> DEFINE k == Len(Fresh) - Capacity + 2
        <3>1. k \in 1 .. Len(Fresh) + 1 /\ k = 2
            BY <1>3, <2>2, Sizes
        <3>2. stay = SubSeq(Fresh, k, Len(Fresh))
            BY <2>2
        <3> HIDE DEF k
        <3>3. /\ SubSeq(Fresh, k, Len(Fresh)) \in Entries(age)
              /\ Len(SubSeq(Fresh, k, Len(Fresh))) = Len(Fresh) - k + 1
              /\ Range(SubSeq(Fresh, k, Len(Fresh))) \subseteq Range(Fresh)
            BY <1>3, <3>1, SuffixFacts
        <3>4. Len(Fresh) - k + 1 + 1 <= Capacity
            BY <1>3, <3>1, Sizes
        <3> QED
            BY <3>2, <3>3, <3>4
    <2> QED
        BY <2>1, <2>2
<1> HIDE DEF stay
<1>5. age \in Ages /\ p \in Peers \ Range(stay)
    BY <1>1, <1>2, <1>4, MapType
<1>6. /\ assoc_map' \in Entries(age') /\ Len(assoc_map') <= Capacity /\ Range(assoc_map') = kept \union {p}
    BY <1>2, <1>4, <1>5, AppendFacts
<1>7. \A q \in kept : q \in Tracked /\ q \in Peers /\ age[q] + cleanup <= 2 * TimeToLive
    BY <1>4, FreshInTime
<1>8. age' \in Ages /\ age'[p] = 0 /\ \A q \in Peers \ {p} : age'[q] = age[q]
    BY <1>2, <1>5, Sizes DEF Ages
<1> DEFINE k == Keep(stay)
<1>9. /\ k \in [Peers -> Task \union {NoTask}]
      /\ \A q \in Peers : q \in kept => k[q] = task[q]
      /\ \A q \in Peers \ kept : k[q] = NoTask
    BY <1>1, KeepFacts
<1>10. task' = [k EXCEPT ![p] = Enqueue(NewTask)] /\ p \notin kept
    BY <1>2, <1>5
<1> HIDE DEF k, kept
<1>11. Enqueue(NewTask) \in Task /\ Enqueue(NewTask).answered = FALSE
    BY NewTaskFacts, EnqueueFacts
<1>12. /\ task' \in [Peers -> Task \union {NoTask}] /\ task'[p] = Enqueue(NewTask)
       /\ \A q \in Peers \ {p} : task'[q] = k[q]
    BY <1>9, <1>10, <1>11
<1>13. \A q \in kept \ {p} : task'[q] = task[q]
    BY <1>7, <1>9, <1>12
<1>14. \A q \in Peers \ (kept \union {p}) : task'[q] = NoTask
    BY <1>9, <1>12
<1>15. /\ UNCHANGED <<keepalive, cleanup, sleeping, errors>>
       /\ keepalive' \in Seq(Peers) /\ Len(keepalive') <= KeepAliveChannelSize
       /\ cleanup' \in -MaxErrors .. TimeToLive /\ cleanup' >= cleanup
    BY <1>1, Sizes DEF SendToNew, TypeOK
<1>16. task'[p] \in Task /\ task'[p].answered = FALSE
    BY <1>11, <1>12
<1>17. MapChange(kept, {p})
    BY <1>6, <1>7, <1>8, <1>12, <1>13, <1>14, <1>15, <1>16 DEF MapChange
<1> QED
    BY <1>17, MapStep

LEMMA TailFacts ==
    ASSUME NEW s \in Seq(Peers), s # <<>>
    PROVE  /\ Head(s) \in Peers /\ Tail(s) \in Seq(Peers) /\ Len(Tail(s)) <= Len(s)
           /\ \A q \in Range(s) : q = Head(s) \/ q \in Range(Tail(s))
<1>1. /\ Len(s) \in Nat \ {0} /\ DOMAIN s = 1 .. Len(s) /\ Head(s) = s[1] /\ Head(s) \in Peers
      /\ Tail(s) \in Seq(Peers) /\ Len(Tail(s)) = Len(s) - 1 /\ DOMAIN Tail(s) = 1 .. Len(s) - 1
      /\ \A i \in 1 .. Len(s) - 1 : Tail(s)[i] = s[i + 1]
    OBVIOUS
<1>2. ASSUME NEW i \in DOMAIN s, i # 1 PROVE s[i] \in Range(Tail(s))
    <2>1. i - 1 \in DOMAIN Tail(s) /\ (i - 1) + 1 = i
        BY <1>1, <1>2
    <2> QED
        BY <1>1, <2>1 DEF Range
<1> QED
    BY <1>1, <1>2 DEF Range

LEMMA KeepAliveStep ==
    ASSUME ManagerInv, keep_alive PROVE ManagerInv'
<1> DEFINE p == Head(keepalive)
<1>1. TypeOK /\ TasksAreTracked /\ AgesInOrder /\ keepalive # <<>> /\ keepalive' = Tail(keepalive)
    BY DEF ManagerInv, keep_alive
<1>2. /\ p \in Peers /\ keepalive' \in Seq(Peers) /\ Len(keepalive') <= KeepAliveChannelSize
      /\ \A q \in Range(keepalive) : q = p \/ q \in Range(keepalive')
    <2>1. keepalive \in Seq(Peers) /\ Len(keepalive) \in Nat /\ Len(keepalive) <= KeepAliveChannelSize
        BY <1>1 DEF TypeOK
    <2>2. /\ p \in Peers /\ keepalive' \in Seq(Peers) /\ Len(keepalive') <= Len(keepalive)
          /\ \A q \in Range(keepalive) : q = p \/ q \in Range(keepalive')
        BY <1>1, <2>1, TailFacts
    <2>3. Len(keepalive') \in Nat
        BY <2>2
    <2> QED
        BY <2>1, <2>2, <2>3, Sizes
<1>3. /\ UNCHANGED <<cleanup, sleeping, errors>> /\ cleanup' \in -MaxErrors .. TimeToLive
      /\ cleanup' >= cleanup
    BY <1>1, Sizes DEF keep_alive, TypeOK
<1>4. Fresh \in Entries(age) /\ Len(Fresh) <= Capacity
    BY <1>1, FreshFits
<1>5. \A q \in Range(Fresh) : q \in Tracked /\ q \in Peers /\ age[q] + cleanup <= 2 * TimeToLive
    BY FreshInTime
<1>6. age \in Ages
    BY <1>1, MapType
<1>7. CASE p \in Range(Fresh)
    <2> DEFINE kept == Range(Fresh)
               k == Keep(assoc_map')
    <2>1. /\ assoc_map' = Touched(p) /\ age' = [age EXCEPT ![p] = 0]
          /\ task' = [k EXCEPT ![p] = Restarted(k[p])]
        BY <1>7 DEF keep_alive
    <2> HIDE DEF p
    <2>2. assoc_map' \in Entries(age') /\ Len(assoc_map') <= Capacity /\ Range(assoc_map') = kept
        BY <1>1, <1>4, <1>7, <2>1, TouchedFacts
    <2>3. /\ k \in [Peers -> Task \union {NoTask}]
          /\ \A q \in Peers : q \in kept => k[q] = task[q]
          /\ \A q \in Peers \ kept : k[q] = NoTask
        BY <1>1, <2>2, KeepFacts
    <2> HIDE DEF k
    <2>4. k[p] \in Task
        BY <1>1, <1>5, <1>7, <2>3, TaskTypes
    <2>5. Restarted(k[p]) \in Task /\ Restarted(k[p]).answered = FALSE
        BY <2>4, RestartedFacts
    <2>6. /\ task' \in [Peers -> Task \union {NoTask}] /\ task'[p] = Restarted(k[p])
          /\ \A q \in Peers \ {p} : task'[q] = k[q]
        BY <1>2, <2>1, <2>3, <2>5
    <2>7. age' \in Ages /\ age'[p] = 0 /\ \A q \in Peers \ {p} : age'[q] = age[q]
        BY <1>2, <1>6, <2>1, Sizes DEF Ages
    <2>8. \A q \in kept \ {p} : task'[q] = task[q]
        BY <1>5, <2>3, <2>6
    <2>9. \A q \in Peers \ (kept \union {p}) : task'[q] = NoTask
        BY <2>3, <2>6
    <2>10. task'[p] \in Task /\ task'[p].answered = FALSE
        BY <2>5, <2>6
    <2>11. Range(assoc_map') = kept \union {p}
        BY <1>7, <2>2
    <2>12. \A q \in kept : q \in Tracked /\ q \in Peers /\ age[q] + cleanup' <= 2 * TimeToLive
        BY <1>3, <1>5
    <2>13. \A q \in kept \ {p} : q \in Range(keepalive) => q \in Range(keepalive')
        BY <1>2
    <2> HIDE DEF kept
    <2>14. MapChange(kept, {p})
        BY <1>2, <1>3, <2>2, <2>6, <2>7, <2>8, <2>9, <2>10, <2>11, <2>12, <2>13 DEF MapChange
    <2> QED
        BY <2>14, MapStep
<1>8. CASE p \notin Range(Fresh)
    <2> DEFINE kept == Range(Fresh)
    <2>1. assoc_map' = Fresh /\ age' = age /\ task' = Keep(Fresh)
        BY <1>8 DEF keep_alive
    <2> HIDE DEF p
    <2>2. /\ task' \in [Peers -> Task \union {NoTask}]
          /\ \A q \in Peers : q \in kept => task'[q] = task[q]
          /\ \A q \in Peers \ kept : task'[q] = NoTask
        BY <1>1, <2>1, KeepFacts
    <2>3. \A q \in kept : q \in Tracked /\ q \in Peers /\ age[q] + cleanup' <= 2 * TimeToLive
        BY <1>3, <1>5
    <2>4. \A q \in kept : task'[q] = task[q] /\ (q \in Range(keepalive) => q \in Range(keepalive'))
        BY <1>2, <1>8, <2>2, <2>3
    <2>5. /\ assoc_map' \in Entries(age') /\ Len(assoc_map') <= Capacity
          /\ Range(assoc_map') = kept \union {} /\ age' \in Ages
        BY <1>4, <1>6, <2>1
    <2> HIDE DEF kept
    <2>6. MapChange(kept, {})
        BY <1>2, <1>3, <2>1, <2>2, <2>3, <2>4, <2>5 DEF MapChange
    <2> QED
        BY <2>6, MapStep
<1> QED
    BY <1>7, <1>8

LEMMA CleanupStep ==
    ASSUME ManagerInv, cleanup_expired PROVE ManagerInv'
<1> DEFINE kept == Range(Fresh)
<1>1. TypeOK /\ TasksAreTracked /\ AgesInOrder
    BY DEF ManagerInv
<1>2. /\ assoc_map' = Fresh /\ task' = Keep(Fresh) /\ age' = age /\ keepalive' = keepalive
      /\ UNCHANGED <<sleeping, errors>> /\ cleanup <= 0 /\ cleanup' = cleanup + TimeToLive
    BY DEF cleanup_expired
<1>3. /\ task' \in [Peers -> Task \union {NoTask}]
      /\ \A q \in Peers : q \in kept => task'[q] = task[q]
      /\ \A q \in Peers \ kept : task'[q] = NoTask
    BY <1>1, <1>2, KeepFacts
<1>4. cleanup \in Int /\ cleanup >= -MaxErrors
    BY <1>1, Sizes DEF TypeOK
<1>5. cleanup' \in -MaxErrors .. TimeToLive /\ cleanup' >= cleanup
    <2>1. cleanup + TimeToLive \in -MaxErrors .. TimeToLive /\ cleanup + TimeToLive >= cleanup
        BY <1>2, <1>4, Sizes
    <2> QED
        BY <1>2, <2>1
<1>6. ASSUME NEW q \in kept PROVE q \in Tracked /\ q \in Peers /\ age[q] + cleanup' <= 2 * TimeToLive
    <2>1. q \in Tracked /\ q \in Peers /\ age[q] \in Nat /\ age[q] <= TimeToLive
        BY <1>6, FreshInTime
    <2>2. age[q] + (cleanup + TimeToLive) <= 2 * TimeToLive
        BY <1>2, <1>4, <2>1, Sizes
    <2> QED
        BY <1>2, <2>1, <2>2
<1>7. Fresh \in Entries(age) /\ Len(Fresh) <= Capacity
    BY <1>1, FreshFits
<1>8. /\ assoc_map' \in Entries(age') /\ Len(assoc_map') <= Capacity
      /\ Range(assoc_map') = kept \union {} /\ age' \in Ages
    BY <1>1, <1>2, <1>7, MapType
<1>9. keepalive' \in Seq(Peers) /\ Len(keepalive') <= KeepAliveChannelSize
    BY <1>1, <1>2 DEF TypeOK
<1> HIDE DEF kept
<1>10. MapChange(kept, {})
    BY <1>2, <1>3, <1>5, <1>6, <1>8, <1>9 DEF MapChange
<1> QED
    BY <1>10, MapStep

-----------------------------------------------------------------------------
(***************************************************************************)
(* The other steps.                                                        *)
(***************************************************************************)

LEMMA SleptType ==
    ASSUME TypeOK, CleanupInTime
    PROVE  Slept \in Nat /\ errors \in Nat /\ cleanup \in Int /\ cleanup + Slept >= 0
BY Sizes DEF TypeOK, CleanupInTime, Slept

LEMMA RecvFailsStep ==
    ASSUME ManagerInv, RecvFails PROVE ManagerInv'
<1>1. /\ TypeOK /\ TasksAreTracked /\ AgesInOrder /\ CleanupInTime /\ KeptAlive /\ SecondsAccounted
      /\ UNCHANGED <<assoc_map, age, task, keepalive, cleanup>>
      /\ sleeping = FALSE /\ sleeping' = TRUE /\ errors' = errors + 1 /\ errors < MaxErrors
    BY DEF ManagerInv, RecvFails, TypeOK
<1>2. TypeOK'
    <2>1. errors + 1 \in 0 .. MaxErrors
        BY <1>1, Sizes DEF TypeOK
    <2> QED
        BY <1>1, <2>1 DEF TypeOK
<1>3. Slept' = Slept
    <2>1. errors - 0 = (errors + 1) - 1
        BY <1>1, SleptType
    <2> QED
        BY <1>1, <2>1 DEF Slept
<1>4. Tracked' = Tracked /\ Running' = Running /\ \A p : Owed(p)' = Owed(p)
    BY <1>1 DEF Tracked, Running, Owed
<1>5. TasksAreTracked' /\ AgesInOrder'
    BY <1>1, <1>4 DEF TasksAreTracked, AgesInOrder
<1>6. CleanupInTime'
    BY <1>1, <1>3, <1>4 DEF CleanupInTime
<1>7. KeptAlive'
    BY <1>1, <1>4 DEF KeptAlive
<1>8. SecondsAccounted'
    BY <1>1, <1>3, <1>4 DEF SecondsAccounted
<1> QED
    BY <1>2, <1>5, <1>6, <1>7, <1>8 DEF ManagerInv

\* The task of p goes from state to state, and may put p into the channel.
TaskChange(p, next) ==
    /\ p \in Running
    /\ next \in Task
    /\ task' = [task EXCEPT ![p] = next]
    /\ keepalive' \in Seq(Peers) /\ Len(keepalive') <= KeepAliveChannelSize
    /\ Range(keepalive) \subseteq Range(keepalive')
    /\ next.answered /\ ~next.keepalive_flag => p \in Range(keepalive')
    /\ \/ next.silent = TimeToLive \/ next.missed = TimeToLive
       \/ age[p] <= next.silent + next.missed + Slept
       \/ /\ next.answered /\ (next.due > 0 \/ p \in Range(keepalive'))
          /\ age[p] <= next.silent + next.missed + Slept + 1
    /\ UNCHANGED <<assoc_map, age, cleanup, sleeping, errors>>

LEMMA TaskStep ==
    ASSUME ManagerInv, NEW p \in Peers, NEW next, TaskChange(p, next) PROVE ManagerInv'
<1>1. /\ TypeOK /\ TasksAreTracked /\ AgesInOrder /\ CleanupInTime /\ KeptAlive /\ SecondsAccounted
    BY DEF ManagerInv
<1>2. /\ p \in Running /\ next \in Task
      /\ UNCHANGED <<assoc_map, age, cleanup, sleeping, errors>>
      /\ task' = [task EXCEPT ![p] = next] /\ task \in [Peers -> Task \union {NoTask}]
    BY <1>1 DEF TaskChange, TypeOK
<1>3. /\ task' \in [Peers -> Task \union {NoTask}] /\ task'[p] = next
      /\ \A q \in Peers \ {p} : task'[q] = task[q]
    BY <1>2
<1>4. TypeOK'
    BY <1>1, <1>2, <1>3 DEF TypeOK, TaskChange
<1>5. Tracked' = Tracked /\ Slept' = Slept /\ Tracked \in SUBSET Peers
    BY <1>1, <1>2, MapType DEF Tracked, Slept
<1>6. Running' = Running
    BY <1>2, <1>3, NoTaskAssumption DEF Running
<1>7. TasksAreTracked' /\ AgesInOrder'
    BY <1>1, <1>2, <1>5, <1>6 DEF TasksAreTracked, AgesInOrder
<1>8. CleanupInTime'
    BY <1>1, <1>2, <1>5 DEF CleanupInTime
<1>9. KeptAlive'
    <2> SUFFICES ASSUME NEW q \in Running', task'[q].answered, ~task'[q].keepalive_flag
                 PROVE  q \in Range(keepalive')
        BY DEF KeptAlive
    <2>1. CASE q = p
        BY <1>3, <2>1 DEF TaskChange
    <2>2. CASE q # p
        <3>1. q \in Running /\ task'[q] = task[q]
            BY <1>3, <1>6, <2>2 DEF Running
        <3>2. q \in Range(keepalive)
            BY <1>1, <3>1 DEF KeptAlive
        <3> QED
            BY <3>2 DEF TaskChange
    <2> QED
        BY <2>1, <2>2
<1>10. SecondsAccounted'
    <2> SUFFICES ASSUME NEW q \in Tracked'
                 PROVE  \/ task'[q].silent = TimeToLive \/ task'[q].missed = TimeToLive
                        \/ age'[q] <= task'[q].silent + task'[q].missed + Slept' + Owed(q)'
        BY DEF SecondsAccounted
    <2>1. q \in Tracked /\ q \in Peers /\ age'[q] = age[q] /\ age[q] \in Nat /\ Slept \in Nat
        <3>1. q \in Tracked /\ q \in Peers /\ age'[q] = age[q]
            BY <1>2, <1>5
        <3>2. age[q] \in Nat
            BY <1>1, <3>1, MapType, Sizes DEF Ages
        <3> QED
            BY <1>1, <3>1, <3>2, SleptType
    <2>2. CASE q = p
        <3>1. next.silent \in Nat /\ next.missed \in Nat
            BY <1>2, Sizes DEF Task
        <3>2. \/ next.silent = TimeToLive \/ next.missed = TimeToLive
              \/ age[q] <= next.silent + next.missed + Slept
              \/ /\ next.answered /\ (next.due > 0 \/ q \in Range(keepalive'))
                 /\ age[q] <= next.silent + next.missed + Slept + 1
            BY <2>2 DEF TaskChange
        <3>3. Owed(q)' = IF next.answered /\ (next.due > 0 \/ q \in Range(keepalive')) THEN 1 ELSE 0
            BY <1>3, <2>2 DEF Owed
        <3>4. age[q] <= next.silent + next.missed + Slept => age[q] <= next.silent + next.missed + Slept + 1
            BY <2>1, <3>1
        <3>5. age[q] <= next.silent + next.missed + Slept => age[q] <= next.silent + next.missed + Slept + 0
            BY <2>1, <3>1
        <3>6. \/ next.silent = TimeToLive \/ next.missed = TimeToLive
              \/ age[q] <= next.silent + next.missed + Slept + Owed(q)'
            BY <3>2, <3>3, <3>4, <3>5
        <3> QED
            BY <1>3, <1>5, <2>1, <2>2, <3>6
    <2>3. CASE q # p
        <3>1. task'[q] = task[q] /\ task[q] \in Task
            BY <1>1, <1>3, <2>1, <2>3, TaskTypes
        <3>2. task[q].silent \in Nat /\ task[q].missed \in Nat
            BY <3>1, Sizes DEF Task
        <3>3. \/ task[q].silent = TimeToLive \/ task[q].missed = TimeToLive
              \/ age[q] <= task[q].silent + task[q].missed + Slept + Owed(q)
            BY <1>1, <2>1 DEF SecondsAccounted
        <3>4. Owed(q) <= Owed(q)' /\ Owed(q) \in {0, 1} /\ Owed(q)' \in {0, 1}
            BY <3>1 DEF Owed, TaskChange
        <3> QED
            BY <1>5, <2>1, <3>1, <3>2, <3>3, <3>4
    <2> QED
        BY <2>2, <2>3
<1> QED
    BY <1>4, <1>7, <1>8, <1>9, <1>10 DEF ManagerInv

LEMMA Appended ==
    ASSUME NEW s \in Seq(Peers), NEW p \in Peers, Len(s) < KeepAliveChannelSize
    PROVE  /\ Append(s, p) \in Seq(Peers) /\ Len(Append(s, p)) <= KeepAliveChannelSize
           /\ Range(s) \subseteq Range(Append(s, p)) /\ p \in Range(Append(s, p))
<1> DEFINE q == Append(s, p)
<1>1. /\ Len(s) \in Nat /\ DOMAIN s = 1 .. Len(s)
      /\ q \in Seq(Peers) /\ Len(q) = Len(s) + 1 /\ DOMAIN q = 1 .. Len(s) + 1
      /\ q[Len(s) + 1] = p /\ \A i \in DOMAIN s : q[i] = s[i]
    OBVIOUS
<1> HIDE DEF q
<1>2. Len(q) <= KeepAliveChannelSize
    BY <1>1, Sizes
<1>3. Range(s) \subseteq Range(q) /\ p \in Range(q)
    BY <1>1 DEF Range
<1> QED
    BY <1>1, <1>2, <1>3 DEF q

\* The account of p, as a task finds it.
LEMMA Account ==
    ASSUME ManagerInv, NEW p \in Running
    PROVE  LET t == task[p] IN
           /\ t \in Task /\ age[p] \in Nat /\ Slept \in Nat
           /\ t.silent \in 0 .. TimeToLive /\ t.missed \in 0 .. TimeToLive /\ t.due \in 0 .. TimeToLive
           /\ t.answered \in BOOLEAN /\ t.keepalive_flag \in BOOLEAN
           /\ keepalive \in Seq(Peers) /\ Len(keepalive) <= KeepAliveChannelSize
           /\ t.answered /\ ~t.keepalive_flag => p \in Range(keepalive)
           /\ \/ t.silent = TimeToLive \/ t.missed = TimeToLive
              \/ age[p] <= t.silent + t.missed + Slept
              \/ /\ t.answered /\ (t.due > 0 \/ p \in Range(keepalive))
                 /\ age[p] <= t.silent + t.missed + Slept + 1
<1>1. /\ TypeOK /\ TasksAreTracked /\ AgesInOrder /\ CleanupInTime /\ KeptAlive /\ SecondsAccounted
    BY DEF ManagerInv
<1>2. p \in Tracked /\ p \in Peers /\ task[p] \in Task
    BY <1>1, MapType, TaskTypes DEF TasksAreTracked
<1>3. age[p] \in Nat /\ Slept \in Nat
    BY <1>1, <1>2, MapType, SleptType, Sizes DEF Ages
<1>4. /\ task[p].silent \in 0 .. TimeToLive /\ task[p].missed \in 0 .. TimeToLive
      /\ task[p].due \in 0 .. TimeToLive
      /\ task[p].answered \in BOOLEAN /\ task[p].keepalive_flag \in BOOLEAN
    BY <1>2 DEF Task
<1>5. task[p].answered /\ ~task[p].keepalive_flag => p \in Range(keepalive)
    BY <1>1 DEF KeptAlive
<1> DEFINE sum == task[p].silent + task[p].missed + Slept
<1>6. \/ task[p].silent = TimeToLive \/ task[p].missed = TimeToLive \/ age[p] <= sum + Owed(p)
    BY <1>1, <1>2 DEF SecondsAccounted
<1>7. sum \in Nat
    BY <1>3, <1>4, Sizes
<1> HIDE DEF sum
<1>8. \/ task[p].silent = TimeToLive \/ task[p].missed = TimeToLive \/ age[p] <= sum
      \/ task[p].answered /\ (task[p].due > 0 \/ p \in Range(keepalive)) /\ age[p] <= sum + 1
    <2>1. CASE task[p].answered /\ (task[p].due > 0 \/ p \in Range(keepalive))
        BY <1>6, <2>1 DEF Owed
    <2>2. CASE ~(task[p].answered /\ (task[p].due > 0 \/ p \in Range(keepalive)))
        <3>1. Owed(p) = 0
            BY <2>2 DEF Owed
        <3> QED
            BY <1>6, <1>7, <3>1
    <2> QED
        BY <2>1, <2>2
<1>9. keepalive \in Seq(Peers) /\ Len(keepalive) <= KeepAliveChannelSize
    BY <1>1 DEF TypeOK
<1> QED
    BY <1>2, <1>3, <1>4, <1>5, <1>8, <1>9 DEF sum

\* Regrouping, for sums whose terms are fields of a task.
LEMMA OneMore ==
    ASSUME NEW a \in Nat, NEW b \in Nat, NEW c \in Nat PROVE a + b + c + 1 = a + (b + 1) + c
OBVIOUS

LEMMA AssociationStep ==
    ASSUME ManagerInv, NEW p \in Peers, Association(p) PROVE ManagerInv'
<1> DEFINE t == task[p]
<1>1. p \in Running
    BY DEF Association, Dispatch, Dispatched, Respond, KeepAliveFull, KeepAliveSent, KeepAliveIdle, InSelect
<1>2. /\ t \in Task /\ age[p] \in Nat /\ Slept \in Nat
      /\ t.silent \in 0 .. TimeToLive /\ t.missed \in 0 .. TimeToLive /\ t.due \in 0 .. TimeToLive
      /\ keepalive \in Seq(Peers) /\ Len(keepalive) <= KeepAliveChannelSize
    BY <1>1, Account
<1>3. t.answered /\ ~t.keepalive_flag => p \in Range(keepalive)
    BY <1>1, Account
<1>4. \/ t.silent = TimeToLive \/ t.missed = TimeToLive
      \/ age[p] <= t.silent + t.missed + Slept
      \/ /\ t.answered /\ (t.due > 0 \/ p \in Range(keepalive))
         /\ age[p] <= t.silent + t.missed + Slept + 1
    BY <1>1, Account
<1>5. CASE Dispatch(p)
    <2> DEFINE next == Taken(t)
    <2>1. t.received > 0
        BY <1>5 DEF Dispatch
    <2>2. /\ next \in Task /\ next.silent = t.silent /\ next.missed = t.missed /\ next.due = t.due
          /\ next.answered = t.answered /\ next.keepalive_flag = t.keepalive_flag
        BY <1>2, <2>1, TakenFacts
    <2>3. /\ task' = [task EXCEPT ![p] = next] /\ keepalive' = keepalive
          /\ UNCHANGED <<assoc_map, age, cleanup, sleeping, errors>>
        BY <1>5 DEF Dispatch
    <2> HIDE DEF next, t
    <2>4. TaskChange(p, next)
        BY <1>1, <1>2, <1>3, <1>4, <2>2, <2>3 DEF TaskChange
    <2> QED
        BY <2>4, TaskStep
<1>6. CASE Dispatched(p)
    <2> DEFINE next == [t EXCEPT !.at = "select"]
    <2>1. /\ next \in Task /\ next.silent = t.silent /\ next.missed = t.missed /\ next.due = t.due
          /\ next.answered = t.answered /\ next.keepalive_flag = t.keepalive_flag
        BY <1>2 DEF Task
    <2>2. /\ task' = [task EXCEPT ![p] = next] /\ keepalive' = keepalive
          /\ UNCHANGED <<assoc_map, age, cleanup, sleeping, errors>>
        BY <1>6 DEF Dispatched
    <2> HIDE DEF next, t
    <2>3. TaskChange(p, next)
        BY <1>1, <1>2, <1>3, <1>4, <2>1, <2>2 DEF TaskChange
    <2> QED
        BY <2>3, TaskStep
<1>7. CASE Respond(p)
    <2> DEFINE next == [t EXCEPT !.keepalive_flag = TRUE, !.answered = TRUE]
    <2>1. /\ next \in Task /\ next.silent = t.silent /\ next.missed = t.missed /\ next.due = t.due
          /\ next.answered = TRUE /\ next.keepalive_flag = TRUE
        BY <1>2 DEF Task
    <2>2. /\ task' = [task EXCEPT ![p] = next] /\ keepalive' = keepalive
          /\ UNCHANGED <<assoc_map, age, cleanup, sleeping, errors>>
        BY <1>7 DEF Respond
    <2> HIDE DEF next, t
    <2>3. TaskChange(p, next)
        BY <1>1, <1>2, <1>3, <1>4, <2>1, <2>2 DEF TaskChange
    <2> QED
        BY <2>3, TaskStep
<1>8. CASE KeepAliveFull(p)
    <2> DEFINE next == Missed(t)
    <2>1. t.due > 0
        BY <1>8 DEF KeepAliveFull
    <2>2. /\ next \in Task /\ next.due = t.due - 1 /\ next.answered = t.answered /\ next.silent = t.silent
          /\ next.keepalive_flag = t.keepalive_flag
          /\ next.missed = IF t.due = 1 THEN Later(t.missed) ELSE t.missed
        BY <1>2, <2>1, MissedFacts
    <2>3. /\ task' = [task EXCEPT ![p] = next] /\ keepalive' = keepalive
          /\ UNCHANGED <<assoc_map, age, cleanup, sleeping, errors>>
        BY <1>8 DEF KeepAliveFull
    <2> HIDE DEF next, t
    <2>4. \/ next.silent = TimeToLive \/ next.missed = TimeToLive
          \/ age[p] <= next.silent + next.missed + Slept
          \/ /\ next.answered /\ (next.due > 0 \/ p \in Range(keepalive))
             /\ age[p] <= next.silent + next.missed + Slept + 1
        <3>1. CASE t.due = 1
            <4>1. next.missed = TimeToLive \/ (t.missed # TimeToLive /\ next.missed = t.missed + 1)
                BY <1>2, <2>2, <3>1, LaterType, Sizes
            <4>2. CASE next.missed = TimeToLive
                BY <4>2
            <4>3. CASE t.missed # TimeToLive /\ next.missed = t.missed + 1
                <5>1. t.silent = TimeToLive \/ age[p] <= t.silent + t.missed + Slept + 1
                    BY <1>2, <1>4, <4>3, Sizes
                <5>2. t.silent + t.missed + Slept + 1 = t.silent + (t.missed + 1) + Slept
                    <6>1. t.silent \in Nat /\ t.missed \in Nat /\ Slept \in Nat
                        BY <1>2, Sizes
                    <6> QED
                        BY <6>1, OneMore
                <5> QED
                    BY <2>2, <4>3, <5>1, <5>2
            <4> QED
                BY <4>1, <4>2, <4>3
        <3>2. CASE t.due # 1
            <4>1. next.due > 0 /\ next.missed = t.missed
                BY <1>2, <2>1, <2>2, <3>2, Sizes
            <4> QED
                BY <1>4, <2>2, <4>1
        <3> QED
            BY <3>1, <3>2
    <2>5. TaskChange(p, next)
        BY <1>1, <1>2, <1>3, <2>2, <2>3, <2>4 DEF TaskChange
    <2> QED
        BY <2>5, TaskStep
<1>9. CASE KeepAliveSent(p)
    <2> DEFINE n == Ticked(t)
               next == [n EXCEPT !.keepalive_flag = FALSE]
    <2>1. t.due > 0 /\ Len(keepalive) < KeepAliveChannelSize
        BY <1>9 DEF KeepAliveSent
    <2>2. /\ next \in Task /\ next.silent = t.silent /\ next.missed = t.missed
          /\ next.answered = t.answered
        <3>1. n \in Task /\ n.silent = t.silent /\ n.missed = t.missed /\ n.answered = t.answered
            BY <1>2, <2>1, TickedFacts
        <3> HIDE DEF n
        <3> QED
            BY <3>1 DEF Task
    <2>3. /\ task' = [task EXCEPT ![p] = next] /\ keepalive' = Append(keepalive, p)
          /\ UNCHANGED <<assoc_map, age, cleanup, sleeping, errors>>
        BY <1>9 DEF KeepAliveSent
    <2> HIDE DEF next, t
    <2>4. /\ keepalive' \in Seq(Peers) /\ Len(keepalive') <= KeepAliveChannelSize
          /\ Range(keepalive) \subseteq Range(keepalive') /\ p \in Range(keepalive')
        BY <1>2, <2>1, <2>3, Appended
    <2>5. TaskChange(p, next)
        BY <1>1, <1>2, <1>4, <2>2, <2>3, <2>4 DEF TaskChange
    <2> QED
        BY <2>5, TaskStep
<1>10. CASE KeepAliveIdle(p)
    <2> DEFINE next == Ticked(t)
    <2>1. t.due > 0 /\ ~t.keepalive_flag
        BY <1>10 DEF KeepAliveIdle
    <2>2. /\ next \in Task /\ next.silent = t.silent /\ next.missed = t.missed
          /\ next.answered = t.answered
        BY <1>2, <2>1, TickedFacts
    <2>3. /\ task' = [task EXCEPT ![p] = next] /\ keepalive' = keepalive
          /\ UNCHANGED <<assoc_map, age, cleanup, sleeping, errors>>
        BY <1>10 DEF KeepAliveIdle
    <2> HIDE DEF next, t
    <2>4. TaskChange(p, next)
        BY <1>1, <1>2, <1>3, <1>4, <2>1, <2>2, <2>3 DEF TaskChange
    <2> QED
        BY <2>4, TaskStep
<1> QED
    BY <1>5, <1>6, <1>7, <1>8, <1>9, <1>10 DEF Association

\* The account of one entry over a second: a and n are its age and its task
\* before, d the second that a sleeping manager is charged.
LEMMA SecondPasses ==
    ASSUME NEW a \in Nat, NEW t \in Task, NEW slept \in Nat, NEW d \in {0, 1}, NEW inChannel \in BOOLEAN,
           inChannel => d = 1,
           t.at = "select" => t.due = 0,
           \/ t.silent = TimeToLive \/ t.missed = TimeToLive
           \/ a <= t.silent + t.missed + slept
           \/ t.answered /\ (t.due > 0 \/ inChannel) /\ a <= t.silent + t.missed + slept + 1
    PROVE  LET n == Aged(t)
               owed == IF n.answered /\ (n.due > 0 \/ inChannel) THEN 1 ELSE 0
           IN  \/ n.silent = TimeToLive \/ n.missed = TimeToLive
               \/ a + 1 <= n.silent + n.missed + (slept + d) + owed
<1> DEFINE n == Aged(t)
           owed == IF n.answered /\ (n.due > 0 \/ inChannel) THEN 1 ELSE 0
<1>1. /\ n \in Task /\ n.due > 0 /\ n.answered = t.answered
      /\ n.silent = IF t.answered THEN t.silent ELSE Later(t.silent)
      /\ n.missed = IF t.answered /\ t.at = "busy" THEN Later(t.missed) ELSE t.missed
    BY AgedFacts
<1> HIDE DEF n
<1>2. /\ t.silent \in 0 .. TimeToLive /\ t.missed \in 0 .. TimeToLive /\ TimeToLive \in Nat
      /\ t.answered \in BOOLEAN /\ t.at \in {"select", "busy"} /\ t.due \in 0 .. TimeToLive
    BY Sizes DEF Task
<1>3. /\ t.silent = TimeToLive => Later(t.silent) = TimeToLive
      /\ t.silent # TimeToLive => Later(t.silent) = t.silent + 1
      /\ t.missed = TimeToLive => Later(t.missed) = TimeToLive
      /\ t.missed # TimeToLive => Later(t.missed) = t.missed + 1
    BY <1>2, LaterType
<1>4. CASE t.silent = TimeToLive
    <2>1. n.silent = TimeToLive
        BY <1>1, <1>3, <1>4
    <2> QED
        BY <2>1 DEF n
<1>5. CASE t.missed = TimeToLive
    <2>1. n.missed = TimeToLive
        BY <1>1, <1>3, <1>5
    <2> QED
        BY <2>1 DEF n
<1>6. CASE t.silent # TimeToLive /\ t.missed # TimeToLive /\ ~t.answered
    <2>1. n.silent = t.silent + 1 /\ n.missed = t.missed /\ owed = 0 /\ a <= t.silent + t.missed + slept
        BY <1>1, <1>3, <1>6
    <2> HIDE DEF owed
    <2>2. a + 1 <= (t.silent + 1) + t.missed + (slept + d) + 0
        BY <1>2, <2>1
    <2> QED
        BY <2>1, <2>2 DEF n, owed
<1>7. CASE t.silent # TimeToLive /\ t.missed # TimeToLive /\ t.answered /\ t.at = "busy"
    <2>1. n.silent = t.silent /\ n.missed = t.missed + 1 /\ owed = 1
        BY <1>1, <1>3, <1>7
    <2>2. a <= t.silent + t.missed + slept + 1
        BY <1>2, <1>7
    <2> HIDE DEF owed
    <2>3. a + 1 <= t.silent + (t.missed + 1) + (slept + d) + 1
        BY <1>2, <2>2
    <2> QED
        BY <2>1, <2>3 DEF n, owed
<1>8. CASE t.silent # TimeToLive /\ t.missed # TimeToLive /\ t.answered /\ t.at = "select"
    <2>1. n.silent = t.silent /\ n.missed = t.missed /\ owed = 1
        BY <1>1, <1>8
    <2>2. \/ a <= t.silent + t.missed + slept
          \/ d = 1 /\ a <= t.silent + t.missed + slept + 1
        BY <1>2, <1>8
    <2> HIDE DEF owed
    <2>3. a + 1 <= t.silent + t.missed + (slept + d) + 1
        BY <1>2, <2>2
    <2> QED
        BY <2>1, <2>3 DEF n, owed
<1> QED
    BY <1>2, <1>4, <1>5, <1>6, <1>7, <1>8

LEMMA TickStep ==
    ASSUME ManagerInv, Tick PROVE ManagerInv'
<1> DEFINE d == IF sleeping THEN 1 ELSE 0
<1>1. /\ TypeOK /\ TasksAreTracked /\ AgesInOrder /\ CleanupInTime /\ KeptAlive /\ SecondsAccounted
    BY DEF ManagerInv
<1>2. /\ sleeping \/ (keepalive = <<>> /\ cleanup > 0)
      /\ \A p \in Peers : InSelect(p) => task[p].due = 0
      /\ age' = [p \in Peers |-> IF p \in Tracked THEN Capped(age[p], MaxAge) ELSE 0]
      /\ task' = [p \in Peers |-> IF task[p] = NoTask THEN NoTask ELSE Aged(task[p])]
      /\ cleanup' = cleanup - 1 /\ sleeping' = FALSE /\ UNCHANGED <<assoc_map, keepalive, errors>>
    BY DEF Tick
<1>3. Slept \in Nat /\ errors \in 0 .. MaxErrors /\ cleanup \in Int /\ cleanup + Slept >= 0
    BY <1>1, SleptType DEF TypeOK
<1>4. /\ Slept' = Slept + d /\ d \in {0, 1} /\ Slept + d = errors
    <2>1. sleeping \in BOOLEAN /\ Slept = errors - d
        BY <1>1 DEF TypeOK, Slept
    <2>2. Slept' = errors - 0
        BY <1>2 DEF Slept
    <2> QED
        BY <1>3, <2>1, <2>2, Sizes
<1>5. sleeping => d = 1
    OBVIOUS
<1> HIDE DEF d
<1>6. /\ cleanup - 1 + (Slept + d) >= 0 /\ cleanup - 1 \in -MaxErrors .. TimeToLive
    <2>1. cleanup <= TimeToLive
        BY <1>1, Sizes DEF TypeOK
    <2>2. d = 1 \/ cleanup > 0
        BY <1>2, <1>5
    <2>3. cleanup - 1 + (Slept + d) >= 0
        BY <1>3, <1>4, <2>2
    <2>4. cleanup - 1 >= -MaxErrors
        BY <1>3, <1>4, <2>3, Sizes
    <2> QED
        BY <1>3, <2>1, <2>3, <2>4, Sizes
<1>7. Tracked' = Tracked /\ Tracked \in SUBSET Peers /\ Running = Tracked
    BY <1>1, <1>2, MapType DEF Tracked, TasksAreTracked
<1>8. ASSUME NEW p \in Tracked
      PROVE  /\ age[p] \in Nat /\ age'[p] = age[p] + 1 /\ age[p] + 1 \in 0 .. MaxAge
             /\ age[p] + cleanup <= 2 * TimeToLive
    <2>1. p \in Peers /\ age[p] \in Nat
        BY <1>1, <1>7, MapType, Sizes DEF Ages
    <2>2. age[p] + cleanup <= 2 * TimeToLive
        BY <1>1 DEF CleanupInTime
    <2>3. age[p] < MaxAge
        BY <1>3, <1>4, <2>1, <2>2, Sizes
    <2>4. age'[p] = age[p] + 1
        BY <1>2, <2>1, <2>3 DEF Capped
    <2> QED
        BY <2>1, <2>2, <2>3, <2>4, Sizes
<1>9. age' \in Ages
    <2> SUFFICES ASSUME NEW p \in Peers
                 PROVE  (IF p \in Tracked THEN Capped(age[p], MaxAge) ELSE 0) \in 0 .. MaxAge
        BY <1>2 DEF Ages
    <2>1. CASE p \in Tracked
        BY <1>2, <1>8, <2>1
    <2>2. CASE p \notin Tracked
        BY <2>2, Sizes
    <2> QED
        BY <2>1, <2>2
<1>10. ASSUME NEW p \in Peers
       PROVE  /\ p \in Tracked => task[p] \in Task /\ task'[p] = Aged(task[p]) /\ task'[p] \in Task
              /\ p \notin Tracked => task'[p] = NoTask
    BY <1>1, <1>2, TaskTypes, AgedFacts, NoTaskAssumption
<1>11. task' \in [Peers -> Task \union {NoTask}]
    <2>1. \A p \in Peers : task'[p] \in Task \union {NoTask}
        BY <1>10
    <2> QED
        BY <1>2, <2>1
<1>12. TypeOK'
    BY <1>1, <1>2, <1>6, <1>9, <1>11 DEF TypeOK, Ages
<1>13. Running' = Tracked
    <2>1. Running' = {p \in Peers : task'[p] # NoTask}
        BY DEF Running
    <2> QED
        BY <1>7, <1>10, <2>1, NoTaskAssumption
<1>14. TasksAreTracked'
    BY <1>1, <1>2, <1>7, <1>13 DEF TasksAreTracked
<1>15. AgesInOrder'
    <2> SUFFICES ASSUME NEW i \in DOMAIN assoc_map, NEW j \in DOMAIN assoc_map, i <= j
                 PROVE  age'[assoc_map[j]] <= age'[assoc_map[i]]
        BY <1>2 DEF AgesInOrder, InOrder
    <2>1. assoc_map[i] \in Tracked /\ assoc_map[j] \in Tracked
        BY DEF Tracked, Range
    <2>2. age[assoc_map[j]] <= age[assoc_map[i]]
        BY <1>1 DEF AgesInOrder, InOrder
    <2>3. age[assoc_map[j]] + 1 <= age[assoc_map[i]] + 1
        BY <1>8, <2>1, <2>2
    <2> QED
        BY <1>8, <2>1, <2>3
<1>16. CleanupInTime'
    <2>1. Slept' >= 0 /\ cleanup' + Slept' >= 0
        <3>1. Slept + d >= 0
            BY <1>3, <1>4
        <3> QED
            BY <1>2, <1>4, <1>6, <3>1
    <2>2. ASSUME NEW p \in Tracked PROVE age'[p] + cleanup' <= 2 * TimeToLive
        <3>1. (age[p] + 1) + (cleanup - 1) <= 2 * TimeToLive
            BY <1>3, <1>8, Sizes
        <3> QED
            BY <1>2, <1>8, <3>1
    <2> QED
        BY <1>7, <2>1, <2>2 DEF CleanupInTime
<1>17. KeptAlive'
    <2> SUFFICES ASSUME NEW p \in Tracked, task'[p].answered, ~task'[p].keepalive_flag
                 PROVE  p \in Range(keepalive)
        BY <1>2, <1>13 DEF KeptAlive
    <2>1. p \in Running /\ task'[p] = Aged(task[p]) /\ task[p] \in Task
        BY <1>7, <1>10
    <2>2. task[p].answered /\ ~task[p].keepalive_flag
        BY <2>1, AgedFacts
    <2> QED
        BY <1>1, <2>1, <2>2 DEF KeptAlive
<1>18. SecondsAccounted'
    <2> SUFFICES ASSUME NEW p \in Tracked
                 PROVE  \/ task'[p].silent = TimeToLive \/ task'[p].missed = TimeToLive
                        \/ age'[p] <= task'[p].silent + task'[p].missed + Slept' + Owed(p)'
        BY <1>7 DEF SecondsAccounted
    <2> DEFINE t == task[p]
               inChannel == p \in Range(keepalive)
    <2>1. p \in Running /\ p \in Peers /\ task'[p] = Aged(t) /\ t \in Task
        BY <1>7, <1>10
    <2>2. /\ age[p] \in Nat
          /\ \/ t.silent = TimeToLive \/ t.missed = TimeToLive
             \/ age[p] <= t.silent + t.missed + Slept
             \/ t.answered /\ (t.due > 0 \/ inChannel) /\ age[p] <= t.silent + t.missed + Slept + 1
        BY <2>1, Account
    <2>3. inChannel => d = 1
        <3>1. keepalive = <<>> => ~inChannel
            BY DEF Range
        <3> QED
            BY <1>2, <1>5, <3>1
    <2>4. t.at = "select" => t.due = 0
        BY <1>2, <2>1 DEF InSelect
    <2>5. Owed(p)' = IF Aged(t).answered /\ (Aged(t).due > 0 \/ inChannel) THEN 1 ELSE 0
        BY <1>2, <2>1 DEF Owed
    <2>6. inChannel \in BOOLEAN
        OBVIOUS
    <2> HIDE DEF t, inChannel
    <2>7. \/ Aged(t).silent = TimeToLive \/ Aged(t).missed = TimeToLive
          \/ age[p] + 1 <= Aged(t).silent + Aged(t).missed + (Slept + d)
                           + (IF Aged(t).answered /\ (Aged(t).due > 0 \/ inChannel) THEN 1 ELSE 0)
        BY <1>3, <1>4, <2>1, <2>2, <2>3, <2>4, <2>6, SecondPasses
    <2> QED
        BY <1>4, <1>8, <2>1, <2>5, <2>7
<1> QED
    BY <1>12, <1>14, <1>15, <1>16, <1>17, <1>18 DEF ManagerInv

-----------------------------------------------------------------------------
(***************************************************************************)
(* The theorems.                                                           *)
(***************************************************************************)

LEMMA ManagerInit ==
    ASSUME Init PROVE ManagerInv
<1>1. Range(assoc_map) = {} /\ Tracked = {} /\ Running = {}
    BY DEF Init, Range, Tracked, Running
<1>2. TypeOK
    <2>1. assoc_map \in Seq(Peers) /\ IsInjective(assoc_map)
        BY DEF Init, IsInjective
    <2>2. keepalive \in Seq(Peers) /\ Len(keepalive) <= KeepAliveChannelSize
        BY Sizes DEF Init
    <2>3. age \in [Peers -> 0 .. MaxAge] /\ task \in [Peers -> Task \union {NoTask}]
        BY Sizes DEF Init
    <2>4. cleanup = 0 /\ sleeping = FALSE /\ errors = 0
        BY DEF Init
    <2>5. 0 \in -MaxErrors .. TimeToLive /\ 0 \in 0 .. MaxErrors
        BY Sizes
    <2> QED
        BY <2>1, <2>2, <2>3, <2>4, <2>5 DEF TypeOK
<1>3. TasksAreTracked
    BY <1>1, Sizes DEF Init, TasksAreTracked
<1>4. AgesInOrder
    BY DEF Init, AgesInOrder, InOrder
<1>5. CleanupInTime
    BY <1>1 DEF Init, CleanupInTime, Slept
<1>6. KeptAlive /\ SecondsAccounted
    BY <1>1 DEF KeptAlive, SecondsAccounted
<1> QED
    BY <1>2, <1>3, <1>4, <1>5, <1>6 DEF ManagerInv

LEMMA ManagerStep ==
    ASSUME ManagerInv, [Next]_vars PROVE ManagerInv'
<1>1. ASSUME NEW p \in Peers, send_to(p) PROVE ManagerInv'
    BY <1>1, SendToKnownStep, SendToNewStep DEF send_to
<1>2. CASE keep_alive
    BY <1>2, KeepAliveStep
<1>3. CASE cleanup_expired
    BY <1>3, CleanupStep
<1>4. CASE RecvFails
    BY <1>4, RecvFailsStep
<1>5. ASSUME NEW p \in Peers, Association(p) PROVE ManagerInv'
    BY <1>5, AssociationStep
<1>6. CASE Tick
    BY <1>6, TickStep
<1>7. CASE UNCHANGED vars
    BY <1>7 DEF vars, ManagerInv, TypeOK, TasksAreTracked, Tracked, Running, AgesInOrder, InOrder,
                CleanupInTime, Slept, KeptAlive, SecondsAccounted, Owed
<1> QED
    BY <1>1, <1>2, <1>3, <1>4, <1>5, <1>6, <1>7 DEF Next, Manager

\* The invariant of the manager is inductive: the order of the map, the delay
\* of the cleanup timer, the flag and the channel of the keep-alives, and the
\* account of every second of an entry's age.
THEOREM ManagerInvariant == Spec => []ManagerInv
<1>1. Init => ManagerInv
    BY ManagerInit
<1>2. ManagerInv /\ [Next]_vars => ManagerInv'
    BY ManagerStep
<1> QED
    BY <1>1, <1>2, PTL DEF Spec

\* The state keeps its type: no channel holds more than its size, whatever the
\* sizes are, and no peer has two entries.
THEOREM ManagerTypes == Spec => []TypeOK
<1>1. ManagerInv => TypeOK
    BY DEF ManagerInv
<1> QED
    BY <1>1, ManagerInvariant, PTL

\* The running tasks are those of the map, and within its capacity, whatever
\* removes an entry (UdpAssociationManager::send_to, drop of UdpAssociation).
THEOREM NoTaskIsLost == Spec => []TasksAreTracked
<1>1. ManagerInv => TasksAreTracked
    BY DEF ManagerInv
<1> QED
    BY <1>1, ManagerInvariant, PTL

\* An expired association is collected within a cleanup interval and the
\* seconds the loop has slept after errors (cleanup_expired).
THEOREM CollectedInTime == Spec => []ExpiredIsCollected
<1>1. ManagerInv => ExpiredIsCollected
    <2> SUFFICES ASSUME ManagerInv, NEW p \in Tracked PROVE age[p] <= 2 * TimeToLive + errors
        BY DEF ExpiredIsCollected
    <2>1. TypeOK /\ CleanupInTime /\ AgesInOrder
        BY DEF ManagerInv
    <2>2. age[p] + cleanup <= 2 * TimeToLive /\ cleanup + Slept >= 0 /\ Slept <= errors
        BY <2>1, Sizes DEF CleanupInTime, Slept, TypeOK
    <2>3. age[p] \in Nat /\ Slept \in Nat /\ errors \in Nat /\ cleanup \in Int
        BY <2>1, MapType, SleptType, Sizes DEF Ages
    <2> QED
        BY <2>2, <2>3, Sizes
<1> QED
    BY <1>1, ManagerInvariant, PTL

\* An entry that expires was silent for the time to live, less the seconds in
\* which its keep-alive could not get out: no answer that was relayed is
\* forgotten between the flag, the channel and the map (dispatch_packet).
THEOREM OnlySilentExpire == Spec => []ExpiredWasSilent
<1>1. ManagerInv => ExpiredWasSilent
    <2> SUFFICES ASSUME ManagerInv, NEW p \in Tracked, age[p] > TimeToLive
                 PROVE  task[p].silent + task[p].missed + errors >= TimeToLive
        BY DEF ExpiredWasSilent, Expired
    <2>1. p \in Running
        BY DEF ManagerInv, TasksAreTracked
    <2>2. /\ age[p] \in Nat /\ Slept \in Nat
          /\ task[p].silent \in 0 .. TimeToLive /\ task[p].missed \in 0 .. TimeToLive
          /\ \/ task[p].silent = TimeToLive \/ task[p].missed = TimeToLive
             \/ age[p] <= task[p].silent + task[p].missed + Slept
             \/ age[p] <= task[p].silent + task[p].missed + Slept + 1
        BY <2>1, Account
    <2>3. Slept <= errors /\ errors \in Nat
        BY Sizes DEF ManagerInv, TypeOK, Slept
    <2>4. CASE task[p].silent = TimeToLive \/ task[p].missed = TimeToLive
        BY <2>2, <2>3, <2>4, Sizes
    <2>5. CASE age[p] <= task[p].silent + task[p].missed + Slept + 1
        BY <2>2, <2>3, <2>5, Sizes
    <2>6. CASE age[p] <= task[p].silent + task[p].missed + Slept
        BY <2>2, <2>3, <2>6, Sizes
    <2> QED
        BY <2>2, <2>4, <2>5, <2>6
<1> QED
    BY <1>1, ManagerInvariant, PTL
=============================================================================
