--------------------------- MODULE ServicesProofs ---------------------------
(***************************************************************************)
(* Theorems about ssmanager, for any requests, settings and bounds: it     *)
(* holds the servers it runs, whole, and what it removed is gone.  And     *)
(* about the local DNS relay, for any list, zone and requests: a client    *)
(* gets the answer to its question, and the list decides.                  *)
(***************************************************************************)
EXTENDS Manager, Dns, SequenceTheorems, WellFoundedInduction, TLAPS

-----------------------------------------------------------------------------
(***************************************************************************)
(* Shapes.  Ports and settings are whatever the requests bring: the proofs *)
(* need only that run is a sequence and that records keep their fields.    *)
(***************************************************************************)

IsSeq(s) == \E S : s \in Seq(S)

IsInstance(r) == r = [cfg |-> r.cfg, id |-> r.id, flow |-> r.flow]

LogShape(l) ==
    l = [sent |-> l.sent, answers |-> l.answers, removed |-> l.removed, late |-> l.late,
         unmarked |-> l.unmarked, stuck |-> l.stuck, restarts |-> l.restarts]

Shapes ==
    /\ IsSeq(run)
    /\ \A port \in DOMAIN servers : IsInstance(servers[port])
    /\ files = [config |-> files.config, pid |-> files.pid]
    /\ LogShape(log)

Inv == Shapes /\ ServersInv

LEMMA SeqFacts ==
    ASSUME NEW s, IsSeq(s)
    PROVE  /\ Len(s) \in Nat /\ DOMAIN s = 1 .. Len(s)
           /\ \A i \in DOMAIN s : \A x : IsSeq([s EXCEPT ![i] = x]) /\ Len([s EXCEPT ![i] = x]) = Len(s)
           /\ \A x : /\ IsSeq(Append(s, x)) /\ DOMAIN Append(s, x) = 1 .. Len(s) + 1
                     /\ \A i \in DOMAIN s : Append(s, x)[i] = s[i]
                     /\ Append(s, x)[Len(s) + 1] = x
<1>1. PICK S : s \in Seq(S)
  BY DEF IsSeq
<1>2. Len(s) \in Nat /\ DOMAIN s = 1 .. Len(s)
  BY <1>1
<1>3. ASSUME NEW i \in DOMAIN s, NEW x
      PROVE  IsSeq([s EXCEPT ![i] = x]) /\ Len([s EXCEPT ![i] = x]) = Len(s)
  <2>1. [s EXCEPT ![i] = x] \in Seq(S \cup {x}) /\ s \in Seq(S \cup {x})
    BY <1>1, <1>2, <1>3
  <2>2. DOMAIN [s EXCEPT ![i] = x] = DOMAIN s
    OBVIOUS
  <2> QED BY <2>1, <2>2, <1>2 DEF IsSeq
<1>4. ASSUME NEW x
      PROVE  /\ IsSeq(Append(s, x)) /\ DOMAIN Append(s, x) = 1 .. Len(s) + 1
             /\ \A i \in DOMAIN s : Append(s, x)[i] = s[i]
             /\ Append(s, x)[Len(s) + 1] = x
  <2>1. s \in Seq(S \cup {x}) /\ x \in S \cup {x}
    BY <1>1, <1>2
  <2>2. Append(s, x) \in Seq(S \cup {x}) /\ Len(Append(s, x)) = Len(s) + 1
    BY <2>1
  <2>3. IsSeq(Append(s, x)) /\ DOMAIN Append(s, x) = 1 .. Len(s) + 1
    BY <2>2, <1>2 DEF IsSeq
  <2>4. (\A i \in DOMAIN s : Append(s, x)[i] = s[i]) /\ Append(s, x)[Len(s) + 1] = x
    BY <2>1, <1>2
  <2> QED BY <2>3, <2>4
<1> QED BY <1>2, <1>3, <1>4

LEMMA MappedIsSeq ==
    ASSUME NEW s, IsSeq(s), NEW f, DOMAIN f = DOMAIN s, f = [i \in DOMAIN f |-> f[i]]
    PROVE  IsSeq(f) /\ Len(f) = Len(s)
<1> DEFINE R == {f[i] : i \in DOMAIN f}
<1>1. Len(s) \in Nat /\ DOMAIN s = 1 .. Len(s)
  BY SeqFacts
<1>2. f \in [1 .. Len(s) -> R]
  BY <1>1
<1>3. f \in Seq(R)
  BY <1>1, <1>2
<1>4. Len(f) = Len(s)
  BY <1>1, <1>2, <1>3
<1> QED BY <1>3, <1>4 DEF IsSeq

-----------------------------------------------------------------------------
(***************************************************************************)
(* Steps by which processes only come to their ends.                       *)
(***************************************************************************)

\* new is run, but some processes have been told to end or have ended.
WindsDown(new) ==
    /\ IsSeq(new) /\ DOMAIN new = DOMAIN run
    /\ \A id \in DOMAIN run :
          \/ new[id] = run[id]
          \/ new[id].port = run[id].port /\ new[id].state \in {"stopping", "dead"}

LEMMA RunIsSeq ==
    ASSUME Inv
    PROVE  Len(run) \in Nat /\ DOMAIN run = 1 .. Len(run)
BY SeqFacts DEF Inv, Shapes

LEMMA EndsOne ==
    ASSUME Inv, NEW id \in DOMAIN run, NEW r, r.port = run[id].port, r.state \in {"stopping", "dead"}
    PROVE  WindsDown([run EXCEPT ![id] = r])
BY SeqFacts DEF Inv, Shapes, WindsDown

LEMMA ProcessFacts ==
    ASSUME NEW port, NEW cfg, NEW state, NEW parts, NEW r, r = Process(port, cfg, state, parts)
    PROVE  r.port = port /\ r.cfg = cfg /\ r.state = state /\ r.parts = parts
BY DEF Process

LEMMA EndFacts ==
    ASSUME NEW r
    PROVE  /\ Stopping(r).port = r.port /\ Stopping(r).state = "stopping"
           /\ Dead(r).port = r.port /\ Dead(r).state = "dead"
BY DEF Stopping, Dead, Process

LEMMA WoundStays ==
    ASSUME Inv
    PROVE  WindsDown(run)
BY DEF Inv, Shapes, WindsDown

LEMMA AbortedWinds ==
    ASSUME Inv, NEW port
    PROVE  /\ WindsDown(Aborted(port))
           /\ \A id \in DOMAIN run : port \in DOMAIN servers /\ servers[port].id = id /\ Running(id)
                 => Aborted(port)[id].state = "stopping"
<1>1. CASE port \in DOMAIN servers /\ servers[port].id > 0 /\ Running(servers[port].id)
  <2> DEFINE id == servers[port].id
  <2>1. id \in DOMAIN run
    BY <1>1, RunIsSeq DEF Inv, ServersInv, HeldWhole, ManagerTypeOK
  <2>2. Aborted(port) = [run EXCEPT ![id] = Stopping(run[id])]
    BY <1>1 DEF Aborted
  <2> HIDE DEF id
  <2>3. WindsDown(Aborted(port))
    BY <2>1, <2>2, EndsOne, EndFacts
  <2>4. Aborted(port)[id].state = "stopping"
    BY <2>1, <2>2, EndFacts
  <2> QED BY <2>3, <2>4 DEF id
<1>2. CASE ~(port \in DOMAIN servers /\ servers[port].id > 0 /\ Running(servers[port].id))
  BY <1>2, WoundStays, RunIsSeq DEF Aborted
<1> QED BY <1>1, <1>2

LEMMA TerminatedWinds ==
    ASSUME Inv, NEW port, NEW k
    PROVE  /\ WindsDown(Terminated(port, k))
           /\ \A id \in DOMAIN run : k.read /\ port \in DOMAIN files.pid /\ files.pid[port] = id
                 => Terminated(port, k)[id].state # "running"
<1>1. CASE k.read /\ port \in DOMAIN files.pid /\ run[files.pid[port]].state # "dead"
  <2> DEFINE id == files.pid[port]
  <2>1. id \in DOMAIN run
    BY <1>1 DEF Inv, ServersInv, HeldWhole, ManagerTypeOK
  <2>2. Terminated(port, k) = [run EXCEPT ![id] = Stopping(run[id])]
    BY <1>1 DEF Terminated
  <2> HIDE DEF id
  <2>3. WindsDown(Terminated(port, k))
    BY <2>1, <2>2, EndsOne, EndFacts
  <2>4. Terminated(port, k)[id].state = "stopping"
    BY <2>1, <2>2, EndFacts
  <2> QED BY <2>3, <2>4 DEF id
<1>2. CASE ~(k.read /\ port \in DOMAIN files.pid /\ run[files.pid[port]].state # "dead")
  BY <1>2, WoundStays DEF Terminated
<1> QED BY <1>1, <1>2

-----------------------------------------------------------------------------
(***************************************************************************)
(* What stays true when run only winds down.                               *)
(***************************************************************************)

\* The log of the daemons that are out of reach grows, or stays.
Grown ==
    /\ log.late \subseteq log'.late /\ log.unmarked \subseteq log'.unmarked /\ log.stuck \subseteq log'.stuck
    /\ log'.late \cup log'.unmarked \subseteq DOMAIN run
    /\ ~Standalone => log'.stuck = {}

SameLog == log'.late = log.late /\ log'.unmarked = log.unmarked /\ log'.stuck = log.stuck

LEMMA SameGrown ==
    ASSUME Inv, SameLog
    PROVE  Grown
BY DEF Inv, ServersInv, DaemonsAreKnown, SameLog, Grown

LEMMA LateStays ==
    ASSUME Inv, Grown, \A id \in DOMAIN run : run'[id].port = run[id].port,
           NEW id \in DOMAIN run, LateOn(run[id].port)
    PROVE  LateOn(run[id].port)'
BY DEF Inv, ServersInv, DaemonsAreKnown, LateOn, Grown

LEMMA SameLength ==
    ASSUME NEW m \in Nat, NEW n \in Nat, 1 .. m = 1 .. n
    PROVE  m = n
<1>1. m = 0 \/ m \in 1 .. n
  OBVIOUS
<1>2. n = 0 \/ n \in 1 .. m
  OBVIOUS
<1> QED BY <1>1, <1>2

LEMMA OldIds ==
    ASSUME Inv, NEW new, WindsDown(new), NEW id \in DOMAIN run, run'[id] = new[id]
    PROVE  /\ run'[id].port = run[id].port
           /\ Running(id)' => Running(id) /\ run'[id] = run[id]
           /\ Begun(id)' => Begun(id) /\ run'[id] = run[id]
           /\ run'[id].state \in {"starting", "daemon", "running", "stopping", "dead"}
<1>1. CASE run'[id] = run[id]
  BY <1>1 DEF Running, Begun, Inv, ServersInv, HeldWhole, ManagerTypeOK
<1>2. CASE run'[id].port = run[id].port /\ run'[id].state \in {"stopping", "dead"}
  BY <1>2 DEF Running, Begun
<1> QED BY <1>1, <1>2 DEF WindsDown

LEMMA WoundFacts ==
    ASSUME Inv, WindsDown(run')
    PROVE  /\ IsSeq(run)' /\ Len(run') = Len(run) /\ DOMAIN run' = DOMAIN run
           /\ \A id \in DOMAIN run : run'[id].port = run[id].port
           /\ \A id \in DOMAIN run : Running(id)' => Running(id) /\ run'[id] = run[id]
           /\ \A id \in DOMAIN run : Begun(id)' => Begun(id) /\ run'[id] = run[id]
           /\ \A id \in DOMAIN run : run'[id].state \in {"starting", "daemon", "running", "stopping", "dead"}
<1>1. IsSeq(run') /\ DOMAIN run' = DOMAIN run
  BY DEF WindsDown
<1>2. Len(run') \in Nat /\ DOMAIN run' = 1 .. Len(run') /\ Len(run) \in Nat /\ DOMAIN run = 1 .. Len(run)
  BY <1>1, SeqFacts, RunIsSeq
<1>3. Len(run') = Len(run)
  BY <1>1, <1>2, SameLength
<1> QED BY <1>1, <1>3, OldIds DEF IsSeq

\* Winding down, nothing else changes but the list and the logs of late
\* daemons and of requests.
LEMMA WoundKeeps ==
    ASSUME Inv, WindsDown(run'), UNCHANGED conf,
           Grown
    PROVE  /\ ServersAreWhole'
           /\ log'.late \cup log'.unmarked \subseteq DOMAIN run'
           /\ ~Standalone' => log'.stuck = {} /\ \A id \in DOMAIN run' : ~Begun(id)'
           /\ Standalone' => \A id \in DOMAIN run' : Begun(id)' /\ ~LateOn(run[id].port)' =>
                 /\ run'[id].port \notin log.removed
                 /\ \A other \in DOMAIN run' :
                       run'[other].port = run'[id].port /\ (Begun(other)' \/ (Running(other)' /\ other \notin log'.unmarked)) => other = id
<1>0. Standalone' <=> Standalone
  BY DEF Standalone
<1>1. ServersAreWhole'
  BY WoundFacts DEF Inv, ServersInv, HeldWhole, ServersAreWhole
<1>2. log'.late \cup log'.unmarked \subseteq DOMAIN run' /\ (~Standalone' => log'.stuck = {})
  BY <1>0, WoundFacts DEF Grown
<1>3. ASSUME ~Standalone', NEW id \in DOMAIN run'
      PROVE  ~Begun(id)'
  BY <1>0, <1>3, WoundFacts DEF Inv, ServersInv, DaemonsAreKnown
<1>4. ASSUME Standalone', NEW id \in DOMAIN run', Begun(id)', ~LateOn(run[id].port)'
      PROVE  /\ run'[id].port \notin log.removed
             /\ \A other \in DOMAIN run' :
                   run'[other].port = run'[id].port /\ (Begun(other)' \/ (Running(other)' /\ other \notin log'.unmarked)) => other = id
  <2>1. id \in DOMAIN run /\ Begun(id) /\ run'[id].port = run[id].port
    BY <1>4, WoundFacts
  <2>2. ~LateOn(run[id].port)
    BY <1>4, <2>1, LateStays, WoundFacts
  <2> QED BY <1>0, <1>4, <2>1, <2>2, WoundFacts DEF Inv, ServersInv, OneDaemonBegins, Grown
<1> QED BY <1>1, <1>2, <1>3, <1>4

\* Processes end, and nothing else happens.
LEMMA Winding ==
    ASSUME Inv, WindsDown(run'), UNCHANGED <<conf, servers, files>>, Shapes',
           SameLog, log'.removed = log.removed
    PROVE  Inv'
<1>0. Standalone' <=> Standalone
  BY DEF Standalone
<1>1. Grown
  BY SameGrown
<1>2. ManagerTypeOK'
  BY WoundFacts DEF Inv, ServersInv, HeldWhole, ManagerTypeOK
<1>3. ServersAreHeld'
  BY <1>0, WoundFacts DEF Inv, ServersInv, HeldWhole, ServersAreHeld
<1>4. RemovedStaysRemoved' /\ RemovedHasNoFile'
  BY <1>0 DEF Inv, ServersInv, RemovedIsGone, RemovedStaysRemoved, RemovedHasNoFile, SameLog
<1>5. SurvivorsWereLate'
  <2> SUFFICES ASSUME Standalone', NEW id \in DOMAIN run', Running(id)', run'[id].port \in log'.removed
               PROVE  LateOn(run[id].port)' \/ id \in log'.unmarked
    BY DEF SurvivorsWereLate
  <2>1. id \in DOMAIN run /\ Running(id) /\ run'[id].port = run[id].port
    BY WoundFacts
  <2>2. LateOn(run[id].port) \/ id \in log.unmarked
    BY <1>0, <2>1 DEF Inv, ServersInv, RemovedIsGone, SurvivorsWereLate
  <2> QED BY <1>1, <2>1, <2>2, LateStays, WoundFacts DEF Grown
<1>6. DaemonsAreKnown'
  <2>1. ASSUME Standalone', NEW id \in DOMAIN run', Running(id)', ~LateOn(run[id].port)', id \notin log'.unmarked
        PROVE  run'[id].port \in DOMAIN files'.pid /\ files'.pid[run'[id].port] = id
    <3>1. id \in DOMAIN run /\ Running(id) /\ run'[id].port = run[id].port
      BY <2>1, WoundFacts
    <3>2. ~LateOn(run[id].port) /\ id \notin log.unmarked
      BY <1>1, <2>1, <3>1, LateStays, WoundFacts DEF Grown
    <3> QED BY <1>0, <2>1, <3>1, <3>2 DEF Inv, ServersInv, DaemonsAreKnown
  <2> QED BY <1>1, <2>1, WoundKeeps DEF DaemonsAreKnown
<1>7. OneDaemonBegins'
  BY <1>1, WoundKeeps DEF OneDaemonBegins
<1> QED BY <1>1, <1>2, <1>3, <1>4, <1>5, <1>6, <1>7, WoundKeeps DEF Inv, ServersInv, HeldWhole, RemovedIsGone

-----------------------------------------------------------------------------
(***************************************************************************)
(* Commands.                                                               *)
(***************************************************************************)

LEMMA QuietStep ==
    ASSUME Inv, UNCHANGED <<conf, servers, run, files>>, LogShape(log'),
           SameLog, log'.removed = log.removed
    PROVE  Inv'
<1>1. Shapes'
  BY DEF Inv, Shapes, LogShape, IsSeq, IsInstance
<1>2. WindsDown(run')
  BY WoundStays DEF WindsDown
<1> QED BY <1>1, <1>2, Winding

LEMMA EndStep ==
    ASSUME Inv, NEW id \in DOMAIN run, run' = [run EXCEPT ![id] = Dead(@)],
           UNCHANGED <<conf, servers, files, log>>
    PROVE  Inv'
<1>1. WindsDown(run')
  BY EndsOne, EndFacts
<1>2. Shapes'
  BY <1>1, WoundFacts DEF Inv, Shapes, IsInstance
<1> QED BY <1>1, <1>2, Winding DEF SameLog

LEMMA LogFacts ==
    ASSUME Inv, NEW answer
    PROVE  /\ log' = [log EXCEPT !.answers = @ \cup {answer}] => LogShape(log') /\ SameLog /\ log'.removed = log.removed
           /\ log' = [log EXCEPT !.sent = @ + 1] => LogShape(log') /\ SameLog /\ log'.removed = log.removed
BY DEF Inv, Shapes, LogShape, SameLog

LEMMA AnsweredFacts ==
    ASSUME Inv, NEW cmd, NEW removed, log' = Answered(cmd, removed)
    PROVE  LogShape(log') /\ SameLog /\ log'.removed = removed
BY DEF Inv, Shapes, LogShape, SameLog, Answered

\* What clearing a port leaves in the log.
ClearedLog(port, k) ==
    /\ log'.late = log.late \cup Late(port) /\ log'.unmarked = log.unmarked
    /\ log'.stuck = IF k = Everything THEN log.stuck ELSE log.stuck \cup {port}

LEMMA AnsweredClearedFacts ==
    ASSUME Inv, NEW cmd, NEW removed, NEW port, NEW k, log' = AnsweredCleared(cmd, removed, port, k)
    PROVE  LogShape(log') /\ ClearedLog(port, k) /\ log'.removed = removed
BY DEF Inv, Shapes, LogShape, ClearedLog, AnsweredCleared

LEMMA ClientSendsStep ==
    ASSUME Inv, NEW request, ClientSends(request)
    PROVE  Inv'
BY LogFacts, QuietStep DEF ClientSends

LEMMA HandleListStep ==
    ASSUME Inv, NEW bytes, NEW cmd, HandleList(bytes, cmd)
    PROVE  Inv'
BY AnsweredFacts, QuietStep DEF HandleList

LEMMA UnchangedStep ==
    ASSUME Inv, UNCHANGED <<conf, servers, run, files, log>>
    PROVE  Inv'
BY QuietStep DEF Inv, Shapes, LogShape, SameLog

LEMMA HandleStatStep ==
    ASSUME Inv, NEW bytes, NEW p, HandleStat(bytes, p)
    PROVE  Inv'
<1>0. UNCHANGED <<conf, run, files, log>> /\ (Standalone' <=> Standalone)
  BY DEF Standalone, HandleStat
<1>1. CASE servers' = servers
  BY <1>0, <1>1, UnchangedStep
<1>2. CASE Standalone /\ DOMAIN servers' \subseteq DOMAIN servers \cup DOMAIN files.config
           /\ \A port \in DOMAIN servers' : IsInstance(servers'[port]) /\ servers'[port].id \in 0 .. Len(run)
  <2>1. Shapes'
    BY <1>0, <1>2 DEF Inv, Shapes, IsSeq, IsInstance
  <2>2. ManagerTypeOK'
    BY <1>0, <1>2 DEF Inv, ServersInv, HeldWhole, ManagerTypeOK
  <2>3. ServersAreHeld' /\ ServersAreWhole'
    BY <1>0, <1>2 DEF Inv, ServersInv, HeldWhole, ServersAreHeld, ServersAreWhole, Running
  <2>4. RemovedStaysRemoved'
    BY <1>0, <1>2 DEF Inv, ServersInv, RemovedIsGone, RemovedStaysRemoved, RemovedHasNoFile
  <2>5. SurvivorsWereLate' /\ RemovedHasNoFile'
    BY <1>0 DEF Inv, ServersInv, RemovedIsGone, SurvivorsWereLate, RemovedHasNoFile, Running, LateOn
  <2>6. DaemonsAreKnown' /\ OneDaemonBegins'
    BY <1>0 DEF Inv, ServersInv, DaemonsAreKnown, OneDaemonBegins, Running, Begun, LateOn
  <2> QED BY <2>1, <2>2, <2>3, <2>4, <2>5, <2>6 DEF Inv, ServersInv, HeldWhole, RemovedIsGone
<1>3. CASE Standalone /\ p.port \in DOMAIN servers
  <2>1. servers' = [servers EXCEPT ![p.port].flow = p.flow]
    BY <1>3 DEF HandleStat
  <2>2. ASSUME NEW port \in DOMAIN servers
        PROVE  IsInstance(servers'[port]) /\ servers'[port].id \in 0 .. Len(run)
    <3>1. IsInstance(servers[port]) /\ servers[port].id \in 0 .. Len(run)
      BY DEF Inv, Shapes, ServersInv, HeldWhole, ManagerTypeOK
    <3>2. CASE port = p.port
      <4>1. servers'[port] = [servers[port] EXCEPT !.flow = p.flow]
        BY <2>1, <3>2
      <4> QED BY <3>1, <4>1 DEF IsInstance
    <3>3. CASE port # p.port
      BY <2>1, <3>1, <3>3
    <3> QED BY <3>2, <3>3
  <2>3. DOMAIN servers' = DOMAIN servers
    BY <2>1
  <2> QED BY <1>2, <1>3, <2>2, <2>3
<1>4. CASE Standalone /\ p.port \notin DOMAIN servers /\ p.port \in DOMAIN files.config
  <2> DEFINE new == [cfg |-> files.config[p.port], id |-> 0, flow |-> p.flow]
  <2>1. servers' = With(servers, p.port, new)
    BY <1>4 DEF HandleStat
  <2>2. IsInstance(new) /\ new.id \in 0 .. Len(run)
    BY RunIsSeq DEF IsInstance
  <2> HIDE DEF new
  <2>m. /\ DOMAIN servers' = DOMAIN servers \cup {p.port} /\ servers'[p.port] = new
        /\ \A port \in DOMAIN servers \ {p.port} : servers'[port] = servers[port]
    BY <2>1 DEF With
  <2>3. DOMAIN servers' \subseteq DOMAIN servers \cup DOMAIN files.config
    BY <1>4, <2>m
  <2>4. \A port \in DOMAIN servers' : IsInstance(servers'[port]) /\ servers'[port].id \in 0 .. Len(run)
    BY <2>m, <2>2 DEF Inv, Shapes, ServersInv, HeldWhole, ManagerTypeOK
  <2> QED BY <1>2, <1>4, <2>3, <2>4
<1> QED BY <1>1, <1>3, <1>4 DEF HandleStat

-----------------------------------------------------------------------------
(***************************************************************************)
(* Commands that stop servers.                                             *)
(***************************************************************************)

\* Clearing a port: its daemon is terminated, its files go, and the daemons of
\* the port that had no pid file yet are logged, or the port itself is.
PidsElsewhere(port, k) ==
    /\ DOMAIN files'.pid \subseteq DOMAIN files.pid /\ DOMAIN files.pid \ {port} \subseteq DOMAIN files'.pid
    /\ \A x \in DOMAIN files'.pid : files'.pid[x] = files.pid[x]

LEMMA ClearedIds ==
    ASSUME Inv, Standalone, NEW port, NEW k, \A id \in DOMAIN run : run'[id] = Terminated(port, k)[id],
           ClearedLog(port, k), PidsElsewhere(port, k)
    PROVE  /\ Grown
           /\ \A id \in DOMAIN run : Begun(id)' /\ run'[id].port = port => LateOn(run[id].port)'
           /\ \A id \in DOMAIN run :
                 Running(id)' /\ run'[id].port = port => LateOn(run[id].port)' \/ id \in log'.unmarked
           /\ \A id \in DOMAIN run : Running(id)' /\ ~LateOn(run[id].port)' /\ id \notin log'.unmarked =>
                 run'[id].port \in DOMAIN files'.pid /\ files'.pid[run'[id].port] = id
<1>1. WindsDown(Terminated(port, k))
  BY TerminatedWinds
<1>2. Grown
  BY DEF Inv, ServersInv, DaemonsAreKnown, Late, ClearedLog, Grown
<1>3. ASSUME NEW id \in DOMAIN run, Running(id)' \/ Begun(id)', run'[id].port = port
      PROVE  LateOn(run[id].port)' \/ (Running(id)' /\ id \in log'.unmarked)
  <2>1. run'[id] = run[id] /\ (Running(id) \/ Begun(id))
    BY <1>1, <1>3, OldIds
  <2>2. CASE Begun(id)
    <3>1. id \in log'.late
      BY <1>3, <2>1, <2>2 DEF Late, Begun, ClearedLog
    <3> QED BY <1>3, <3>1 DEF LateOn
  <2>3. CASE k # Everything
    BY <1>3, <2>3 DEF ClearedLog, LateOn
  <2>4. CASE Running(id) /\ k = Everything
    <3>1. files.pid[port] = id /\ port \in DOMAIN files.pid => ~Running(id)'
      BY <2>1, <2>4, TerminatedWinds DEF Running, Everything
    <3>2. ~Begun(id)'
      BY <2>1, <2>4 DEF Running, Begun
    <3>3. LateOn(run[id].port) \/ id \in log.unmarked
      BY <1>3, <2>1, <2>4, <3>1, <3>2 DEF Inv, ServersInv, DaemonsAreKnown
    <3>4. LateOn(run[id].port) => LateOn(run[id].port)'
      BY <1>1, <1>2, LateStays, OldIds
    <3> QED BY <1>2, <1>3, <3>2, <3>3, <3>4 DEF Grown
  <2> QED BY <2>1, <2>2, <2>3, <2>4
<1>4. ASSUME NEW id \in DOMAIN run, Running(id)', ~LateOn(run[id].port)', id \notin log'.unmarked
      PROVE  run'[id].port \in DOMAIN files'.pid /\ files'.pid[run'[id].port] = id
  <2>1. Running(id) /\ run'[id].port = run[id].port
    BY <1>1, <1>4, OldIds
  <2>2. run[id].port # port
    BY <1>3, <1>4, <2>1
  <2>3. ~LateOn(run[id].port) /\ id \notin log.unmarked
    BY <1>1, <1>2, <1>4, LateStays, OldIds DEF Grown
  <2>4. run[id].port \in DOMAIN files.pid /\ files.pid[run[id].port] = id
    BY <2>1, <2>3 DEF Inv, ServersInv, DaemonsAreKnown
  <2> QED BY <2>1, <2>2, <2>4 DEF PidsElsewhere
<1>5. \A id \in DOMAIN run : Begun(id)' => ~Running(id)'
  BY DEF Begun, Running
<1> QED BY <1>2, <1>3, <1>4, <1>5

LEMMA ClearedPort ==
    ASSUME Inv, Standalone, UNCHANGED conf, NEW port, NEW k, run' = Terminated(port, k),
           ClearedLog(port, k), PidsElsewhere(port, k)
    PROVE  /\ WindsDown(run') /\ Standalone'
           /\ Grown
           /\ DaemonsAreKnown'
           /\ \A id \in DOMAIN run' : Begun(id)' /\ run'[id].port = port => LateOn(run[id].port)'
           /\ \A id \in DOMAIN run' :
                 Running(id)' /\ run'[id].port = port => LateOn(run[id].port)' \/ id \in log'.unmarked
<1>1. WindsDown(run') /\ Standalone' /\ DOMAIN run' = DOMAIN run
  BY TerminatedWinds DEF Standalone, WindsDown
<1>2. DaemonsAreKnown'
  BY <1>1, ClearedIds DEF DaemonsAreKnown, Grown
<1> QED BY <1>1, <1>2, ClearedIds

LEMMA ClearedFiles ==
    ASSUME NEW port, NEW k, files' = Cleared(port, k)
    PROVE  /\ files' = [config |-> files'.config, pid |-> files'.pid]
           /\ PidsElsewhere(port, k)
           /\ DOMAIN files'.config \subseteq DOMAIN files.config
           /\ k = Everything => DOMAIN files'.config = DOMAIN files.config \ {port}
BY DEF Cleared, Without, Restrict, PidsElsewhere, Everything

LEMMA RemoveStandalone ==
    ASSUME Inv, Standalone, NEW bytes, NEW p, HandleRemove(bytes, p)
    PROVE  Inv'
<1> DEFINE port == p.port
<1>0. PICK k \in Clearings(port) :
         /\ run' = Terminated(port, k) /\ files' = Cleared(port, k)
         /\ log' = AnsweredCleared("remove", log.removed \cup {port}, port, k)
  BY DEF HandleRemove
<1>1. /\ run' = Terminated(port, k) /\ UNCHANGED conf
      /\ ClearedLog(port, k) /\ log'.removed = log.removed \cup {port} /\ LogShape(log')
  BY <1>0, AnsweredClearedFacts DEF HandleRemove
<1>2. /\ files' = [config |-> files'.config, pid |-> files'.pid]
      /\ PidsElsewhere(port, k) /\ DOMAIN files'.config \subseteq DOMAIN files.config
      /\ k = Everything => DOMAIN files'.config = DOMAIN files.config \ {port}
  BY <1>0, ClearedFiles
<1>3. DOMAIN servers' = DOMAIN servers \ {port} /\ \A x \in DOMAIN servers' : servers'[x] = servers[x]
  BY DEF HandleRemove, Without, Restrict
<1> HIDE DEF port
<1>4. /\ WindsDown(run') /\ Standalone' /\ DaemonsAreKnown'
      /\ Grown
      /\ \A id \in DOMAIN run' : Begun(id)' /\ run'[id].port = port => LateOn(run[id].port)'
      /\ \A id \in DOMAIN run' :
            Running(id)' /\ run'[id].port = port => LateOn(run[id].port)' \/ id \in log'.unmarked
  BY <1>1, <1>2, ClearedPort
<1>5. Shapes'
  BY <1>1, <1>2, <1>3, <1>4, WoundFacts DEF Inv, Shapes, IsInstance
<1>6. ManagerTypeOK'
  BY <1>1, <1>2, <1>3, <1>4, WoundFacts DEF Inv, ServersInv, HeldWhole, ManagerTypeOK, PidsElsewhere
<1>7. ServersAreHeld' /\ ServersAreWhole'
  BY <1>1, <1>4, WoundKeeps DEF ServersAreHeld
<1>8. RemovedStaysRemoved' /\ RemovedHasNoFile'
  BY <1>1, <1>2, <1>3
     DEF Inv, ServersInv, RemovedIsGone, RemovedStaysRemoved, RemovedHasNoFile, ClearedLog
<1>9. SurvivorsWereLate'
  <2> SUFFICES ASSUME NEW id \in DOMAIN run', Running(id)', run'[id].port \in log'.removed, run'[id].port # port
               PROVE  LateOn(run[id].port)' \/ id \in log'.unmarked
    BY <1>4 DEF SurvivorsWereLate
  <2>1. id \in DOMAIN run /\ Running(id) /\ run'[id].port = run[id].port
    BY <1>4, WoundFacts
  <2>2. LateOn(run[id].port) \/ id \in log.unmarked
    BY <1>1, <2>1 DEF Inv, ServersInv, RemovedIsGone, SurvivorsWereLate
  <2> QED BY <1>4, <2>1, <2>2, LateStays, WoundFacts DEF Grown
<1>10. OneDaemonBegins'
  <2> SUFFICES ASSUME NEW id \in DOMAIN run', Begun(id)', ~LateOn(run[id].port)'
               PROVE  /\ run'[id].port \notin log'.removed
                      /\ \A other \in DOMAIN run' :
                            run'[other].port = run'[id].port /\ (Begun(other)' \/ (Running(other)' /\ other \notin log'.unmarked)) => other = id
    BY DEF OneDaemonBegins
  <2>1. run'[id].port # port
    BY <1>4
  <2> QED BY <1>1, <1>4, <2>1, WoundKeeps
<1> QED BY <1>4, <1>5, <1>6, <1>7, <1>8, <1>9, <1>10 DEF Inv, ServersInv, HeldWhole, RemovedIsGone

\* A built-in server is aborted and its instance dropped.
LEMMA DropBuiltin ==
    ASSUME Inv, ~Standalone, NEW port, run' = Aborted(port), UNCHANGED <<conf, files>>,
           servers' = Without(servers, port), LogShape(log'),
           SameLog, log'.removed \subseteq log.removed \cup {port}
    PROVE  Inv'
<1>3. DOMAIN servers' = DOMAIN servers \ {port} /\ \A x \in DOMAIN servers' : servers'[x] = servers[x]
  BY DEF Without, Restrict
<1>4. /\ WindsDown(run') /\ ~Standalone' 
      /\ Grown
  BY AbortedWinds, SameGrown DEF Standalone
<1>5. Shapes'
  BY <1>3, <1>4, WoundFacts DEF Inv, Shapes, IsInstance
<1>6. ManagerTypeOK'
  BY <1>3, <1>4, WoundFacts DEF Inv, ServersInv, HeldWhole, ManagerTypeOK
<1>7. ServersAreHeld'
  <2> SUFFICES ASSUME NEW id \in DOMAIN run', Running(id)'
               PROVE  /\ run'[id].port \in DOMAIN servers' /\ servers'[run'[id].port].id = id
                      /\ servers'[run'[id].port].cfg = run'[id].cfg
    BY DEF ServersAreHeld
  <2>1. id \in DOMAIN run /\ Running(id) /\ run'[id] = run[id]
    BY <1>4, WoundFacts
  <2>2. /\ run[id].port \in DOMAIN servers /\ servers[run[id].port].id = id
        /\ servers[run[id].port].cfg = run[id].cfg
    BY <2>1 DEF Inv, ServersInv, HeldWhole, ServersAreHeld
  <2>3. run[id].port # port
    BY <2>1, <2>2, AbortedWinds DEF Running
  <2> QED BY <1>3, <2>1, <2>2, <2>3
<1>8. RemovedStaysRemoved'
  BY <1>3 DEF Inv, ServersInv, RemovedIsGone, RemovedStaysRemoved, SameLog
<1>9. SurvivorsWereLate' /\ RemovedHasNoFile' /\ OneDaemonBegins'
  BY <1>4 DEF SurvivorsWereLate, RemovedHasNoFile, OneDaemonBegins
<1>10. DaemonsAreKnown'
  BY <1>4, WoundKeeps DEF DaemonsAreKnown
<1> QED BY <1>4, <1>5, <1>6, <1>7, <1>8, <1>9, <1>10, WoundKeeps DEF Inv, ServersInv, HeldWhole, RemovedIsGone

LEMMA HandleRemoveStep ==
    ASSUME Inv, NEW bytes, NEW p, HandleRemove(bytes, p)
    PROVE  Inv'
<1>1. CASE Standalone
  BY <1>1, RemoveStandalone
<1>2. CASE ~Standalone
  <2>1. /\ run' = Aborted(p.port) /\ UNCHANGED <<conf, files>> /\ servers' = Without(servers, p.port)
        /\ log' = Answered("remove", log.removed \cup {p.port})
    BY <1>2 DEF HandleRemove
  <2>2. LogShape(log') /\ SameLog /\ log'.removed = log.removed \cup {p.port}
    BY <2>1, AnsweredFacts
  <2> QED BY <1>2, <2>1, <2>2, DropBuiltin
<1> QED BY <1>1, <1>2

-----------------------------------------------------------------------------
(***************************************************************************)
(* Commands that start servers.                                            *)
(***************************************************************************)

\* What adding a server leaves of the files of its port.
LeftFiles(port, k) ==
    /\ files' = [config |-> files'.config, pid |-> files'.pid]
    /\ PidsElsewhere(port, k)
    /\ DOMAIN files'.config \subseteq DOMAIN files.config \cup {port}

LEMMA AddedFiles ==
    ASSUME NEW port, NEW k, NEW cfg,
           LET left == Cleared(port, k)
           IN  files' \in {left, [left EXCEPT !.config = With(@, port, cfg)], [left EXCEPT !.config = Without(@, port)]}
    PROVE  LeftFiles(port, k)
<1> DEFINE left == Cleared(port, k)
<1>1. /\ left = [config |-> left.config, pid |-> left.pid]
      /\ DOMAIN left.pid \subseteq DOMAIN files.pid /\ DOMAIN files.pid \ {port} \subseteq DOMAIN left.pid
      /\ \A x \in DOMAIN left.pid : left.pid[x] = files.pid[x]
      /\ DOMAIN left.config \subseteq DOMAIN files.config
  BY DEF Cleared, Without, Restrict
<1> HIDE DEF left
<1>2. /\ files' = [config |-> files'.config, pid |-> left.pid]
      /\ files'.config \in {left.config, With(left.config, port, cfg), Without(left.config, port)}
  BY <1>1 DEF left
<1>3. DOMAIN files'.config \subseteq DOMAIN left.config \cup {port}
  BY <1>2 DEF With, Without, Restrict
<1>4. files'.pid = left.pid
  BY <1>2
<1> QED BY <1>1, <1>2, <1>3, <1>4 DEF LeftFiles, PidsElsewhere

\* A daemon is not started: its port is cleared all the same.
LEMMA AddNothing ==
    ASSUME Inv, Standalone, UNCHANGED <<conf, servers>>, NEW port, NEW k, run' = Terminated(port, k),
           LeftFiles(port, k),
           LogShape(log'), ClearedLog(port, k), log'.removed = log.removed \ {port}
    PROVE  Inv'
<1>2. /\ files' = [config |-> files'.config, pid |-> files'.pid]
      /\ PidsElsewhere(port, k)
      /\ DOMAIN files'.config \subseteq DOMAIN files.config \cup {port}
  BY DEF LeftFiles
<1>4. /\ WindsDown(run') /\ Standalone' /\ DaemonsAreKnown'
      /\ Grown
  BY <1>2, ClearedPort
<1>5. Shapes'
  BY <1>2, <1>4, WoundFacts DEF Inv, Shapes, IsInstance
<1>6. ManagerTypeOK'
  BY <1>2, <1>4, WoundFacts DEF Inv, ServersInv, HeldWhole, ManagerTypeOK, PidsElsewhere
<1>7. ServersAreHeld' /\ ServersAreWhole'
  BY <1>4, WoundKeeps DEF ServersAreHeld
<1>8. RemovedStaysRemoved' /\ RemovedHasNoFile'
  BY <1>2, <1>4 DEF Inv, ServersInv, RemovedIsGone, RemovedStaysRemoved, RemovedHasNoFile, Grown
<1>9. SurvivorsWereLate'
  <2> SUFFICES ASSUME NEW id \in DOMAIN run', Running(id)', run'[id].port \in log'.removed
               PROVE  LateOn(run[id].port)' \/ id \in log'.unmarked
    BY DEF SurvivorsWereLate
  <2>1. id \in DOMAIN run /\ Running(id) /\ run'[id].port = run[id].port
    BY <1>4, WoundFacts
  <2>2. LateOn(run[id].port) \/ id \in log.unmarked
    BY <2>1 DEF Inv, ServersInv, RemovedIsGone, SurvivorsWereLate
  <2> QED BY <1>4, <2>1, <2>2, LateStays, WoundFacts DEF Grown
<1>10. OneDaemonBegins'
  <2> SUFFICES ASSUME NEW id \in DOMAIN run', Begun(id)', ~LateOn(run[id].port)'
               PROVE  /\ run'[id].port \notin log'.removed
                      /\ \A other \in DOMAIN run' :
                            run'[other].port = run'[id].port /\ (Begun(other)' \/ (Running(other)' /\ other \notin log'.unmarked)) => other = id
    BY DEF OneDaemonBegins
  <2> QED BY <1>4, WoundKeeps
<1> QED BY <1>4, <1>5, <1>6, <1>7, <1>8, <1>9, <1>10 DEF Inv, ServersInv, HeldWhole, RemovedIsGone

Begins(port, cfg, k) == run' = Append(Terminated(port, k), Process(port, cfg, "starting", {}))

\* A daemon is started: the only one of its port, but for late ones.
LEMMA AddDaemon ==
    ASSUME Inv, Standalone, UNCHANGED conf, NEW port, NEW cfg, NEW k, Begins(port, cfg, k),
           LeftFiles(port, k),
           servers' = With(servers, port, [cfg |-> cfg, id |-> 0, flow |-> 0]),
           LogShape(log'), ClearedLog(port, k), log'.removed = log.removed \ {port}
    PROVE  Inv'
<1>0. PICK n : n = Len(run) + 1
  OBVIOUS
<1>1. WindsDown(Terminated(port, k))
  BY TerminatedWinds
<1>2. /\ IsSeq(run') /\ Len(run) \in Nat /\ DOMAIN run = 1 .. Len(run)
      /\ DOMAIN run' = 1 .. n /\ run'[n] = Process(port, cfg, "starting", {})
      /\ \A id \in DOMAIN run : run'[id] = Terminated(port, k)[id]
  <2>1. IsSeq(Terminated(port, k)) /\ DOMAIN Terminated(port, k) = DOMAIN run
    BY <1>1 DEF WindsDown
  <2>2. Len(Terminated(port, k)) = Len(run)
    BY <2>1, SeqFacts, RunIsSeq, SameLength
  <2> QED BY <1>0, <2>1, <2>2, SeqFacts, RunIsSeq DEF Begins
<1>3. /\ run'[n].port = port /\ run'[n].state = "starting" /\ ~Running(n)'
      /\ n \notin DOMAIN run /\ DOMAIN run' = DOMAIN run \cup {n} /\ Standalone'
      /\ Len(run') = n
  <2>1. run'[n].port = port /\ run'[n].state = "starting" /\ ~Running(n)'
    BY <1>2, ProcessFacts DEF Running
  <2>2. n \notin DOMAIN run /\ DOMAIN run' = DOMAIN run \cup {n} /\ n \in Nat
    BY <1>0, <1>2
  <2>3. Len(run') \in Nat /\ DOMAIN run' = 1 .. Len(run')
    BY <1>2, SeqFacts
  <2>4. Len(run') = n
    BY <1>2, <2>2, <2>3, SameLength
  <2> QED BY <2>1, <2>2, <2>4 DEF Standalone
<1>4. /\ files' = [config |-> files'.config, pid |-> files'.pid]
      /\ PidsElsewhere(port, k)
      /\ DOMAIN files'.config \subseteq DOMAIN files.config \cup {port}
  BY DEF LeftFiles
<1>5. /\ DOMAIN servers' = DOMAIN servers \cup {port}
      /\ servers'[port] = [cfg |-> cfg, id |-> 0, flow |-> 0]
      /\ \A x \in DOMAIN servers \ {port} : servers'[x] = servers[x]
  BY DEF With
<1>6. /\ Grown
      /\ \A id \in DOMAIN run : Begun(id)' /\ run'[id].port = port => LateOn(run[id].port)'
      /\ \A id \in DOMAIN run :
            Running(id)' /\ run'[id].port = port => LateOn(run[id].port)' \/ id \in log'.unmarked
      /\ \A id \in DOMAIN run : Running(id)' /\ ~LateOn(run[id].port)' /\ id \notin log'.unmarked =>
            run'[id].port \in DOMAIN files'.pid /\ files'.pid[run'[id].port] = id
  BY <1>2, <1>4, ClearedIds
<1>8. \A id \in DOMAIN run :
         /\ run'[id].port = run[id].port
         /\ Running(id)' => Running(id) /\ run'[id] = run[id]
         /\ Begun(id)' => Begun(id) /\ run'[id] = run[id]
         /\ run'[id].state \in {"starting", "daemon", "running", "stopping", "dead"}
  BY <1>1, <1>2, OldIds
<1>7. \A id \in DOMAIN run : LateOn(run[id].port) => LateOn(run[id].port)'
  BY <1>6, <1>8, LateStays
<1>9. Shapes'
  <2>1. \A x \in DOMAIN servers' : IsInstance(servers'[x])
    BY <1>5 DEF IsInstance, Inv, Shapes
  <2> QED BY <1>2, <1>4, <2>1 DEF Shapes, IsSeq, IsInstance
<1>10. ManagerTypeOK'
  <2>1. \A id \in DOMAIN run' : run'[id].state \in {"starting", "daemon", "running", "stopping", "dead"}
    BY <1>3, <1>8
  <2>2. \A x \in DOMAIN servers' : servers'[x].id \in 0 .. Len(run')
    <3> SUFFICES ASSUME NEW x \in DOMAIN servers' PROVE servers'[x].id \in 0 .. Len(run')
      OBVIOUS
    <3>1. CASE x = port
      BY <1>0, <1>2, <1>3, <1>5, <3>1
    <3>2. CASE x # port
      <4>1. servers'[x] = servers[x] /\ servers[x].id \in 0 .. Len(run)
        BY <1>5, <3>2 DEF Inv, ServersInv, HeldWhole, ManagerTypeOK
      <4> QED BY <1>0, <1>2, <1>3, <4>1
    <3> QED BY <3>1, <3>2
  <2>3. \A x \in DOMAIN files'.pid : files'.pid[x] \in DOMAIN run'
    BY <1>3, <1>4 DEF Inv, ServersInv, HeldWhole, ManagerTypeOK, PidsElsewhere
  <2> QED BY <2>1, <2>2, <2>3 DEF Inv, ServersInv, HeldWhole, ManagerTypeOK
<1>11. ServersAreHeld'
  BY <1>3 DEF ServersAreHeld
<1>12. ServersAreWhole'
  BY <1>3, <1>8 DEF Inv, ServersInv, HeldWhole, ServersAreWhole
<1>13. RemovedStaysRemoved' /\ RemovedHasNoFile'
  BY <1>3, <1>4, <1>5, <1>6 DEF Inv, ServersInv, RemovedIsGone, RemovedStaysRemoved, RemovedHasNoFile, Grown
<1>14. SurvivorsWereLate'
  BY <1>3, <1>6, <1>7, <1>8 DEF Inv, ServersInv, RemovedIsGone, SurvivorsWereLate, Grown
<1>15. DaemonsAreKnown'
  BY <1>3, <1>6 DEF DaemonsAreKnown, Grown
<1>16. OneDaemonBegins'
  <2> SUFFICES ASSUME NEW id \in DOMAIN run', Begun(id)', ~LateOn(run[id].port)'
               PROVE  /\ run'[id].port \notin log'.removed
                      /\ \A other \in DOMAIN run' :
                            run'[other].port = run'[id].port /\ (Begun(other)' \/ (Running(other)' /\ other \notin log'.unmarked)) => other = id
    BY DEF OneDaemonBegins
  <2>1. CASE id = n
    <3>1. run'[id].port \notin log'.removed
      BY <1>3, <2>1
    <3>2. ASSUME NEW other \in DOMAIN run, run'[other].port = run'[id].port,
                 Begun(other)' \/ (Running(other)' /\ other \notin log'.unmarked)
          PROVE  FALSE
      <4>1. LateOn(run[other].port)'
        BY <1>3, <1>6, <2>1, <3>2
      <4> QED BY <4>1, <3>2 DEF LateOn
    <3> QED BY <1>3, <2>1, <3>1, <3>2
  <2>2. CASE id \in DOMAIN run
    <3>1. Begun(id) /\ run'[id].port = run[id].port /\ ~LateOn(run[id].port)
      BY <1>7, <1>8, <2>2
    <3>2. run'[id].port # port
      BY <1>6, <2>2
    <3> QED BY <1>3, <1>6, <1>8, <2>2, <3>1, <3>2 DEF Inv, ServersInv, OneDaemonBegins, Grown
  <2> QED BY <1>3, <2>1, <2>2
<1> QED BY <1>9, <1>10, <1>11, <1>12, <1>13, <1>14, <1>15, <1>16 DEF Inv, ServersInv, HeldWhole, RemovedIsGone

Serves(before, port, cfg, parts) == run' = Append(before, Process(port, cfg, "running", parts))

\* A built-in server is started once nothing is left on its port.
LEMMA AddServer ==
    ASSUME Inv, ~Standalone, UNCHANGED <<conf, files>>, NEW port, NEW cfg, NEW before,
           WindsDown(before), Serves(before, port, cfg, Parts(cfg)),
           \A i \in DOMAIN before : before[i].port = port => before[i].state = "dead",
           servers' = With(servers, port, [cfg |-> cfg, id |-> Len(run) + 1, flow |-> 0]),
           LogShape(log'), SameLog, log'.removed = log.removed \ {port}
    PROVE  Inv'
<1>0. PICK n : n = Len(run) + 1
  OBVIOUS
<1>2. /\ IsSeq(run') /\ Len(run) \in Nat /\ DOMAIN run = 1 .. Len(run) /\ DOMAIN before = DOMAIN run
      /\ DOMAIN run' = 1 .. n /\ run'[n] = Process(port, cfg, "running", Parts(cfg))
      /\ \A id \in DOMAIN run : run'[id] = before[id]
  <2>1. IsSeq(before) /\ DOMAIN before = DOMAIN run
    BY DEF WindsDown
  <2>2. Len(before) = Len(run)
    BY <2>1, SeqFacts, RunIsSeq, SameLength
  <2> QED BY <1>0, <2>1, <2>2, SeqFacts, RunIsSeq DEF Serves
<1>3. /\ run'[n].port = port /\ run'[n].cfg = cfg /\ run'[n].state = "running" /\ run'[n].parts = Parts(cfg)
      /\ n \notin DOMAIN run /\ DOMAIN run' = DOMAIN run \cup {n} /\ ~Standalone'
      /\ Len(run') = n /\ n \in Nat
  <2>1. run'[n].port = port /\ run'[n].cfg = cfg /\ run'[n].state = "running" /\ run'[n].parts = Parts(cfg)
    BY <1>2, ProcessFacts
  <2>2. n \notin DOMAIN run /\ DOMAIN run' = DOMAIN run \cup {n} /\ n \in Nat
    BY <1>0, <1>2
  <2>3. Len(run') \in Nat /\ DOMAIN run' = 1 .. Len(run')
    BY <1>2, SeqFacts
  <2>4. Len(run') = n
    BY <1>2, <2>2, <2>3, SameLength
  <2> QED BY <2>1, <2>2, <2>4 DEF Standalone
<1>4. \A id \in DOMAIN run :
         /\ run'[id].port = run[id].port
         /\ Running(id)' => Running(id) /\ run'[id] = run[id]
         /\ Begun(id)' => Begun(id) /\ run'[id] = run[id]
         /\ run'[id].state \in {"starting", "daemon", "running", "stopping", "dead"}
  BY <1>2, OldIds
<1>5. /\ DOMAIN servers' = DOMAIN servers \cup {port}
      /\ servers'[port] = [cfg |-> cfg, id |-> n, flow |-> 0]
      /\ \A x \in DOMAIN servers \ {port} : servers'[x] = servers[x]
  BY <1>0 DEF With
<1>6. \A id \in DOMAIN run : Running(id)' => run'[id].port # port
  BY <1>2 DEF Running
<1>7. Shapes'
  <2>1. \A x \in DOMAIN servers' : IsInstance(servers'[x])
    BY <1>5 DEF IsInstance, Inv, Shapes
  <2> QED BY <1>2, <2>1 DEF Inv, Shapes, IsSeq, IsInstance
<1>8. ManagerTypeOK'
  <2>1. \A id \in DOMAIN run' : run'[id].state \in {"starting", "daemon", "running", "stopping", "dead"}
    BY <1>3, <1>4
  <2>2. \A x \in DOMAIN servers' : servers'[x].id \in 0 .. Len(run')
    <3> SUFFICES ASSUME NEW x \in DOMAIN servers' PROVE servers'[x].id \in 0 .. Len(run')
      OBVIOUS
    <3>1. CASE x = port
      BY <1>3, <1>5, <3>1
    <3>2. CASE x # port
      <4>1. servers'[x] = servers[x] /\ servers[x].id \in 0 .. Len(run)
        BY <1>5, <3>2 DEF Inv, ServersInv, HeldWhole, ManagerTypeOK
      <4> QED BY <1>0, <1>2, <1>3, <4>1
    <3> QED BY <3>1, <3>2
  <2>3. \A x \in DOMAIN files'.pid : files'.pid[x] \in DOMAIN run'
    BY <1>3 DEF Inv, ServersInv, HeldWhole, ManagerTypeOK
  <2> QED BY <2>1, <2>2, <2>3 DEF Inv, ServersInv, HeldWhole, ManagerTypeOK
<1>9. ServersAreHeld'
  <2> SUFFICES ASSUME NEW id \in DOMAIN run', Running(id)'
               PROVE  /\ run'[id].port \in DOMAIN servers' /\ servers'[run'[id].port].id = id
                      /\ servers'[run'[id].port].cfg = run'[id].cfg
    BY DEF ServersAreHeld
  <2>1. CASE id = n
    BY <1>3, <1>5, <2>1
  <2>2. CASE id \in DOMAIN run
    <3>1. Running(id) /\ run'[id] = run[id] /\ run[id].port # port
      BY <1>4, <1>6, <2>2
    <3>2. /\ run[id].port \in DOMAIN servers /\ servers[run[id].port].id = id
          /\ servers[run[id].port].cfg = run[id].cfg
      BY <2>2, <3>1 DEF Inv, ServersInv, HeldWhole, ServersAreHeld
    <3> QED BY <1>5, <3>1, <3>2
  <2> QED BY <1>3, <2>1, <2>2
<1>10. ServersAreWhole'
  <2>1. \A id \in DOMAIN run' : Running(id)' => run'[id].parts = Parts(run'[id].cfg)
    BY <1>3, <1>4 DEF Inv, ServersInv, HeldWhole, ServersAreWhole
  <2>2. \A i, j \in DOMAIN run' : Running(i)' /\ Running(j)' /\ run'[i].port = run'[j].port => i = j
    BY <1>3, <1>4, <1>6 DEF Inv, ServersInv, HeldWhole, ServersAreWhole
  <2> QED BY <2>1, <2>2 DEF ServersAreWhole
<1>11. RemovedStaysRemoved'
  BY <1>5 DEF Inv, ServersInv, RemovedIsGone, RemovedStaysRemoved, SameLog
<1>12. SurvivorsWereLate' /\ RemovedHasNoFile' /\ OneDaemonBegins'
  BY <1>3 DEF SurvivorsWereLate, RemovedHasNoFile, OneDaemonBegins
<1>13. DaemonsAreKnown'
  <2>1. log'.late \cup log'.unmarked \subseteq DOMAIN run' /\ log'.stuck = {}
    BY <1>3 DEF Inv, ServersInv, DaemonsAreKnown, SameLog
  <2>2. \A id \in DOMAIN run' : ~Begun(id)'
    BY <1>3, <1>4 DEF Inv, ServersInv, DaemonsAreKnown, Begun
  <2> QED BY <1>3, <2>1, <2>2 DEF DaemonsAreKnown
<1> QED BY <1>7, <1>8, <1>9, <1>10, <1>11, <1>12, <1>13 DEF Inv, ServersInv, HeldWhole, RemovedIsGone

\* What the port's stopped tasks have become by the time a new server binds.
Freed(aborted, port) ==
    [i \in DOMAIN aborted |-> IF i \in OnPort(port) /\ aborted[i].state = "stopping"
                              THEN Dead(aborted[i]) ELSE aborted[i]]

LEMMA FreedWinds ==
    ASSUME Inv, NEW port
    PROVE  WindsDown(Freed(Aborted(port), port))
<1> DEFINE aborted == Aborted(port)
           freed == Freed(aborted, port)
<1>1. WindsDown(aborted)
  BY AbortedWinds
<1> HIDE DEF aborted
<1>2. DOMAIN freed = DOMAIN run /\ freed = [i \in DOMAIN freed |-> freed[i]]
  BY <1>1 DEF Freed, WindsDown
<1>3. IsSeq(freed)
  BY <1>1, <1>2, MappedIsSeq DEF WindsDown
<1> HIDE DEF freed
<1>4. ASSUME NEW id \in DOMAIN run
      PROVE  freed[id] = run[id] \/ (freed[id].port = run[id].port /\ freed[id].state \in {"stopping", "dead"})
  <2>0. id \in DOMAIN aborted
    BY <1>1 DEF WindsDown
  <2>1. CASE freed[id] = aborted[id]
    BY <1>1, <2>1 DEF WindsDown
  <2>2. CASE freed[id] = Dead(aborted[id]) /\ aborted[id].state = "stopping"
    <3>1. aborted[id].port = run[id].port
      BY <1>1 DEF WindsDown
    <3> QED BY <2>2, <3>1, EndFacts
  <2> QED BY <2>0, <2>1, <2>2 DEF Freed, freed
<1> QED BY <1>2, <1>3, <1>4 DEF WindsDown, aborted, freed

LEMMA AddBuiltinStep ==
    ASSUME Inv, ~Standalone, UNCHANGED <<conf, files>>, NEW port, NEW cfg, AddBuiltin(port, cfg),
           LogShape(log'), SameLog, log'.removed = log.removed \ {port}
    PROVE  Inv'
<1>1. ASSUME NEW parts \in Build(cfg), NEW freed \in BOOLEAN, NEW before,
             before = IF freed THEN Freed(Aborted(port), port) ELSE Aborted(port),
             parts # {}, \A i \in DOMAIN before : before[i].port = port => before[i].state = "dead",
             Serves(before, port, cfg, parts),
             servers' = With(servers, port, [cfg |-> cfg, id |-> Len(run) + 1, flow |-> 0])
      PROVE  Inv'
  <2>1. WindsDown(before)
    BY <1>1, AbortedWinds, FreedWinds
  <2>2. parts = Parts(cfg)
    BY <1>1 DEF Build
  <2> QED BY <1>1, <2>1, <2>2, AddServer
<1>2. CASE run' = Aborted(port) /\ servers' = Without(servers, port)
  BY <1>2, DropBuiltin
<1>3. \/ run' = Aborted(port) /\ servers' = Without(servers, port)
      \/ \E parts \in Build(cfg), freed \in BOOLEAN :
            LET before == IF freed THEN Freed(Aborted(port), port) ELSE Aborted(port)
            IN  /\ parts # {}
                /\ \A i \in DOMAIN before : before[i].port = port => before[i].state = "dead"
                /\ Serves(before, port, cfg, parts)
                /\ servers' = With(servers, port, [cfg |-> cfg, id |-> Len(run) + 1, flow |-> 0])
  BY DEF AddBuiltin, Freed, Serves
<1> QED BY <1>1, <1>2, <1>3

LEMMA AddStandaloneStep ==
    ASSUME Inv, Standalone, UNCHANGED conf, NEW port, NEW cfg, NEW k, AddStandalone(port, cfg, k),
           LogShape(log'), ClearedLog(port, k), log'.removed = log.removed \ {port}
    PROVE  Inv'
<1>1. LeftFiles(port, k)
  <2> DEFINE left == Cleared(port, k)
  <2>1. files' \in {left, [left EXCEPT !.config = With(@, port, Written(cfg))], [left EXCEPT !.config = Without(@, port)]}
    BY DEF AddStandalone
  <2> QED BY <2>1, AddedFiles
<1>2. \/ /\ Begins(port, cfg, k)
         /\ servers' = With(servers, port, [cfg |-> cfg, id |-> 0, flow |-> 0])
      \/ run' = Terminated(port, k) /\ servers' = servers
  BY DEF AddStandalone, Begins
<1> QED BY <1>1, <1>2, AddDaemon, AddNothing

LEMMA HandleAddStep ==
    ASSUME Inv, NEW bytes, NEW p, HandleAdd(bytes, p)
    PROVE  Inv'
<1>0. UNCHANGED conf
  BY DEF HandleAdd
<1>1. CASE UNCHANGED <<servers, run, files>> /\ log' = [log EXCEPT !.answers = @ \cup {<<"add", "error">>}]
  BY <1>0, <1>1, LogFacts, QuietStep
<1>2. ASSUME NEW k, Standalone, AddStandalone(p.port, AddConfig(p), k),
             log' = AnsweredCleared("add", log.removed \ {p.port}, p.port, k)
      PROVE  Inv'
  BY <1>0, <1>2, AnsweredClearedFacts, AddStandaloneStep
<1>3. CASE /\ ~Standalone /\ AddBuiltin(p.port, AddConfig(p)) /\ UNCHANGED files
           /\ log' = Answered("add", log.removed \ {p.port})
  BY <1>0, <1>3, AnsweredFacts, AddBuiltinStep
<1> QED BY <1>1, <1>2, <1>3 DEF HandleAdd

LEMMA ReceiveStep ==
    ASSUME Inv, NEW bytes, Receive(bytes)
    PROVE  Inv'
<1> DEFINE request == FromBytes(bytes)
<1>1. \/ UNCHANGED <<conf, servers, run, files, log>>
      \/ HandleAdd(bytes, request.param)
      \/ HandleRemove(bytes, request.param)
      \/ HandleStat(bytes, request.param)
      \/ HandleList(bytes, request.cmd)
  <2> HIDE DEF request
  <2> QED BY DEF Receive, request
<1> QED BY <1>1, UnchangedStep, HandleAddStep, HandleRemoveStep, HandleStatStep, HandleListStep

-----------------------------------------------------------------------------
(***************************************************************************)
(* Daemons, and the end of the manager.                                    *)
(***************************************************************************)

\* One process changes and keeps its port.
LEMMA OneFacts ==
    ASSUME Inv, NEW id \in DOMAIN run, NEW r, run' = [run EXCEPT ![id] = r], r.port = run[id].port,
           Grown
    PROVE  /\ IsSeq(run') /\ Len(run') = Len(run) /\ DOMAIN run' = DOMAIN run /\ run'[id] = r
           /\ \A i \in DOMAIN run : i # id => run'[i] = run[i]
           /\ \A i \in DOMAIN run : run'[i].port = run[i].port
           /\ \A i \in DOMAIN run : LateOn(run[i].port) => LateOn(run[i].port)'
<1>1. /\ IsSeq(run') /\ Len(run') = Len(run) /\ DOMAIN run' = DOMAIN run /\ run'[id] = r
      /\ \A i \in DOMAIN run : i # id => run'[i] = run[i]
  BY SeqFacts DEF Inv, Shapes
<1>2. \A i \in DOMAIN run : run'[i].port = run[i].port
  BY <1>1
<1> QED BY <1>1, <1>2, LateStays

LEMMA DaemonReadsStep ==
    ASSUME Inv, NEW id \in DOMAIN run, DaemonReads(id)
    PROVE  Inv'
<1>1. /\ Begun(id) /\ Standalone /\ Standalone' /\ UNCHANGED <<conf, servers, files, log>>
      /\ Grown
  BY DEF DaemonReads, Begun, Standalone, Inv, ServersInv, DaemonsAreKnown, Grown
<1>2. CASE run' = [run EXCEPT ![id] = Dead(@)]
  BY <1>1, <1>2, EndStep
<1>3. ASSUME NEW r, run' = [run EXCEPT ![id] = r], r.port = run[id].port, r.state = "daemon"
      PROVE  Inv'
  <2>1. /\ IsSeq(run') /\ Len(run') = Len(run) /\ DOMAIN run' = DOMAIN run /\ run'[id] = r
        /\ \A i \in DOMAIN run : i # id => run'[i] = run[i]
        /\ \A i \in DOMAIN run : run'[i].port = run[i].port
        /\ \A i \in DOMAIN run : LateOn(run[i].port) => LateOn(run[i].port)'
    BY <1>1, <1>3, OneFacts
  <2>2. \A i \in DOMAIN run : /\ Running(i)' => Running(i) /\ run'[i] = run[i]
                              /\ Begun(i)' <=> Begun(i)
    BY <1>1, <1>3, <2>1 DEF Running, Begun
  <2>3. Shapes'
    BY <1>1, <2>1 DEF Inv, Shapes, LogShape, IsSeq, IsInstance
  <2>4. ManagerTypeOK'
    BY <1>1, <1>3, <2>1 DEF Inv, ServersInv, HeldWhole, ManagerTypeOK
  <2>5. ServersAreHeld' /\ ServersAreWhole'
    BY <1>1, <2>1, <2>2 DEF Inv, ServersInv, HeldWhole, ServersAreHeld, ServersAreWhole
  <2>6. RemovedIsGone' /\ RemovedHasNoFile'
    BY <1>1, <2>1, <2>2 DEF Inv, ServersInv, RemovedIsGone, RemovedStaysRemoved, SurvivorsWereLate, RemovedHasNoFile
  <2>7. DaemonsAreKnown' /\ OneDaemonBegins'
    BY <1>1, <2>1, <2>2 DEF Inv, ServersInv, DaemonsAreKnown, OneDaemonBegins
  <2> QED BY <2>3, <2>4, <2>5, <2>6, <2>7 DEF Inv, ServersInv, HeldWhole
<1>4. \A r : r = Configured(run[id], files.config[run[id].port]) =>
         r.port = run[id].port /\ r.state = "daemon"
  BY ProcessFacts DEF Configured
<1>5. \/ run' = [run EXCEPT ![id] = Dead(@)]
      \/ run' = [run EXCEPT ![id] = Configured(run[id], files.config[run[id].port])]
  BY DEF DaemonReads
<1> QED BY <1>2, <1>3, <1>4, <1>5

LEMMA DaemonServesStep ==
    ASSUME Inv, NEW id \in DOMAIN run, DaemonServes(id)
    PROVE  Inv'
<1> DEFINE port == run[id].port
<1>1. /\ Begun(id) /\ Standalone /\ Standalone' /\ UNCHANGED <<conf, servers>>
      /\ \/ files' = [files EXCEPT !.pid = With(@, port, id)] /\ log' = log
         \/ log' = [log EXCEPT !.unmarked = @ \cup {id}] /\ files' = files
  BY DEF DaemonServes, Begun, Standalone, Inv, ServersInv, DaemonsAreKnown
<1>2. PICK parts \in Build(run[id].cfg) :
         /\ parts # {} => OnPort(port) = {}
         /\ run' = [run EXCEPT ![id] = IF parts = {} THEN Dead(@) ELSE Served(@, parts)]
  BY DEF DaemonServes
<1>3. /\ files' = [config |-> files.config, pid |-> files'.pid] /\ files'.config = files.config
      /\ \/ port \in DOMAIN files'.pid /\ files'.pid[port] = id
         \/ id \in log'.unmarked
      /\ DOMAIN files.pid \subseteq DOMAIN files'.pid
      /\ \A x \in DOMAIN files'.pid : files'.pid[x] = id \/ (x \in DOMAIN files.pid /\ files'.pid[x] = files.pid[x])
      /\ \A x \in DOMAIN files.pid \ {port} : files'.pid[x] = files.pid[x]
  <2>1. CASE files' = [files EXCEPT !.pid = With(@, port, id)]
    <3>1. files'.pid = With(files.pid, port, id) /\ files'.config = files.config
          /\ files' = [config |-> files.config, pid |-> files'.pid]
      BY <2>1 DEF Inv, Shapes
    <3> QED BY <3>1 DEF With
  <2>2. CASE log' = [log EXCEPT !.unmarked = @ \cup {id}] /\ files' = files
    <3>1. id \in log'.unmarked
      BY <2>2 DEF Inv, Shapes, LogShape
    <3> QED BY <2>2, <3>1 DEF Inv, Shapes
  <2> QED BY <1>1, <2>1, <2>2
<1>7. /\ Grown /\ LogShape(log')
      /\ log'.removed = log.removed /\ log'.late = log.late /\ log'.stuck = log.stuck
      /\ log'.unmarked \subseteq log.unmarked \cup {id}
  <2>1. LogShape(log)
    BY DEF Inv, Shapes
  <2>2. /\ LogShape(log') /\ log'.removed = log.removed /\ log'.late = log.late /\ log'.stuck = log.stuck
        /\ log'.unmarked \in {log.unmarked, log.unmarked \cup {id}}
    BY <1>1, <2>1 DEF LogShape
  <2> QED BY <2>2 DEF Inv, ServersInv, DaemonsAreKnown, Grown
<1>4. ASSUME NEW r, run' = [run EXCEPT ![id] = r], r.port = run[id].port,
             \/ r.state = "dead"
             \/ /\ r.state = "running" /\ r.parts = Parts(r.cfg)
                /\ \A i \in DOMAIN run : run[i].port = port => ~Running(i)
      PROVE  Inv'
  <2>1. /\ IsSeq(run') /\ Len(run') = Len(run) /\ DOMAIN run' = DOMAIN run /\ run'[id] = r
        /\ \A i \in DOMAIN run : i # id => run'[i] = run[i]
        /\ \A i \in DOMAIN run : run'[i].port = run[i].port
        /\ \A i \in DOMAIN run : LateOn(run[i].port) => LateOn(run[i].port)'
    BY <1>4, <1>7, OneFacts
  <2>2. /\ \A i \in DOMAIN run : i # id => (Running(i)' <=> Running(i)) /\ (Begun(i)' <=> Begun(i))
        /\ ~Begun(id)'
    BY <1>4, <2>1 DEF Running, Begun
  <2>3. Shapes'
    BY <1>1, <1>3, <1>7, <2>1 DEF Inv, Shapes, IsSeq, IsInstance
  <2>4. ManagerTypeOK'
    BY <1>1, <1>3, <1>4, <2>1 DEF Inv, ServersInv, HeldWhole, ManagerTypeOK
  <2>5. ServersAreHeld'
    BY <1>1 DEF ServersAreHeld
  <2>6. ServersAreWhole'
    <3>1. \A i \in DOMAIN run' : Running(i)' => run'[i].parts = Parts(run'[i].cfg)
      BY <1>4, <2>1, <2>2 DEF Inv, ServersInv, HeldWhole, ServersAreWhole, Running
    <3>2. \A i \in DOMAIN run : i # id /\ run[i].port = port /\ Running(id)' => ~Running(i)'
      BY <1>4, <2>1, <2>2 DEF Running
    <3>3. \A i, j \in DOMAIN run' : Running(i)' /\ Running(j)' /\ run'[i].port = run'[j].port => i = j
      BY <2>1, <2>2, <3>2 DEF Inv, ServersInv, HeldWhole, ServersAreWhole
    <3> QED BY <3>1, <3>3 DEF ServersAreWhole
  <2>7. RemovedStaysRemoved' /\ RemovedHasNoFile'
    BY <1>1, <1>3, <1>7 DEF Inv, ServersInv, RemovedIsGone, RemovedStaysRemoved, RemovedHasNoFile
  <2>8. LateOn(port) \/ (port \notin log.removed /\
           \A other \in DOMAIN run : run[other].port = port /\ (Begun(other) \/ (Running(other) /\ other \notin log.unmarked)) => other = id)
    BY <1>1 DEF Inv, ServersInv, OneDaemonBegins
  <2>9. SurvivorsWereLate'
    <3> SUFFICES ASSUME NEW i \in DOMAIN run', Running(i)', run'[i].port \in log'.removed
                 PROVE  LateOn(run[i].port)' \/ i \in log'.unmarked
      BY DEF SurvivorsWereLate
    <3>1. CASE i = id
      BY <1>7, <2>1, <2>8, <3>1
    <3>2. CASE i # id
      BY <1>1, <1>7, <2>1, <2>2, <3>2 DEF Inv, ServersInv, RemovedIsGone, SurvivorsWereLate, Grown
    <3> QED BY <3>1, <3>2
  <2>10. DaemonsAreKnown'
    <3> SUFFICES ASSUME NEW i \in DOMAIN run', Running(i)', ~LateOn(run[i].port)', i \notin log'.unmarked
                 PROVE  run'[i].port \in DOMAIN files'.pid /\ files'.pid[run'[i].port] = i
      BY <1>1, <1>7, <2>1 DEF Inv, ServersInv, DaemonsAreKnown, Grown
    <3>1. CASE i = id
      BY <1>3, <2>1, <3>1
    <3>2. CASE i # id
      <4>1. Running(i) /\ ~LateOn(run[i].port) /\ run'[i].port = run[i].port /\ i \notin log.unmarked
        BY <1>7, <2>1, <2>2, <3>2 DEF Grown
      <4>2. run[i].port # port
        BY <2>1, <2>8, <3>2, <4>1
      <4>3. run[i].port \in DOMAIN files.pid /\ files.pid[run[i].port] = i
        BY <1>1, <2>1, <4>1 DEF Inv, ServersInv, DaemonsAreKnown
      <4> QED BY <1>3, <4>1, <4>2, <4>3
    <3> QED BY <3>1, <3>2
  <2>11. OneDaemonBegins'
    <3> SUFFICES ASSUME NEW i \in DOMAIN run', Begun(i)', ~LateOn(run[i].port)'
                 PROVE  /\ run'[i].port \notin log'.removed
                        /\ \A other \in DOMAIN run' :
                              run'[other].port = run'[i].port /\ (Begun(other)' \/ (Running(other)' /\ other \notin log'.unmarked)) => other = i
      BY DEF OneDaemonBegins
    <3>1. i # id /\ Begun(i) /\ ~LateOn(run[i].port)
      BY <2>1, <2>2
    <3>2. /\ run[i].port \notin log.removed
          /\ \A other \in DOMAIN run :
                run[other].port = run[i].port /\ (Begun(other) \/ (Running(other) /\ other \notin log.unmarked)) => other = i
      BY <1>1, <2>1, <3>1 DEF Inv, ServersInv, OneDaemonBegins
    <3>3. ~(run[i].port = port)
      BY <1>1, <2>1, <3>1, <3>2
    <3>4. ASSUME NEW other \in DOMAIN run', run'[other].port = run'[i].port,
                 Begun(other)' \/ (Running(other)' /\ other \notin log'.unmarked)
          PROVE  other = i
      <4>1. other \in DOMAIN run /\ other # id /\ run[other].port = run[i].port
        BY <2>1, <3>3, <3>4
      <4>2. Begun(other) \/ (Running(other) /\ other \notin log.unmarked)
        BY <1>7, <2>2, <3>4, <4>1 DEF Grown
      <4> QED BY <3>2, <4>1, <4>2
    <3>5. run'[i].port \notin log'.removed
      BY <1>7, <2>1, <3>2
    <3> QED BY <3>4, <3>5
  <2> QED BY <2>3, <2>4, <2>5, <2>6, <2>7, <2>9, <2>10, <2>11 DEF Inv, ServersInv, HeldWhole, RemovedIsGone
<1>5. CASE parts = {}
  BY <1>2, <1>4, <1>5, EndFacts
<1>6. CASE parts # {}
  <2>1. ASSUME NEW r, r = Served(run[id], parts)
        PROVE  r.port = run[id].port /\ r.state = "running" /\ r.parts = Parts(r.cfg)
    BY <1>2, <1>6, <2>1, ProcessFacts DEF Served, Build
  <2>2. \A i \in DOMAIN run : run[i].port = port => ~Running(i)
    BY <1>2, <1>6 DEF OnPort, Running
  <2> QED BY <1>2, <1>4, <1>6, <2>1, <2>2
<1> QED BY <1>5, <1>6

LEMMA RestartStep ==
    ASSUME Inv, Restart
    PROVE  Inv'
<1>0. LogShape(log') /\ SameLog /\ log'.removed = {}
  <2>1. LogShape(log) /\ log' = [log EXCEPT !.removed = {}, !.restarts = @ + 1]
    BY DEF Restart, Inv, Shapes
  <2> QED BY <2>1 DEF LogShape, SameLog
<1>1. /\ DOMAIN servers' = {} /\ UNCHANGED <<conf, files>> /\ (Standalone' <=> Standalone)
      /\ LogShape(log') /\ SameLog /\ log'.removed = {}
  BY <1>0 DEF Restart, Standalone
<1>2. WindsDown(run') /\ (~Standalone => \A id \in DOMAIN run : ~Running(id)')
  <2>1. CASE Standalone
    BY <2>1, WoundStays DEF Restart, WindsDown
  <2>2. CASE ~Standalone
    <3>1. run' = [id \in DOMAIN run |-> Dead(run[id])]
      BY <2>2 DEF Restart
    <3>2. DOMAIN run' = DOMAIN run /\ \A id \in DOMAIN run : run'[id] = Dead(run[id])
      BY <3>1
    <3>3. IsSeq(run')
      BY <3>1, <3>2, MappedIsSeq DEF Inv, Shapes
    <3>4. \A id \in DOMAIN run : run'[id].port = run[id].port /\ run'[id].state = "dead"
      BY <3>2, EndFacts
    <3> QED BY <3>2, <3>3, <3>4 DEF WindsDown, Running
  <2> QED BY <2>1, <2>2
<1>3. Grown
  BY <1>1, SameGrown
<1>4. Shapes'
  BY <1>1, <1>2, WoundFacts DEF Inv, Shapes, IsInstance
<1>5. ManagerTypeOK'
  BY <1>1, <1>2, WoundFacts DEF Inv, ServersInv, HeldWhole, ManagerTypeOK
<1>6. ServersAreHeld'
  BY <1>1, <1>2, WoundFacts DEF ServersAreHeld
<1>7. RemovedIsGone' /\ RemovedHasNoFile'
  BY <1>1 DEF RemovedIsGone, RemovedStaysRemoved, SurvivorsWereLate, RemovedHasNoFile
<1>8. DaemonsAreKnown'
  <2>1. ASSUME Standalone, NEW id \in DOMAIN run', Running(id)', ~LateOn(run[id].port)', id \notin log'.unmarked
        PROVE  run'[id].port \in DOMAIN files'.pid /\ files'.pid[run'[id].port] = id
    <3>1. id \in DOMAIN run /\ Running(id) /\ run'[id].port = run[id].port
      BY <1>2, <2>1, WoundFacts
    <3>2. ~LateOn(run[id].port) /\ id \notin log.unmarked
      BY <1>2, <1>3, <2>1, <3>1, LateStays, WoundFacts DEF Grown
    <3> QED BY <1>1, <2>1, <3>1, <3>2 DEF Inv, ServersInv, DaemonsAreKnown
  <2> QED BY <1>1, <1>2, <1>3, <2>1, WoundKeeps DEF DaemonsAreKnown
<1>9. OneDaemonBegins'
  BY <1>1, <1>2, <1>3, WoundKeeps DEF OneDaemonBegins
<1> QED BY <1>1, <1>2, <1>3, <1>4, <1>5, <1>6, <1>7, <1>8, <1>9, WoundKeeps DEF Inv, ServersInv, HeldWhole

-----------------------------------------------------------------------------
(***************************************************************************)
(* Theorems.                                                               *)
(***************************************************************************)

LEMMA InitInv ==
    ASSUME ManagerInit
    PROVE  Inv
<1>1. run = <<>> /\ DOMAIN run = {} /\ Len(run) = 0 /\ run \in Seq({})
  BY DEF ManagerInit
<1>2. DOMAIN servers = {} /\ files = [config |-> <<>>, pid |-> <<>>] /\ DOMAIN files.pid = {} /\ conf \in Confs
  BY DEF ManagerInit
<1>3. log = [sent |-> 0, answers |-> {}, removed |-> {}, late |-> {}, unmarked |-> {},
              stuck |-> {}, restarts |-> 0]
  BY DEF ManagerInit
<1>4. Shapes
  BY <1>1, <1>2, <1>3 DEF Shapes, LogShape, IsSeq
<1>5. HeldWhole
  BY <1>1, <1>2 DEF HeldWhole, ManagerTypeOK, ServersAreHeld, ServersAreWhole
<1>6. RemovedIsGone /\ RemovedHasNoFile
  BY <1>1, <1>3 DEF RemovedIsGone, RemovedStaysRemoved, SurvivorsWereLate, RemovedHasNoFile
<1>7. DaemonsAreKnown /\ OneDaemonBegins
  BY <1>1, <1>3 DEF DaemonsAreKnown, OneDaemonBegins
<1> QED BY <1>4, <1>5, <1>6, <1>7 DEF Inv, ServersInv

LEMMA NextInv ==
    ASSUME Inv, [ManagerNext]_managerVars
    PROVE  Inv'
<1>1. CASE \E request \in Commands : ClientSends(request)
  BY <1>1, ClientSendsStep
<1>2. ASSUME NEW bytes \in net, Receive(bytes) \/ Lose(bytes)
      PROVE  Inv'
  <2>1. CASE Receive(bytes)
    BY <2>1, ReceiveStep
  <2>2. CASE Lose(bytes)
    BY <2>2, UnchangedStep DEF Lose
  <2> QED BY <1>2, <2>1, <2>2
<1>3. ASSUME NEW id \in DOMAIN run,
             \/ PartEnds(id) \/ AbortEnds(id)
             \/ DaemonReads(id) \/ DaemonServes(id) \/ DaemonReports(id) \/ DaemonEnds(id)
      PROVE  Inv'
  <2>1. CASE PartEnds(id)
    BY <2>1, EndStep DEF PartEnds
  <2>2. CASE AbortEnds(id)
    BY <2>2, EndStep DEF AbortEnds
  <2>3. CASE DaemonReads(id)
    BY <2>3, DaemonReadsStep
  <2>4. CASE DaemonServes(id)
    BY <2>4, DaemonServesStep
  <2>5. CASE DaemonReports(id)
    BY <2>5, UnchangedStep DEF DaemonReports
  <2>6. CASE DaemonEnds(id)
    BY <2>6, EndStep DEF DaemonEnds
  <2> QED BY <1>3, <2>1, <2>2, <2>3, <2>4, <2>5, <2>6
<1>4. CASE Restart
  BY <1>4, RestartStep
<1>5. CASE UNCHANGED managerVars
  BY <1>5, UnchangedStep DEF managerVars
<1> QED BY <1>1, <1>2, <1>3, <1>4, <1>5 DEF ManagerNext

LEMMA AlwaysInv == ManagerSpec => []Inv
<1>1. ManagerInit => Inv
  BY InitInv
<1>2. Inv /\ [ManagerNext]_managerVars => Inv'
  BY NextInv
<1> QED BY <1>1, <1>2, PTL DEF ManagerSpec

\* The inductive invariant of ssmanager (add_server_standalone,
\* kill_standalone_server and the daemons' files): the daemons that run are
\* known by their pid files, but for those that failed to make one (daemonize)
\* and for ports where one was late or the files could not be cleared; at most
\* one daemon is on its way where there is none of these.
THEOREM ServersInvariant == ManagerSpec => []ServersInv
<1>1. Inv => ServersInv
  BY DEF Inv
<1> QED BY <1>1, AlwaysInv, PTL

\* Every built-in server that runs is the one listed at its port; every server
\* runs with all of its parts, alone on its port (add_server_builtin,
\* ServerBuilder::build, Drop for ServerInstance).
THEOREM ServersAreKept == ManagerSpec => []HeldWhole
<1>1. ServersInv => HeldWhole
  BY DEF ServersInv
<1> QED BY <1>1, ServersInvariant, PTL

\* What was removed is not listed again by a late report, unless its
\* configuration file could not be removed, nor is it running, unless it made
\* no pid file, its port's files could not be read and removed, or a daemon of
\* its port was late with its pid file (handle_remove, kill_standalone_server,
\* handle_stat, daemonize).
THEOREM RemovalIsFinal == ManagerSpec => []RemovedIsGone
<1>1. ServersInv => RemovedIsGone
  BY DEF ServersInv
<1> QED BY <1>1, ServersInvariant, PTL

-----------------------------------------------------------------------------
(***************************************************************************)
(* The local DNS relay.                                                    *)
(***************************************************************************)

LEMMA RemoveAtSeq ==
    ASSUME NEW s, IsSeq(s), NEW i \in DOMAIN s
    PROVE  LET q == RemoveAt(s, i) IN
           /\ IsSeq(q) /\ Len(q) = Len(s) - 1
           /\ \A k \in 1..Len(q) : q[k] = s[IF k < i THEN k ELSE k + 1]
<1> DEFINE q == RemoveAt(s, i)
           left  == SubSeq(s, 1, i - 1)
           right == SubSeq(s, i + 1, Len(s))
<1>0. PICK S : s \in Seq(S)
    BY DEF IsSeq
<1>1. Len(s) \in Nat /\ DOMAIN s = 1..Len(s) /\ i \in 1..Len(s)
    BY <1>0
<1>2. left \in Seq(S) /\ Len(left) = i - 1 /\ \A k \in 1..i - 1 : left[k] = s[k]
    BY <1>0, <1>1
<1>3. right \in Seq(S) /\ Len(right) = Len(s) - i /\ \A k \in 1..Len(s) - i : right[k] = s[k + i]
    BY <1>0, <1>1
<1>4. q = left \o right
    BY DEF RemoveAt
<1> HIDE DEF left, right, q
<1>5. /\ q \in Seq(S) /\ Len(q) = Len(left) + Len(right)
      /\ \A k \in 1..Len(left) + Len(right) : q[k] = IF k <= Len(left) THEN left[k] ELSE right[k - Len(left)]
    BY <1>2, <1>3, <1>4, ConcatProperties, Zenon
<1>6. Len(q) = Len(s) - 1
    BY <1>1, <1>2, <1>3, <1>5
<1>7. ASSUME NEW k \in 1..Len(q) PROVE q[k] = s[IF k < i THEN k ELSE k + 1]
    <2>0. q[k] = IF k <= Len(left) THEN left[k] ELSE right[k - Len(left)]
        BY <1>5
    <2>1. CASE k < i
        BY <1>1, <1>2, <2>0, <2>1
    <2>2. CASE ~(k < i)
        <3>1. k - Len(left) \in 1..Len(s) - i /\ (k - Len(left)) + i = k + 1 /\ ~(k <= Len(left))
            BY <1>1, <1>2, <1>6, <2>2
        <3> QED
            BY <1>3, <2>0, <2>2, <3>1
    <2> QED
        BY <2>1, <2>2
<1> QED
    BY <1>5, <1>6, <1>7 DEF q, IsSeq

-----------------------------------------------------------------------------
\* The reverse lookup cache: one entry for an address, no more than it holds.
IsEntry(e) == e = <<e[1], e[2]>> /\ e[2] \in BOOLEAN

IsRoutes(s) ==
    /\ IsSeq(s) /\ Len(s) <= setup.capacity
    /\ \A i \in DOMAIN s : IsEntry(s[i])
    /\ \A i, j \in DOMAIN s : s[i][1] = s[j][1] => i = j

LEMMA SeqShape == ASSUME NEW s, IsSeq(s) PROVE Len(s) \in Nat /\ DOMAIN s = 1..Len(s)
<1>1. PICK S : s \in Seq(S)
    BY DEF IsSeq
<1> QED
    BY <1>1

\* The entries of s but the i-th one; but for ip; and one more for ip, for which
\* the oldest has made room.
AllBut(s, i, q) ==
    /\ IsRoutes(q) /\ Len(q) = Len(s) - 1
    /\ \A k \in DOMAIN q : \E j \in DOMAIN s : j # i /\ q[k] = s[j] /\ Len(q) - k <= Len(s) - j
    /\ \A j \in DOMAIN s : j # i => \E k \in DOMAIN q : q[k] = s[j]

Forgotten(s, ip, q) ==
    /\ IsRoutes(q) /\ Len(q) <= Len(s)
    /\ \A k \in DOMAIN q : q[k][1] # ip /\ \E j \in DOMAIN s : q[k] = s[j] /\ Len(q) - k <= Len(s) - j
    /\ \A j \in DOMAIN s : s[j][1] # ip => \E k \in DOMAIN q : q[k] = s[j]

Inserted(s, ip, f, q) ==
    /\ IsRoutes(q) /\ Len(q) \in DOMAIN q /\ q[Len(q)] = <<ip, f>>
    /\ \A k \in DOMAIN q : \/ k = Len(q) /\ q[k] = <<ip, f>>
                           \/ \E j \in DOMAIN s : q[k] = s[j] /\ Len(q) - k <= Len(s) - j + 1
    /\ \A j \in DOMAIN s : (\E k \in DOMAIN q : q[k] = s[j]) \/ (j = 1 /\ Len(s) = setup.capacity)

LEMMA RemovedRoute ==
    ASSUME NEW s, IsRoutes(s), NEW i \in DOMAIN s, setup.capacity \in Nat
    PROVE  AllBut(s, i, RemoveAt(s, i))
<1> DEFINE q == RemoveAt(s, i)
           from(k) == IF k < i THEN k ELSE k + 1
<1>1. Len(s) \in Nat /\ DOMAIN s = 1..Len(s) /\ i \in 1..Len(s)
    BY SeqShape DEF IsRoutes
<1>2. IsSeq(q) /\ Len(q) = Len(s) - 1 /\ \A k \in 1..Len(q) : q[k] = s[from(k)]
    BY RemoveAtSeq DEF IsRoutes
<1> HIDE DEF q
<1>3. DOMAIN q = 1..Len(q)
    BY <1>2, SeqShape
<1>4. \A k \in DOMAIN q : from(k) \in DOMAIN s /\ from(k) # i /\ Len(q) - k <= Len(s) - from(k)
    BY <1>1, <1>2, <1>3
<1>5. \A k \in DOMAIN q : IsEntry(q[k])
    BY <1>2, <1>3, <1>4 DEF IsRoutes
<1>6. ASSUME NEW k \in DOMAIN q, NEW l \in DOMAIN q, q[k][1] = q[l][1] PROVE k = l
    <2>1. from(k) = from(l)
        <3> HIDE DEF from
        <3>1. from(k) \in DOMAIN s /\ from(l) \in DOMAIN s /\ q[k] = s[from(k)] /\ q[l] = s[from(l)]
            BY <1>2, <1>3, <1>4
        <3> QED
            BY <1>6, <3>1, Zenon DEF IsRoutes
    <2> QED
        BY <1>1, <1>2, <1>3, <2>1
<1>7. IsRoutes(q)
    <2>1. Len(q) <= setup.capacity
        BY <1>1, <1>2 DEF IsRoutes
    <2> QED
        BY <1>2, <1>5, <1>6, <2>1 DEF IsRoutes
<1>8. \A k \in DOMAIN q : \E j \in DOMAIN s : j # i /\ q[k] = s[j] /\ Len(q) - k <= Len(s) - j
    BY <1>2, <1>3, <1>4
<1>9. ASSUME NEW j \in DOMAIN s, j # i PROVE \E k \in DOMAIN q : q[k] = s[j]
    <2>1. CASE j < i
        <3>1. j \in DOMAIN q /\ from(j) = j
            BY <1>1, <1>2, <1>3, <2>1
        <3> QED
            BY <1>2, <1>3, <3>1
    <2>2. CASE ~(j < i)
        <3>0. j \in 1..Len(s) /\ i < j
            BY <1>1, <1>9, <2>2
        <3>1. j - 1 \in DOMAIN q /\ from(j - 1) = j
            BY <1>1, <1>2, <1>3, <3>0
        <3> QED
            BY <1>2, <1>3, <3>1
    <2> QED
        BY <2>1, <2>2
<1> QED
    BY <1>2, <1>7, <1>8, <1>9, Zenon DEF q, AllBut

LEMMA Forgets ==
    ASSUME NEW s, IsRoutes(s), NEW ip, setup.capacity \in Nat
    PROVE  Forgotten(s, ip, Forget(s, ip))
<1> DEFINE o == Forget(s, ip)
<1>0. Len(s) \in Nat /\ DOMAIN s = 1..Len(s)
    BY SeqShape DEF IsRoutes
<1>1. CASE \E i \in DOMAIN s : s[i][1] = ip
    <2>1. PICK i \in DOMAIN s : s[i][1] = ip /\ o = RemoveAt(s, i)
        BY <1>1, Zenon DEF Forget
    <2> HIDE DEF o
    <2>2. \A j \in DOMAIN s : j # i => s[j][1] # ip
        BY <2>1, Zenon DEF IsRoutes
    <2>3. /\ IsRoutes(o) /\ Len(o) = Len(s) - 1
          /\ \A k \in DOMAIN o : \E j \in DOMAIN s : j # i /\ o[k] = s[j] /\ Len(o) - k <= Len(s) - j
          /\ \A j \in DOMAIN s : j # i => \E k \in DOMAIN o : o[k] = s[j]
        <3>1. AllBut(s, i, o)
            BY <2>1, RemovedRoute
        <3> QED
            BY <3>1, Zenon DEF AllBut
    <2>4. Len(o) <= Len(s)
        BY <1>0, <2>3
    <2>5. ASSUME NEW k \in DOMAIN o
          PROVE  o[k][1] # ip /\ \E j \in DOMAIN s : o[k] = s[j] /\ Len(o) - k <= Len(s) - j
        <3>1. PICK j \in DOMAIN s : j # i /\ o[k] = s[j] /\ Len(o) - k <= Len(s) - j
            BY <2>3, Zenon
        <3> QED
            BY <2>2, <3>1, Zenon
    <2>6. \A j \in DOMAIN s : s[j][1] # ip => \E k \in DOMAIN o : o[k] = s[j]
        BY <2>1, <2>3, Zenon
    <2> QED
        BY <2>3, <2>4, <2>5, <2>6, Zenon DEF o, Forgotten
<1>2. CASE ~\E i \in DOMAIN s : s[i][1] = ip
    <2>1. o = s
        BY <1>2, Zenon DEF Forget
    <2>2. \A k \in DOMAIN s : Len(s) - k <= Len(s) - k
        BY <1>0
    <2> QED
        BY <1>0, <1>2, <2>1, <2>2 DEF Forgotten
<1> QED
    BY <1>1, <1>2

LEMMA Inserts ==
    ASSUME NEW s, IsRoutes(s), NEW ip, NEW f \in BOOLEAN, setup.capacity \in Nat \ {0}, \A k \in DOMAIN s : s[k][1] # ip
    PROVE  Inserted(s, ip, f, Insert(s, ip, f))
<1> DEFINE q == Insert(s, ip, f)
           e == <<ip, f>>
           d == IF Len(s) = setup.capacity THEN 1 ELSE 0
           t == IF Len(s) = setup.capacity THEN Tail(s) ELSE s
<1>1. PICK S : s \in Seq(S)
    BY DEF IsRoutes, IsSeq
<1>2. Len(s) \in Nat /\ DOMAIN s = 1..Len(s) /\ Len(s) <= setup.capacity
    BY SeqShape DEF IsRoutes
<1>3. t \in Seq(S) /\ Len(t) = Len(s) - d /\ \A k \in 1..Len(t) : t[k] = s[k + d]
    <2>1. CASE Len(s) = setup.capacity
        <3>1. s # <<>>
            BY <1>2, <2>1
        <3> QED
            BY <1>1, <1>2, <2>1, <3>1
    <2>2. CASE Len(s) # setup.capacity
        BY <1>1, <1>2, <2>2
    <2> QED
        BY <2>1, <2>2
<1>4. q = Append(t, e)
    BY Zenon DEF Insert
<1> HIDE DEF t, q
<1>5. t \in Seq(S \cup {e}) /\ e \in S \cup {e}
    BY <1>3
<1>6. /\ q \in Seq(S \cup {e}) /\ Len(q) = Len(t) + 1 /\ DOMAIN q = 1..Len(q)
      /\ q[Len(q)] = e /\ \A k \in 1..Len(t) : q[k] = t[k]
    <2> HIDE DEF e
    <2> QED
        BY <1>4, <1>5
<1>7. d \in {0, 1} /\ (d = 1) = (Len(s) = setup.capacity)
    OBVIOUS
<1> HIDE DEF d, e
<1>8. \A k \in 1..Len(t) : k + d \in DOMAIN s /\ q[k] = s[k + d] /\ Len(q) - k = Len(s) - (k + d) + 1
    BY <1>2, <1>3, <1>6, <1>7
<1>9. \A k \in DOMAIN q : k = Len(q) \/ k \in 1..Len(t)
    BY <1>2, <1>3, <1>6, <1>7
<1>10. IsEntry(e) /\ e[1] = ip
    BY DEF e, IsEntry
<1>11. \A k \in DOMAIN q : IsEntry(q[k])
    BY <1>6, <1>8, <1>9, <1>10, Zenon DEF IsRoutes
<1>12. ASSUME NEW k \in DOMAIN q, NEW l \in DOMAIN q, q[k][1] = q[l][1] PROVE k = l
    <2>1. CASE k \in 1..Len(t) /\ l \in 1..Len(t)
        <3>1. k + d = l + d
            BY <1>8, <1>12, <2>1 DEF IsRoutes
        <3> QED
            BY <1>6, <1>7, <3>1
    <2>2. CASE k = Len(q) /\ l = Len(q)
        BY <2>2
    <2>3. CASE k \in 1..Len(t) /\ l = Len(q)
        BY <1>6, <1>8, <1>10, <1>12, <2>3, Zenon
    <2>4. CASE k = Len(q) /\ l \in 1..Len(t)
        BY <1>6, <1>8, <1>10, <1>12, <2>4, Zenon
    <2> QED
        BY <1>9, <2>1, <2>2, <2>3, <2>4
<1>13. IsRoutes(q)
    <2>1. Len(q) <= setup.capacity
        BY <1>2, <1>3, <1>6, <1>7
    <2> QED
        BY <1>6, <1>11, <1>12, <2>1 DEF IsRoutes, IsSeq
<1>14. Len(q) \in DOMAIN q
    BY <1>2, <1>3, <1>6, <1>7
<1>15. ASSUME NEW k \in DOMAIN q
       PROVE \/ k = Len(q) /\ q[k] = e
             \/ \E j \in DOMAIN s : q[k] = s[j] /\ Len(q) - k <= Len(s) - j + 1
    <2>1. CASE k = Len(q)
        BY <1>6, <2>1
    <2>2. CASE k \in 1..Len(t)
        <3>1. k + d \in DOMAIN s /\ q[k] = s[k + d]
            BY <1>8, <2>2
        <3>2. Len(q) - k <= Len(s) - (k + d) + 1
            BY <1>2, <1>3, <1>6, <1>7, <1>8, <2>2
        <3> QED
            BY <3>1, <3>2
    <2> QED
        BY <1>9, <2>1, <2>2
<1>16. ASSUME NEW j \in DOMAIN s PROVE (\E k \in DOMAIN q : q[k] = s[j]) \/ (j = 1 /\ Len(s) = setup.capacity)
    <2>1. CASE d = 1 /\ j = 1
        BY <1>7, <2>1
    <2>2. CASE ~(d = 1 /\ j = 1)
        <3>1. j - d \in 1..Len(t) /\ (j - d) + d = j /\ j - d \in DOMAIN q
            BY <1>2, <1>3, <1>6, <1>7, <2>2
        <3> QED
            BY <1>8, <3>1
    <2> QED
        BY <2>1, <2>2
<1> QED
    BY <1>6, <1>13, <1>14, <1>15, <1>16, Zenon DEF q, e, Inserted

\* What an answer puts into the cache after k of its records.
IpsUpTo(answers, k) == {answers[i].ip : i \in {n \in 1..k : IsAddress(answers[n])}}

StepOf(answers, forward, s, n) ==
    IF IsAddress(answers[n]) THEN RememberRoute(s, answers[n].ip, forward) ELSE s

Partway(answers, forward, k, s) ==
    LET ips == IpsUpTo(answers, k) IN
    /\ IsRoutes(s)
    /\ \A i \in DOMAIN s : s[i][1] \in ips => s[i][2] = forward /\ forward # ListForwards(s[i][1]) /\ Len(s) - i < k
    /\ \A i \in DOMAIN s : s[i][1] \notin ips => \E j \in DOMAIN rev : rev[j] = s[i]
    /\ \A ip \in ips : forward # ListForwards(ip) => \E i \in DOMAIN s : s[i][1] = ip

LEMMA IpsGrow ==
    ASSUME NEW answers, NEW k \in Nat
    PROVE  IpsUpTo(answers, k + 1) =
              IpsUpTo(answers, k) \cup (IF IsAddress(answers[k + 1]) THEN {answers[k + 1].ip} ELSE {})
<1>1. 1..k + 1 = 1..k \cup {k + 1}
    OBVIOUS
<1> QED
    BY <1>1, Zenon DEF IpsUpTo

LEMMA PartwayStep ==
    ASSUME NEW answers, NEW forward \in BOOLEAN, NEW k \in Nat, NEW s, Partway(answers, forward, k, s),
           setup.capacity \in Nat \ {0}, k < setup.capacity
    PROVE  Partway(answers, forward, k + 1, StepOf(answers, forward, s, k + 1))
<1> DEFINE ip == answers[k + 1].ip
           new == StepOf(answers, forward, s, k + 1)
           was == IpsUpTo(answers, k)
           ips == IpsUpTo(answers, k + 1)
           o == Forget(s, ip)
<1>0. IsRoutes(s) /\ Len(s) \in Nat /\ DOMAIN s = 1..Len(s) /\ setup.capacity \in Nat
    BY SeqShape DEF Partway, IsRoutes
<1>1. CASE ~IsAddress(answers[k + 1])
    <2>1. new = s /\ ips = was
        <3>1. new = s
            BY <1>1, Zenon DEF StepOf
        <3>2. ips = was \cup {}
            BY <1>1, IpsGrow, Zenon
        <3> QED
            BY <3>1, <3>2
    <2>2. \A i \in DOMAIN s : Len(s) - i < k => Len(s) - i < k + 1
        BY <1>0
    <2> QED
        BY <2>1, <2>2 DEF Partway
<1>2. CASE IsAddress(answers[k + 1])
    <2>1. ips = was \cup {ip}
        BY <1>2, IpsGrow
    <2>2. /\ IsRoutes(o) /\ Len(o) <= Len(s)
          /\ \A i \in DOMAIN o : o[i][1] # ip /\ \E j \in DOMAIN s : o[i] = s[j] /\ Len(o) - i <= Len(s) - j
          /\ \A j \in DOMAIN s : s[j][1] # ip => \E i \in DOMAIN o : o[i] = s[j]
        <3>1. Forgotten(s, ip, o)
            BY <1>0, Forgets
        <3> QED
            BY <3>1, Zenon DEF Forgotten
    <2>3. Len(o) \in Nat /\ DOMAIN o = 1..Len(o)
        BY <2>2, SeqShape DEF IsRoutes
    <2>4. ASSUME NEW i \in DOMAIN o
          PROVE  /\ o[i][1] \in was => o[i][2] = forward /\ forward # ListForwards(o[i][1]) /\ Len(o) - i < k
                 /\ o[i][1] \notin was => \E j \in DOMAIN rev : rev[j] = o[i]
        <3>1. PICK j \in DOMAIN s : o[i] = s[j] /\ Len(o) - i <= Len(s) - j
            BY <2>2, Zenon
        <3>2. s[j][1] \in was => s[j][2] = forward /\ forward # ListForwards(s[j][1]) /\ Len(s) - j < k
            BY Zenon DEF Partway
        <3>3. s[j][1] \notin was => \E l \in DOMAIN rev : rev[l] = s[j]
            BY Zenon DEF Partway
        <3>4. Len(s) - j < k => Len(o) - i < k
            BY <1>0, <2>3, <3>1
        <3> QED
            BY <3>1, <3>2, <3>3, <3>4
    <2>5. \A a \in was : a # ip /\ forward # ListForwards(a) => \E i \in DOMAIN o : o[i][1] = a
        <3> SUFFICES ASSUME NEW a \in was, a # ip, forward # ListForwards(a) PROVE \E i \in DOMAIN o : o[i][1] = a
            BY Zenon
        <3>1. PICK j \in DOMAIN s : s[j][1] = a
            BY Zenon DEF Partway
        <3> QED
            BY <2>2, <3>1, Zenon
    <2> HIDE DEF o, new, was, ips, ip
    <2>6. CASE forward = ListForwards(ip)
        <3>1. new = o
            BY <1>2, <2>6 DEF new, o, ip, StepOf, RememberRoute
        <3>2. \A i \in DOMAIN o : o[i][1] \in ips => o[i][1] \in was
            BY <2>1, <2>2, Zenon
        <3>3. \A i \in DOMAIN o : Len(o) - i < k => Len(o) - i < k + 1
            BY <2>3
        <3>4. \A i \in DOMAIN o : o[i][1] \in ips => o[i][2] = forward /\ forward # ListForwards(o[i][1]) /\ Len(o) - i < k + 1
            BY <2>4, <3>2, <3>3, Zenon
        <3>5. \A i \in DOMAIN o : o[i][1] \notin ips => \E j \in DOMAIN rev : rev[j] = o[i]
            BY <2>1, <2>4, Zenon
        <3>6. \A a \in ips : forward # ListForwards(a) => \E i \in DOMAIN o : o[i][1] = a
            BY <2>1, <2>5, <2>6, Zenon
        <3> QED
            BY <2>2, <3>1, <3>4, <3>5, <3>6, Zenon DEF Partway, new, ips
    <2>7. CASE forward # ListForwards(ip)
        <3>1. new = Insert(o, ip, forward)
            BY <1>2, <2>7, Zenon DEF new, o, ip, StepOf, RememberRoute
        <3>2. /\ IsRoutes(new) /\ Len(new) \in DOMAIN new /\ new[Len(new)] = <<ip, forward>>
              /\ \A i \in DOMAIN new : \/ i = Len(new) /\ new[i] = <<ip, forward>>
                                      \/ \E j \in DOMAIN o : new[i] = o[j] /\ Len(new) - i <= Len(o) - j + 1
              /\ \A j \in DOMAIN o : (\E i \in DOMAIN new : new[i] = o[j]) \/ (j = 1 /\ Len(o) = setup.capacity)
            <4>1. \A i \in DOMAIN o : o[i][1] # ip
                BY <2>2, Zenon
            <4>2. Inserted(o, ip, forward, new)
                BY <2>2, <3>1, <4>1, Inserts
            <4> QED
                BY <4>2, Zenon DEF Inserted
        <3>3. Len(new) \in Nat /\ DOMAIN new = 1..Len(new)
            BY <3>2, SeqShape DEF IsRoutes
        <3>4. ASSUME NEW i \in DOMAIN new
              PROVE  /\ new[i][1] \in ips => new[i][2] = forward /\ forward # ListForwards(new[i][1]) /\ Len(new) - i < k + 1
                     /\ new[i][1] \notin ips => \E j \in DOMAIN rev : rev[j] = new[i]
            <4>1. CASE i = Len(new) /\ new[i] = <<ip, forward>>
                <5>1. new[i][1] = ip /\ new[i][2] = forward
                    BY <4>1
                <5>2. Len(new) - i < k + 1
                    BY <3>3, <4>1
                <5> QED
                    BY <2>1, <2>7, <5>1, <5>2
            <4>2. ASSUME NEW j \in DOMAIN o, new[i] = o[j], Len(new) - i <= Len(o) - j + 1
                  PROVE  /\ new[i][1] \in ips => new[i][2] = forward /\ forward # ListForwards(new[i][1]) /\ Len(new) - i < k + 1
                         /\ new[i][1] \notin ips => \E l \in DOMAIN rev : rev[l] = new[i]
                <5>1. o[j][1] \in ips => o[j][1] \in was
                    BY <2>1, <2>2, Zenon
                <5>2. Len(o) - j < k => Len(new) - i < k + 1
                    BY <2>3, <3>3, <4>2
                <5> QED
                    BY <2>1, <2>4, <4>2, <5>1, <5>2, Zenon
            <4> QED
                BY <3>2, <4>1, <4>2, Zenon
        <3>5. ASSUME NEW a \in ips, forward # ListForwards(a) PROVE \E i \in DOMAIN new : new[i][1] = a
            <4>1. CASE a = ip
                BY <3>2, <4>1
            <4>2. CASE a # ip
                <5>1. PICK j \in DOMAIN o : o[j][1] = a
                    BY <2>1, <2>5, <3>5, <4>2, Zenon
                <5>2. Len(o) - j < k
                    BY <2>1, <2>4, <4>2, <5>1, Zenon
                <5>3. ~(j = 1 /\ Len(o) = setup.capacity)
                    BY <2>3, <5>2
                <5> QED
                    BY <3>2, <5>1, <5>3, Zenon
            <4> QED
                BY <4>1, <4>2
        <3> QED
            BY <3>2, <3>4, <3>5, Zenon DEF Partway, new, ips
    <2> QED
        BY <2>6, <2>7
<1> QED
    BY <1>1, <1>2

LEMMA LeastNatural ==
    ASSUME NEW T, T \subseteq Nat, T # {}
    PROVE  \E x \in T : \A y \in T : ~ (y < x)
<1> DEFINE R == OpToRel(<, Nat)
<1>1. IsWellFoundedOn(R, Nat)
    BY NatLessThanWellFounded
<1>2. \A x, y \in Nat : y < x => <<y, x>> \in R
    BY DEF OpToRel
<1> HIDE DEF R
<1>3. \E x \in T : \A y \in T : ~ (<<y, x>> \in R)
    BY <1>1, WFMin
<1> QED
    BY <1>2, <1>3

\* Induction, for a set of numbers in place of a predicate.
LEMMA Inductive ==
    ASSUME NEW T \in SUBSET Nat, 0 \in T, \A n \in T : n + 1 \in T
    PROVE  T = Nat
<1> SUFFICES ASSUME T # Nat PROVE FALSE
    OBVIOUS
<1>1. PICK x \in Nat \ T : \A y \in Nat \ T : ~(y < x)
    BY LeastNatural, Nat \ T # {}
<1>2. x # 0 /\ x - 1 \in Nat /\ x - 1 < x
    BY <1>1
<1>3. x - 1 \in T
    BY <1>1, <1>2
<1> QED
    BY <1>1, <1>2, <1>3

\* The recursion of RememberAll, step by step.
LEMMA Unfolds ==
    ASSUME NEW answers, IsSeq(answers), NEW forward
    PROVE  \E g : /\ g[0] = rev
                  /\ \A n \in 1..Len(answers) : g[n] = StepOf(answers, forward, g[n - 1], n)
                  /\ RememberAll(answers, forward) = g[Len(answers)]
<1> DEFINE Body(g, m) == [n \in 0..m |-> IF n = 0 THEN rev ELSE StepOf(answers, forward, g[n - 1], n)]
           T == {m \in Nat : \E g : g = Body(g, m)}
<1>0. Len(answers) \in Nat
    BY SeqShape
<1>1. 0 \in T
    <2> DEFINE g == [n \in 0..0 |-> rev]
    <2>1. g = Body(g, 0)
        OBVIOUS
    <2> HIDE DEF g, Body
    <2> QED
        BY <2>1
<1>2. ASSUME NEW m \in T PROVE m + 1 \in T
    <2>1. PICK g : g = Body(g, m)
        OBVIOUS
    <2>0. m \in Nat
        OBVIOUS
    <2> DEFINE h == [n \in 0..m + 1 |-> IF n = m + 1 THEN StepOf(answers, forward, g[m], m + 1) ELSE g[n]]
               b == Body(h, m + 1)
    <2>2. ASSUME NEW n \in 0..m + 1 PROVE h[n] = b[n]
        <3>1. CASE n = m + 1
            <4>1. n # 0 /\ n - 1 = m /\ m \in 0..m + 1 /\ m # m + 1
                BY <2>0, <3>1
            <4>2. h[n] = StepOf(answers, forward, g[m], n) /\ h[m] = g[m]
                BY <3>1, <4>1
            <4>3. b[n] = StepOf(answers, forward, h[m], n)
                BY <4>1
            <4> QED
                BY <4>2, <4>3, Zenon
        <3>2. CASE n = 0
            <4>1. 0 # m + 1 /\ 0 \in 0..m /\ n \in 0..m + 1
                BY <2>0, <3>2
            <4>2. g[0] = rev
                <5>1. Body(g, m)[0] = rev
                    BY <4>1
                <5> QED
                    BY <2>1, <5>1, Zenon
            <4> QED
                BY <3>2, <4>1, <4>2
        <3>3. CASE n # 0 /\ n # m + 1
            <4>1. n \in 0..m /\ n - 1 \in 0..m + 1 /\ n - 1 # m + 1
                BY <2>0, <3>3
            <4>2. h[n] = g[n] /\ h[n - 1] = g[n - 1]
                BY <3>3, <4>1
            <4>3. g[n] = StepOf(answers, forward, g[n - 1], n)
                <5>1. Body(g, m)[n] = StepOf(answers, forward, g[n - 1], n)
                    BY <3>3, <4>1
                <5> QED
                    BY <2>1, <5>1, Zenon
            <4>4. b[n] = StepOf(answers, forward, h[n - 1], n)
                BY <3>3
            <4> QED
                BY <4>2, <4>3, <4>4, Zenon
        <3> QED
            BY <3>1, <3>2, <3>3
    <2>3. h = b
        <3>1. h = [n \in 0..m + 1 |-> h[n]]
            OBVIOUS
        <3>2. b = [n \in 0..m + 1 |-> b[n]]
            OBVIOUS
        <3> HIDE DEF h, b
        <3> QED
            BY <2>2, <3>1, <3>2
    <2> HIDE DEF h, Body
    <2> QED
        BY <2>0, <2>3 DEF b
<1> HIDE DEF T
<1>3. T = Nat
    <2>1. T \in SUBSET Nat
        BY DEF T
    <2> QED
        BY <1>1, <1>2, <2>1, Inductive
<1>4. \E g : g = Body(g, Len(answers))
    BY <1>0, <1>3 DEF T
<1> DEFINE after == CHOOSE g : g = Body(g, Len(answers))
<1>5. after = Body(after, Len(answers))
    <2> HIDE DEF Body
    <2> QED
        BY <1>4, Zenon
<1>6. RememberAll(answers, forward) = after[Len(answers)]
    BY Zenon DEF RememberAll, StepOf
<1> HIDE DEF after
<1>7. after[0] = rev
    <2>1. Body(after, Len(answers))[0] = rev
        BY <1>0
    <2> QED
        BY <1>5, <2>1, Zenon
<1>8. ASSUME NEW n \in 1..Len(answers) PROVE after[n] = StepOf(answers, forward, after[n - 1], n)
    <2>1. Body(after, Len(answers))[n] = StepOf(answers, forward, after[n - 1], n)
        BY <1>0
    <2> QED
        BY <1>5, <2>1, Zenon
<1> QED
    BY <1>6, <1>7, <1>8, Zenon

LEMMA RoutesStep ==
    ASSUME NEW answers, NEW forward \in BOOLEAN, NEW k, NEW s, IsRoutes(s), setup.capacity \in Nat \ {0}
    PROVE  IsRoutes(StepOf(answers, forward, s, k))
<1>1. setup.capacity \in Nat
    OBVIOUS
<1>2. CASE IsAddress(answers[k])
    <2> DEFINE ip == answers[k].ip
               o == Forget(s, ip)
    <2>1. Forgotten(s, ip, o)
        BY <1>1, Forgets
    <2>2. IsRoutes(o) /\ \A i \in DOMAIN o : o[i][1] # ip
        BY <2>1, Zenon DEF Forgotten
    <2>3. Inserted(o, ip, forward, Insert(o, ip, forward))
        <3> HIDE DEF o, ip
        <3> QED
            BY <2>2, Inserts
    <2>4. IsRoutes(Insert(o, ip, forward))
        BY <2>3, Zenon DEF Inserted
    <2> QED
        BY <1>2, <2>2, <2>4, Zenon DEF StepOf, RememberRoute
<1>3. CASE ~IsAddress(answers[k])
    BY <1>3, Zenon DEF StepOf
<1> QED
    BY <1>2, <1>3

LEMMA RememberAllFacts ==
    ASSUME NEW answers, IsSeq(answers), NEW forward \in BOOLEAN, IsRoutes(rev), setup.capacity \in Nat \ {0}
    PROVE  /\ IsRoutes(RememberAll(answers, forward))
           /\ Len(answers) <= setup.capacity =>
                 Partway(answers, forward, Len(answers), RememberAll(answers, forward))
<1>1. PICK g : /\ g[0] = rev
               /\ \A n \in 1..Len(answers) : g[n] = StepOf(answers, forward, g[n - 1], n)
               /\ RememberAll(answers, forward) = g[Len(answers)]
    BY Unfolds
<1>2. Len(answers) \in Nat /\ setup.capacity \in Nat
    BY SeqShape
<1> DEFINE Good(k) == k <= Len(answers) =>
                         IsRoutes(g[k]) /\ (Len(answers) <= setup.capacity => Partway(answers, forward, k, g[k]))
           T == {k \in Nat : Good(k)}
<1>3. Good(0)
    <2>1. IpsUpTo(answers, 0) = {}
        BY DEF IpsUpTo
    <2>2. Partway(answers, forward, 0, rev)
        BY <2>1, Zenon DEF Partway
    <2> QED
        BY <1>1, <2>2
<1>4. ASSUME NEW k \in Nat, Good(k) PROVE Good(k + 1)
    <2> SUFFICES ASSUME k + 1 <= Len(answers)
                 PROVE  IsRoutes(g[k + 1]) /\ (Len(answers) <= setup.capacity => Partway(answers, forward, k + 1, g[k + 1]))
        OBVIOUS
    <2>1. k <= Len(answers) /\ k + 1 \in 1..Len(answers) /\ (k + 1) - 1 = k
        BY <1>2
    <2>2. g[k + 1] = StepOf(answers, forward, g[k], k + 1)
        BY <1>1, <2>1
    <2>3. IsRoutes(g[k + 1])
        BY <1>4, <2>1, <2>2, RoutesStep
    <2>4. ASSUME Len(answers) <= setup.capacity PROVE Partway(answers, forward, k + 1, g[k + 1])
        <3>1. k < setup.capacity
            BY <1>2, <2>1, <2>4
        <3>2. Partway(answers, forward, k, g[k])
            BY <1>4, <2>1, <2>4
        <3> QED
            BY <2>2, <3>1, <3>2, PartwayStep
    <2> QED
        BY <2>3, <2>4
<1> HIDE DEF Good
<1>5. T = Nat
    <2>1. T \in SUBSET Nat /\ 0 \in T /\ \A k \in T : k + 1 \in T
        BY <1>3, <1>4
    <2> QED
        BY <2>1, Inductive
<1>6. Good(Len(answers))
    BY <1>2, <1>5
<1> QED
    BY <1>1, <1>2, <1>6 DEF Good

\* What is in the cache is how its address was last resolved, and the list
\* decides alike for what is not, unless the cache has let it go.
RouteInv ==
    setup.acl => \A ip \in DOMAIN out.routes \ out.forgotten :
        /\ out.routes[ip] \in BOOLEAN
        /\ \A i \in DOMAIN rev : rev[i][1] = ip => rev[i][2] = out.routes[ip]
        /\ ip \notin RevIps(rev) => ListForwards(ip) = out.routes[ip]

OutShape == out = [sent |-> out.sent, closed |-> out.closed, losses |-> out.losses, routes |-> out.routes,
                   forgotten |-> out.forgotten]

LEMMA RoutesAreFollowed ==
    RouteInv => RouteFollowsTheLookup
<1> SUFFICES ASSUME RouteInv, setup.acl, NEW ip \in DOMAIN out.routes \ out.forgotten
             PROVE  CheckTargetBypassed(ip) = ~out.routes[ip]
    BY DEF RouteFollowsTheLookup
<1> DEFINE known == {i \in DOMAIN rev : rev[i][1] = ip}
<1>1. /\ out.routes[ip] \in BOOLEAN
      /\ \A i \in known : rev[i][2] = out.routes[ip]
      /\ known = {} => ListForwards(ip) = out.routes[ip]
    BY Zenon DEF RouteInv, RevIps
<1>2. CheckTargetBypassed(ip) = IF known # {} THEN \A i \in known : ~rev[i][2] ELSE ~CheckIpInProxyList(acl, ip)
    BY DEF CheckTargetBypassed
<1> HIDE DEF known
<1>3. CASE known = {}
    <2>1. ListForwards(ip) = CheckIpInProxyList(acl, ip)
        <3>1. CheckIpInProxyList(acl, ip) \in BOOLEAN
            BY Zenon DEF CheckIpInProxyList, CheckIpMatched
        <3> QED
            BY <3>1, Zenon DEF ListForwards
    <2> QED
        BY <1>1, <1>2, <1>3, <2>1
<1>4. CASE known # {}
    <2>1. (\A i \in known : ~rev[i][2]) = ~out.routes[ip]
        BY <1>1, <1>4
    <2> QED
        BY <1>2, <1>4, <2>1
<1> QED
    BY <1>3, <1>4

LEMMA RoutesRemembered ==
    ASSUME RouteInv, IsRoutes(rev), NEW answers, IsSeq(answers), NEW forward \in BOOLEAN,
           setup.capacity \in Nat \ {0}, Len(answers) <= setup.capacity, setup' = setup, acl' = acl,
           rev' = RememberAll(answers, forward),
           out'.routes = [ip \in DOMAIN out.routes \cup Addresses(answers) |->
                             IF ip \in Addresses(answers) THEN forward ELSE out.routes[ip]],
           out'.forgotten = (out.forgotten \cup (RevIps(rev) \ RevIps(rev'))) \ Addresses(answers)
    PROVE  RouteInv'
<1> DEFINE ips == Addresses(answers)
<1>1. IpsUpTo(answers, Len(answers)) = ips
    BY SeqShape DEF IpsUpTo, Addresses
<1>2. Partway(answers, forward, Len(answers), rev')
    BY RememberAllFacts
<1>3. \A i \in DOMAIN rev' : rev'[i][1] \in ips => rev'[i][2] = forward
    BY <1>1, <1>2, Zenon DEF Partway
<1>4. \A i \in DOMAIN rev' : rev'[i][1] \notin ips => \E j \in DOMAIN rev : rev[j] = rev'[i]
    BY <1>1, <1>2, Zenon DEF Partway
<1>5. ASSUME NEW ip \in ips, forward # ListForwards(ip) PROVE ip \in RevIps(rev')
    <2>1. PICK i \in DOMAIN rev' : rev'[i][1] = ip
        BY <1>1, <1>2, <1>5, Zenon DEF Partway
    <2> QED
        BY <2>1 DEF RevIps
<1> HIDE DEF ips
<1> SUFFICES ASSUME setup.acl, NEW ip \in DOMAIN out'.routes, ip \notin out'.forgotten
             PROVE  /\ out'.routes[ip] \in BOOLEAN
                    /\ \A i \in DOMAIN rev' : rev'[i][1] = ip => rev'[i][2] = out'.routes[ip]
                    /\ ip \notin RevIps(rev') => ListForwards(ip) = out'.routes[ip]
    BY DEF RouteInv, ListForwards, RevIps
<1>6. CASE ip \in ips
    <2>1. out'.routes[ip] = forward
        BY <1>6 DEF ips
    <2> QED
        BY <1>3, <1>5, <1>6, <2>1
<1>7. CASE ip \notin ips
    <2>1. out'.routes[ip] = out.routes[ip] /\ ip \in DOMAIN out.routes
        BY <1>7 DEF ips
    <2>2. ip \notin out.forgotten /\ ~(ip \in RevIps(rev) /\ ip \notin RevIps(rev'))
        BY <1>7 DEF ips
    <2>3. /\ out.routes[ip] \in BOOLEAN
          /\ \A i \in DOMAIN rev : rev[i][1] = ip => rev[i][2] = out.routes[ip]
          /\ ip \notin RevIps(rev) => ListForwards(ip) = out.routes[ip]
        BY <2>1, <2>2 DEF RouteInv
    <2>4. ASSUME NEW i \in DOMAIN rev', rev'[i][1] = ip PROVE rev'[i][2] = out.routes[ip]
        <3>1. PICK j \in DOMAIN rev : rev[j] = rev'[i]
            BY <1>4, <1>7, <2>4, Zenon
        <3> QED
            BY <2>3, <2>4, <3>1
    <2> QED
        BY <2>1, <2>2, <2>3, <2>4
<1> QED
    BY <1>6, <1>7

LEMMA RouteIsUsed ==
    ASSUME RouteUsed, IsRoutes(rev), setup.capacity \in Nat \ {0}
    PROVE  IsRoutes(rev)' /\ (RouteInv => RouteInv')
<1>1. PICK i \in DOMAIN rev : rev' = Append(RemoveAt(rev, i), rev[i])
    BY DEF RouteUsed
<1>2. UNCHANGED <<setup, acl, out>>
    BY DEF RouteUsed
<1> DEFINE q == RemoveAt(rev, i)
           e == rev[i]
<1>3. AllBut(rev, i, q)
    BY RemovedRoute
<1>4. /\ IsRoutes(q) /\ Len(q) = Len(rev) - 1
      /\ \A k \in DOMAIN q : \E j \in DOMAIN rev : j # i /\ q[k] = rev[j]
      /\ \A j \in DOMAIN rev : j # i => \E k \in DOMAIN q : q[k] = rev[j]
    BY <1>3 DEF AllBut
<1>5. Len(rev) \in Nat /\ Len(q) \in Nat /\ DOMAIN q = 1..Len(q) /\ Len(rev) <= setup.capacity
    BY <1>4, SeqShape DEF IsRoutes
<1>6. e = <<e[1], e[2]>> /\ e[2] \in BOOLEAN
    BY DEF IsRoutes, IsEntry
<1>7. ASSUME NEW k \in DOMAIN q PROVE q[k][1] # e[1]
    <2>1. PICK j \in DOMAIN rev : j # i /\ q[k] = rev[j]
        BY <1>4, Zenon
    <2>2. rev[j][1] # rev[i][1]
        BY <2>1, Zenon DEF IsRoutes
    <2> QED
        BY <2>1, <2>2
<1> HIDE DEF q, e
<1>8. rev' = Insert(q, e[1], e[2])
    <2>1. Len(q) # setup.capacity
        BY <1>4, <1>5
    <2> QED
        BY <1>1, <1>6, <2>1, Zenon DEF Insert, q, e
<1>9. Inserted(q, e[1], e[2], rev')
    BY <1>4, <1>6, <1>7, <1>8, Inserts
<1>10. /\ IsRoutes(rev')
       /\ \A k \in DOMAIN rev' : \E j \in DOMAIN rev : rev'[k] = rev[j]
       /\ \A j \in DOMAIN rev : \E k \in DOMAIN rev' : rev'[k] = rev[j]
    <2>1. Len(q) # setup.capacity
        BY <1>4, <1>5
    <2>2. ASSUME NEW k \in DOMAIN rev' PROVE \E j \in DOMAIN rev : rev'[k] = rev[j]
        <3>1. rev'[k] = e \/ \E j \in DOMAIN q : rev'[k] = q[j]
            BY <1>6, <1>9, Zenon DEF Inserted
        <3> QED
            BY <1>4, <3>1, Zenon DEF e
    <2>3. ASSUME NEW j \in DOMAIN rev PROVE \E k \in DOMAIN rev' : rev'[k] = rev[j]
        <3>1. CASE j = i
            BY <1>6, <1>9, <3>1, Zenon DEF Inserted, e
        <3>2. CASE j # i
            <4>1. PICK k \in DOMAIN q : q[k] = rev[j]
                BY <1>4, <3>2, Zenon
            <4>2. \E l \in DOMAIN rev' : rev'[l] = q[k]
                BY <1>9, <2>1, Zenon DEF Inserted
            <4> QED
                BY <4>1, <4>2, Zenon
        <3> QED
            BY <3>1, <3>2
    <2> QED
        BY <1>9, <2>2, <2>3, Zenon DEF Inserted
<1>11. RevIps(rev') = RevIps(rev)
    BY <1>10 DEF RevIps
<1>12. ASSUME NEW ip, \A j \in DOMAIN rev : rev[j][1] = ip => rev[j][2] = out.routes[ip],
              NEW k \in DOMAIN rev', rev'[k][1] = ip
       PROVE  rev'[k][2] = out.routes[ip]
    <2>1. PICK j \in DOMAIN rev : rev'[k] = rev[j]
        BY <1>10, Zenon
    <2> QED
        BY <1>12, <2>1, Zenon
<1>13. ASSUME RouteInv PROVE RouteInv'
    BY <1>2, <1>11, <1>12, <1>13 DEF RouteInv, ListForwards
<1>14. IsRoutes(rev)'
    BY <1>2, <1>10 DEF IsRoutes
<1> QED
    BY <1>13, <1>14

LEMMA RouteIsDropped ==
    ASSUME RouteExpires, IsRoutes(rev), OutShape, setup.capacity \in Nat
    PROVE  IsRoutes(rev)' /\ (RouteInv => RouteInv')
<1>1. rev # <<>> /\ rev' = Tail(rev) /\ UNCHANGED <<setup, acl>>
    BY DEF RouteExpires
<1>2. PICK S : rev \in Seq(S)
    BY DEF IsRoutes, IsSeq
<1>3. out'.routes = out.routes /\ out'.forgotten = out.forgotten \cup {Head(rev)[1]}
    BY DEF RouteExpires, OutShape
<1>4. /\ rev' \in Seq(S) /\ Len(rev') = Len(rev) - 1 /\ Len(rev) \in Nat /\ 1 \in DOMAIN rev
      /\ \A k \in DOMAIN rev' : k + 1 \in DOMAIN rev /\ rev'[k] = rev[k + 1] /\ k \in Nat
      /\ \A j \in DOMAIN rev : j # 1 => j - 1 \in DOMAIN rev' /\ rev'[j - 1] = rev[j]
    BY <1>1, <1>2
<1>5. IsRoutes(rev)'
    <2>1. \A i, j \in DOMAIN rev' : rev'[i][1] = rev'[j][1] => i = j
        <3> SUFFICES ASSUME NEW i \in DOMAIN rev', NEW j \in DOMAIN rev', rev'[i][1] = rev'[j][1] PROVE i = j
            OBVIOUS
        <3>0. i + 1 \in DOMAIN rev /\ j + 1 \in DOMAIN rev /\ rev[i + 1][1] = rev[j + 1][1]
            BY <1>4
        <3>1. i + 1 = j + 1
            BY <3>0, Zenon DEF IsRoutes
        <3> QED
            BY <1>4, <3>1
    <2>2. \A i \in DOMAIN rev' : IsEntry(rev'[i])
        BY <1>4, Zenon DEF IsRoutes
    <2>3. Len(rev') <= setup'.capacity
        BY <1>1, <1>4 DEF IsRoutes
    <2>4. IsSeq(rev')
        BY <1>4 DEF IsSeq
    <2> QED
        BY <2>1, <2>2, <2>3, <2>4 DEF IsRoutes
<1>6. ASSUME RouteInv PROVE RouteInv'
    <2> SUFFICES ASSUME setup.acl, NEW ip \in DOMAIN out.routes, ip \notin out.forgotten, ip # Head(rev)[1]
                 PROVE  /\ out.routes[ip] \in BOOLEAN
                        /\ \A i \in DOMAIN rev' : rev'[i][1] = ip => rev'[i][2] = out.routes[ip]
                        /\ ip \notin RevIps(rev') => ListForwards(ip) = out.routes[ip]
        BY <1>1, <1>3 DEF RouteInv, ListForwards, RevIps
    <2>1. /\ out.routes[ip] \in BOOLEAN
          /\ \A i \in DOMAIN rev : rev[i][1] = ip => rev[i][2] = out.routes[ip]
          /\ ip \notin RevIps(rev) => ListForwards(ip) = out.routes[ip]
        BY <1>6 DEF RouteInv
    <2>2. ip \notin RevIps(rev') => ip \notin RevIps(rev)
        <3> SUFFICES ASSUME NEW j \in DOMAIN rev, rev[j][1] = ip PROVE ip \in RevIps(rev')
            BY DEF RevIps
        <3>1. j # 1
            BY <1>1, <1>2
        <3> QED
            BY <1>4, <3>1 DEF RevIps
    <2> QED
        BY <1>4, <2>1, <2>2
<1> QED
    BY <1>5, <1>6

-----------------------------------------------------------------------------
\* What a name server answers, and the connection of a lookup: nothing else was
\* asked on it, and a kept one has nothing to be read.
ResultOf(s, q) == [st |-> "ok", q |-> q, answers |-> Zone[s][q].answers, additionals |-> Zone[s][q].additionals]
Results(s, q) == {LookupFailed, ResultOf(s, q)}

QuietClients == [pending : {<<>>}, inbox : {<<>>}, lost : BOOLEAN]
AskedClients(s, q) ==
    [pending : {<<q>>}, inbox : {<<>>}, lost : BOOLEAN] \cup [pending : {<<>>}, inbox : {<<ResultOf(s, q)>>}, lost : BOOLEAN]

AllProtos == {"udp", "tcp", "unix"}
LegStates(s, q) == [st : {"idle", "err"}, client : {Fresh}] \cup [st : {"asked"}, client : AskedClients(s, q)]
LegMaps(s, q) == UNION {[P -> LegStates(s, q)] : P \in SUBSET AllProtos}

SideStates(s, q) ==
    [attempt : Nat, res : {NoResult}, legs : LegMaps(s, q)] \cup [attempt : Nat, res : Results(s, q), legs : {<<>>}]

\* A request that is looked up at the name servers the list has chosen.
Chosen(r) == IF ShouldForwardByQuery(Query(r)) = "open" THEN Sides ELSE {ShouldForwardByQuery(Query(r))}

Lookup(lists, q, chosen, v) ==
    /\ v = [st |-> "looking", use_remote |-> v.use_remote, remote_response |-> v.remote_response, sides |-> v.sides]
    /\ v.use_remote \in BOOLEAN
    /\ v.sides = [s \in chosen |-> v.sides[s]]
    /\ \A s \in chosen : v.sides[s] \in SideStates(s, q)
    /\ v.use_remote => /\ "local" \in chosen /\ v.sides["local"].res # NoResult
                       /\ ShouldForwardByResponse(lists, v.sides["local"].res, q) = "remote"
    /\ v.remote_response # NoResult => "remote" \in chosen /\ v.remote_response = v.sides["remote"].res

Done == [Waiting EXCEPT !.st = "done"]
RequestOK(lists, q, chosen, v) == v = Waiting \/ v = Done \/ Lookup(lists, q, chosen, v)

RequestsOK ==
    /\ req = [r \in Requests |-> req[r]]
    /\ \A r \in Requests : RequestOK(acl, Query(r), Chosen(r), req[r])

\* Over TCP the requests are taken one after the other.
FrontOK ==
    setup.front = "tcp" => \A r \in Requests : req[r].st # "waiting" => \A s \in 1..r - 1 : req[s].st = "done"

Keeps == IF setup.kept = 0 THEN 1 ELSE setup.kept
CacheOK == \A k \in DOMAIN cache : k[1] \in Sides /\ cache[k] \in Seq(QuietClients) /\ Len(cache[k]) <= Keeps

AskedOK == \A a \in asked : \E r \in Requests : a[2] = Query(r) /\ a[1] \in Chosen(r)

ReplyOK(a) ==
    /\ a.r \in Requests /\ a.q = Query(a.r) /\ a.id = setup.requests[a.r].id
    /\ a.from # "self" /\ ShouldForwardByQuery(a.q) = "open" =>
           a.local.st # "none" /\ a.from = ShouldForwardByResponse(acl, a.local, a.q)

SentOK ==
    /\ IsSeq(out.sent)
    /\ \A i \in DOMAIN out.sent : ReplyOK(out.sent[i]) /\ req[out.sent[i].r].st = "done"
    /\ \A i, j \in DOMAIN out.sent : i < j =>
           out.sent[i].r # out.sent[j].r /\ (setup.front = "tcp" => out.sent[i].r < out.sent[j].r)

DnsInv ==
    /\ setup \in Setups /\ RequestsOK /\ FrontOK /\ CacheOK /\ AskedOK /\ OutShape /\ SentOK /\ IsRoutes(rev)

LEMMA Decides == ASSUME NEW q PROVE ShouldForwardByQuery(q) \in {"open", "local", "remote"}
<1>1. CASE ~setup.balancer \/ Lower(q.name) \in setup.servers
    BY <1>1 DEF ShouldForwardByQuery
<1>2. CASE ~(~setup.balancer \/ Lower(q.name) \in setup.servers) /\ ~setup.acl
    BY <1>2 DEF ShouldForwardByQuery
<1>3. CASE ~(~setup.balancer \/ Lower(q.name) \in setup.servers) /\ setup.acl
    BY <1>3 DEF ShouldForwardByQuery
<1> QED
    BY <1>1, <1>2, <1>3

LEMMA ChosenSides == ASSUME NEW r PROVE Chosen(r) \subseteq Sides
BY Decides DEF Chosen, Sides

\* The lists, and what they decide, stay.
LEMMA Stays ==
    ASSUME setup' = setup, acl' = acl
    PROVE  /\ Requests' = Requests
           /\ \A r : Query(r)' = Query(r)
           /\ \A r : Chosen(r)' = Chosen(r)
           /\ \A q : ShouldForwardByQuery(q)' = ShouldForwardByQuery(q)
           /\ \A a : ReplyOK(a)' = ReplyOK(a)
<1>1. Requests' = Requests /\ \A r : Query(r)' = Query(r)
    BY DEF Requests, Query
<1>2. ASSUME NEW q PROVE ShouldForwardByQuery(q)' = ShouldForwardByQuery(q)
    BY Zenon DEF ShouldForwardByQuery, ShouldForwardByPtrName, CheckNameInProxyList, Default
<1>3. ASSUME NEW r PROVE Chosen(r)' = Chosen(r)
    BY Zenon DEF Chosen, Query, ShouldForwardByQuery, ShouldForwardByPtrName, CheckNameInProxyList, Default
<1>4. ASSUME NEW a PROVE ReplyOK(a)' = ReplyOK(a)
    BY <1>1, <1>2, Zenon DEF ReplyOK
<1> QED
    BY <1>1, <1>2, <1>3, <1>4

LEMMA RequestChanges ==
    ASSUME RequestsOK, setup' = setup, acl' = acl, NEW r \in Requests, NEW v,
           RequestOK(acl, Query(r), Chosen(r), v), req' = [req EXCEPT ![r] = v]
    PROVE  RequestsOK' /\ req'[r] = v /\ \A s \in Requests : s # r => req'[s] = req[s]
<1>1. DOMAIN req = Requests
    BY Zenon DEF RequestsOK
<1>2. req'[r] = v /\ (\A s \in Requests : s # r => req'[s] = req[s]) /\ req' = [s \in Requests |-> req'[s]]
    BY <1>1
<1>3. \A s \in Requests : RequestOK(acl, Query(s), Chosen(s), req'[s])
    BY <1>2, Zenon DEF RequestsOK
<1>4. Requests' = Requests /\ \A s : Query(s)' = Query(s) /\ Chosen(s)' = Chosen(s)
    BY Stays, Zenon
<1> QED
    BY <1>2, <1>3, <1>4, Zenon DEF RequestsOK

\* A record by its fields.
LEMMA LookupShape ==
    ASSUME NEW lists, NEW q, NEW chosen, NEW v, Lookup(lists, q, chosen, v)
    PROVE  /\ DOMAIN v.sides = chosen /\ v.st = "looking" /\ v # Waiting /\ v # Done
           /\ DOMAIN v = {"st", "use_remote", "remote_response", "sides"}
<1>1. v.st = "looking"
    BY DEF Lookup
<1>2. Waiting.st = "waiting" /\ Done.st = "done"
    BY DEF Waiting, Done
<1>3. DOMAIN v = {"st", "use_remote", "remote_response", "sides"}
    BY DEF Lookup
<1>4. DOMAIN v.sides = chosen
    BY Zenon DEF Lookup
<1> QED
    BY <1>1, <1>2, <1>3, <1>4

LEMMA RequestStates ==
    ASSUME RequestsOK, NEW r \in Requests
    PROVE  /\ req[r].st \in {"waiting", "looking", "done"}
           /\ req[r].st = "waiting" => req[r] = Waiting
           /\ req[r].st = "looking" => Lookup(acl, Query(r), Chosen(r), req[r])
           /\ req[r].st = "done" => req[r] = Done
<1>1. RequestOK(acl, Query(r), Chosen(r), req[r])
    BY Zenon DEF RequestsOK
<1>2. Waiting.st = "waiting" /\ Done.st = "done"
    BY DEF Waiting, Done
<1>3. Lookup(acl, Query(r), Chosen(r), req[r]) => req[r].st = "looking"
    BY LookupShape
<1> QED
    BY <1>1, <1>2, <1>3 DEF RequestOK

\* The lookup at one name server goes on.
LEMMA SideChanges ==
    ASSUME RequestsOK, setup' = setup, acl' = acl, NEW r \in Requests, req[r].st = "looking",
           NEW s \in DOMAIN req[r].sides, req[r].sides[s].res = NoResult,
           NEW v \in SideStates(s, Query(r)), req' = [req EXCEPT ![r].sides[s] = v]
    PROVE  RequestsOK' /\ (\A t \in Requests : req'[t].st = req[t].st)
<1> DEFINE old == req[r]
           new == [old EXCEPT !.sides[s] = v]
           q == Query(r)
<1>1. Lookup(acl, q, Chosen(r), old) /\ DOMAIN old.sides = Chosen(r)
    BY RequestStates, LookupShape
<1>2. req' = [req EXCEPT ![r] = new]
    OBVIOUS
<1>3. /\ DOMAIN old = {"st", "use_remote", "remote_response", "sides"}
      /\ old = [st |-> "looking", use_remote |-> old.use_remote, remote_response |-> old.remote_response, sides |-> old.sides]
      /\ old.use_remote \in BOOLEAN
      /\ old.sides = [t \in Chosen(r) |-> old.sides[t]]
      /\ \A t \in Chosen(r) : old.sides[t] \in SideStates(t, q)
      /\ old.use_remote => "local" \in Chosen(r) /\ old.sides["local"].res # NoResult
                           /\ ShouldForwardByResponse(acl, old.sides["local"].res, q) = "remote"
      /\ old.remote_response # NoResult => "remote" \in Chosen(r) /\ old.remote_response = old.sides["remote"].res
    BY <1>1, LookupShape, Zenon DEF Lookup
<1>4. s \in Chosen(r) /\ old.sides[s].res = NoResult
    BY <1>1
<1> HIDE DEF old
<1>5. /\ new.st = "looking" /\ new.use_remote = old.use_remote /\ new.remote_response = old.remote_response
      /\ new.sides = [old.sides EXCEPT ![s] = v]
      /\ new = [st |-> "looking", use_remote |-> new.use_remote, remote_response |-> new.remote_response, sides |-> new.sides]
    BY <1>3
<1> HIDE DEF new, q
<1>6. /\ new.sides[s] = v /\ \A t \in Chosen(r) : t # s => new.sides[t] = old.sides[t]
      /\ new.sides = [t \in Chosen(r) |-> new.sides[t]]
    BY <1>3, <1>4, <1>5
<1>7. \A t \in Chosen(r) : new.sides[t] \in SideStates(t, q)
    <2>1. v \in SideStates(s, q)
        BY DEF q
    <2> QED
        BY <1>3, <1>6, <2>1, Zenon
<1>8. new.use_remote => /\ "local" \in Chosen(r) /\ new.sides["local"].res # NoResult
                        /\ ShouldForwardByResponse(acl, new.sides["local"].res, q) = "remote"
    BY <1>3, <1>4, <1>5, <1>6, Zenon
<1>9. new.remote_response # NoResult => "remote" \in Chosen(r) /\ new.remote_response = new.sides["remote"].res
    BY <1>3, <1>4, <1>5, <1>6, Zenon
<1>10. Lookup(acl, q, Chosen(r), new)
    BY <1>3, <1>5, <1>6, <1>7, <1>8, <1>9, Zenon DEF Lookup
<1>11. RequestsOK' /\ req'[r] = new /\ \A t \in Requests : t # r => req'[t] = req[t]
    <2>1. RequestOK(acl, Query(r), Chosen(r), new)
        BY <1>10, Zenon DEF RequestOK, q
    <2> QED
        BY <1>2, <2>1, RequestChanges
<1> QED
    BY <1>3, <1>5, <1>11 DEF old

LEMMA LegChanges ==
    ASSUME RequestsOK, setup' = setup, acl' = acl, NEW r \in Requests, NEW s, NEW p, Looking(r, s, p),
           NEW v \in LegStates(s, Query(r)), req' = [req EXCEPT ![r].sides[s].legs[p] = v]
    PROVE  RequestsOK' /\ (\A t \in Requests : req'[t].st = req[t].st)
<1> DEFINE old == req[r].sides[s]
           new == [old EXCEPT !.legs[p] = v]
<1>0. req[r].st = "looking" /\ s \in DOMAIN req[r].sides /\ old.res = NoResult /\ p \in DOMAIN old.legs
    BY DEF Looking
<1>1. old \in [attempt : Nat, res : {NoResult}, legs : LegMaps(s, Query(r))]
    <2>1. Lookup(acl, Query(r), Chosen(r), req[r]) /\ DOMAIN req[r].sides = Chosen(r)
        BY <1>0, RequestStates, LookupShape
    <2>2. old \in SideStates(s, Query(r))
        BY <1>0, <2>1, Zenon DEF Lookup
    <2>3. NoResult \notin Results(s, Query(r))
        BY DEF NoResult, Results, LookupFailed, ResultOf
    <2> QED
        BY <1>0, <2>2, <2>3 DEF SideStates
<1>2. new \in [attempt : Nat, res : {NoResult}, legs : LegMaps(s, Query(r))]
    <2>1. PICK P \in SUBSET AllProtos : old.legs \in [P -> LegStates(s, Query(r))]
        BY <1>1 DEF LegMaps
    <2>2. [old.legs EXCEPT ![p] = v] \in [P -> LegStates(s, Query(r))]
        BY <2>1
    <2>3. [old.legs EXCEPT ![p] = v] \in LegMaps(s, Query(r))
        BY <2>2 DEF LegMaps
    <2> HIDE DEF old
    <2>4. new = [attempt |-> old.attempt, res |-> NoResult, legs |-> [old.legs EXCEPT ![p] = v]]
        BY <1>1
    <2> QED
        BY <1>1, <2>3, <2>4
<1>3. req' = [req EXCEPT ![r].sides[s] = new]
    OBVIOUS
<1>4. new \in SideStates(s, Query(r))
    BY <1>2 DEF SideStates
<1> HIDE DEF new
<1> QED
    BY <1>0, <1>3, <1>4, SideChanges

-----------------------------------------------------------------------------
\* What a step leaves alone.
LEMMA FrontStays ==
    ASSUME FrontOK, setup' = setup, NEW r \in Requests, \A s \in Requests : s # r => req'[s] = req[s],
           req[r].st # "done" \/ req'[r].st = "done", setup.requests \in Seq(Range(setup.requests)),
           setup.front = "tcp" => req'[r].st = req[r].st \/ \A s \in 1..r - 1 : req[s].st = "done"
    PROVE  FrontOK'
<1>0. Requests' = Requests
    BY DEF Requests
<1>1. \A t \in Requests : t \in Nat /\ \A s \in 1..t - 1 : s \in Requests /\ s # t
    BY DEF Requests
<1> SUFFICES ASSUME setup.front = "tcp", NEW t \in Requests, req'[t].st # "waiting", NEW s \in 1..t - 1
             PROVE  req'[s].st = "done"
    BY <1>0 DEF FrontOK
<1>2. s \in Requests /\ s # t
    BY <1>1
<1>3. req[s].st = "done" => req'[s].st = "done"
    <2>1. CASE s = r
        BY <2>1
    <2>2. CASE s # r
        BY <1>2, <2>2
    <2> QED
        BY <2>1, <2>2
<1>4. CASE t # r \/ req'[r].st = req[r].st
    <2>1. req[t].st # "waiting"
        BY <1>4
    <2> QED
        BY <1>3, <2>1 DEF FrontOK
<1>5. CASE t = r /\ \A u \in 1..r - 1 : req[u].st = "done"
    BY <1>3, <1>5
<1> QED
    BY <1>4, <1>5

LEMMA CacheStays == ASSUME CacheOK, setup' = setup, cache' = cache PROVE CacheOK'
    BY DEF CacheOK, Keeps

LEMMA AskedStays == ASSUME AskedOK, setup' = setup, acl' = acl, asked' = asked PROVE AskedOK'
<1> SUFFICES ASSUME NEW a \in asked PROVE \E r \in Requests' : a[2] = Query(r)' /\ a[1] \in Chosen(r)'
    BY DEF AskedOK
<1> QED
    BY Stays, Zenon DEF AskedOK

LEMMA SentStays ==
    ASSUME SentOK, setup' = setup, acl' = acl, out'.sent = out.sent,
           \A r \in Requests : req[r].st = "done" => req'[r].st = "done"
    PROVE  SentOK'
<1> DEFINE sent == out.sent
<1>1. /\ IsSeq(sent)
      /\ \A i \in DOMAIN sent : ReplyOK(sent[i]) /\ req[sent[i].r].st = "done"
      /\ \A i, j \in DOMAIN sent : i < j => sent[i].r # sent[j].r /\ (setup.front = "tcp" => sent[i].r < sent[j].r)
    BY Zenon DEF SentOK
<1>2. \A i \in DOMAIN sent : sent[i].r \in Requests
    BY <1>1, Zenon DEF ReplyOK
<1> SUFFICES /\ IsSeq(sent)
             /\ \A i \in DOMAIN sent : ReplyOK(sent[i])' /\ req'[sent[i].r].st = "done"
             /\ \A i, j \in DOMAIN sent : i < j => sent[i].r # sent[j].r /\ (setup.front = "tcp" => sent[i].r < sent[j].r)
    BY Zenon DEF SentOK
<1> QED
    BY <1>1, <1>2, Stays, Zenon

\* One more answer.
LEMMA Sends ==
    ASSUME SentOK, FrontOK, setup' = setup, acl' = acl, NEW r \in Requests, NEW a, a.r = r, ReplyOK(a),
           req[r].st # "done", req'[r].st = "done", \A s \in Requests : s # r => req'[s] = req[s],
           setup.requests \in Seq(Range(setup.requests)), out'.sent = Append(out.sent, a)
    PROVE  SentOK'
<1> DEFINE sent == out.sent
           new == out'.sent
<1>1. PICK S : sent \in Seq(S)
    BY Zenon DEF SentOK, IsSeq
<1>2. sent \in Seq(S \cup {a}) /\ a \in S \cup {a}
    BY <1>1
<1>3. /\ new \in Seq(S \cup {a}) /\ Len(new) = Len(sent) + 1 /\ Len(sent) \in Nat /\ DOMAIN sent = 1..Len(sent)
      /\ DOMAIN new = 1..Len(new) /\ new[Len(new)] = a /\ \A i \in 1..Len(sent) : new[i] = sent[i]
    BY <1>2
<1>4. /\ \A i \in DOMAIN sent : ReplyOK(sent[i]) /\ req[sent[i].r].st = "done"
      /\ \A i, j \in DOMAIN sent : i < j => sent[i].r # sent[j].r /\ (setup.front = "tcp" => sent[i].r < sent[j].r)
    BY Zenon DEF SentOK
<1> HIDE DEF new, sent
<1>5. \A t \in Requests : t \in Nat
    BY DEF Requests
<1>6. ASSUME NEW i \in 1..Len(sent)
      PROVE  /\ sent[i].r \in Requests /\ sent[i].r # r /\ req'[sent[i].r].st = "done"
             /\ setup.front = "tcp" => sent[i].r < r
    <2>1. ReplyOK(sent[i]) /\ req[sent[i].r].st = "done"
        BY <1>3, <1>4
    <2>2. sent[i].r \in Requests
        BY <2>1, Zenon DEF ReplyOK
    <2>3. sent[i].r # r
        BY <2>1
    <2>4. ASSUME setup.front = "tcp", ~(sent[i].r < r) PROVE FALSE
        <3>1. r \in 1..sent[i].r - 1
            BY <1>5, <2>2, <2>3, <2>4 DEF Requests
        <3> QED
            BY <2>1, <2>2, <2>4, <3>1 DEF FrontOK
    <2> QED
        BY <2>1, <2>2, <2>3, <2>4
<1>7. \A i \in DOMAIN new : i = Len(new) \/ i \in 1..Len(sent)
    BY <1>3
<1>8. ASSUME NEW i \in DOMAIN new PROVE ReplyOK(new[i]) /\ req'[new[i].r].st = "done"
    BY <1>3, <1>4, <1>6, <1>7
<1>9. ASSUME NEW i \in DOMAIN new, NEW j \in DOMAIN new, i < j
      PROVE  new[i].r # new[j].r /\ (setup.front = "tcp" => new[i].r < new[j].r)
    <2>1. i \in 1..Len(sent)
        BY <1>3, <1>9
    <2>2. CASE j \in 1..Len(sent)
        BY <1>3, <1>4, <1>9, <2>1, <2>2
    <2>3. CASE j = Len(new)
        BY <1>3, <1>6, <2>1, <2>3
    <2> QED
        BY <1>7, <2>2, <2>3
<1> SUFFICES /\ IsSeq(new)
             /\ \A i \in DOMAIN new : ReplyOK(out.sent[i])' /\ req'[new[i].r].st = "done"
             /\ \A i, j \in DOMAIN new : i < j => new[i].r # new[j].r /\ (setup.front = "tcp" => new[i].r < new[j].r)
    BY Zenon DEF SentOK, new
<1>10. IsSeq(new)
    BY <1>3 DEF IsSeq
<1>11. \A i \in DOMAIN new : ReplyOK(out.sent[i])'
    <2>1. \A e : ReplyOK(e)' = ReplyOK(e)
        BY Stays
    <2>2. \A i \in DOMAIN new : ReplyOK(new[i])
        BY <1>8
    <2> QED
        BY <2>1, <2>2, Zenon DEF new
<1> QED
    BY <1>8, <1>9, <1>10, <1>11, Zenon

LEMMA RoutesStay ==
    ASSUME RouteInv, setup' = setup, acl' = acl, rev' = rev, out'.routes = out.routes, out'.forgotten = out.forgotten
    PROVE  RouteInv'
    BY DEF RouteInv, ListForwards, RevIps

LEMMA SetupFacts ==
    ASSUME setup \in Setups
    PROVE  /\ setup.requests \in Seq(Range(setup.requests)) /\ setup.kept \in Nat /\ setup.capacity \in Nat \ {0}
           /\ \A r \in Requests : r \in Nat
           /\ \A r \in Requests, s \in Sides : IsSeq(Zone[s][Query(r)].answers)
<1>1. setup.requests \in Seq(Range(setup.requests)) /\ setup.kept \in Nat /\ setup.capacity \in Nat \ {0}
    BY SetupsAssumption
<1>2. \A r \in Requests : r \in Nat
    BY <1>1 DEF Requests
<1>3. ASSUME NEW r \in Requests, NEW s \in Sides PROVE IsSeq(Zone[s][Query(r)].answers)
    BY ZoneAssumption, Zenon DEF IsSeq, Query, Requests, Sides
<1> QED
    BY <1>1, <1>2, <1>3

-----------------------------------------------------------------------------
\* The cache has room for all the addresses of an answer.
AnswersFit ==
    \A c \in Setups : \A r \in DOMAIN c.requests : \A s \in Sides :
        Len(Zone[s][c.requests[r].query].answers) <= c.capacity

Keeping == DnsInv' /\ (AnswersFit /\ RouteInv => RouteInv')

LEMMA Answers ==
    ASSUME DnsInv, NEW r \in Requests, req[r].st = "looking", NEW from \in Sides, NEW res \in Results(from, Query(r)),
           Answer(r, res, from),
           ShouldForwardByQuery(Query(r)) = "open" =>
               /\ "local" \in DOMAIN req[r].sides /\ req[r].sides["local"].res # NoResult
               /\ from = ShouldForwardByResponse(acl, req[r].sides["local"].res, Query(r))
    PROVE  Keeping
<1> DEFINE answers == IF res.st = "ok" THEN res.answers ELSE <<>>
           ips == Addresses(answers)
           a == [r |-> r, id |-> setup.requests[r].id, from |-> from,
                 code |-> IF res.st = "ok" THEN "NoError" ELSE "ServFail",
                 q |-> IF res.st = "ok" THEN res.q ELSE Query(r),
                 local |-> IF "local" \in DOMAIN req[r].sides THEN req[r].sides["local"].res ELSE NoResult]
           routes == [ip \in DOMAIN out.routes \cup ips |-> IF ip \in ips THEN from = "remote" ELSE out.routes[ip]]
           forgotten == (out.forgotten \cup (RevIps(rev) \ RevIps(rev'))) \ ips
<1>0. /\ setup \in Setups /\ RequestsOK /\ FrontOK /\ CacheOK /\ AskedOK /\ OutShape /\ SentOK /\ IsRoutes(rev)
    BY Zenon DEF DnsInv
<1>1. /\ setup' = setup /\ acl' = acl /\ cache' = cache /\ asked' = asked
      /\ rev' = RememberAll(answers, from = "remote")
      /\ req' = [req EXCEPT ![r] = Done]
    BY Zenon DEF Answer, Done
<1>2. out' = [out EXCEPT !.sent = Append(@, a), !.routes = routes, !.forgotten = forgotten]
    BY <1>1 DEF Answer
<1>3. setup.requests \in Seq(Range(setup.requests)) /\ setup.capacity \in Nat \ {0}
    BY <1>0, SetupFacts
<1>4. \/ res.st = "ok" /\ res.q = Query(r) /\ answers = Zone[from][Query(r)].answers
      \/ res.st = "err" /\ answers = <<>>
    BY DEF Results, ResultOf, LookupFailed
<1>5. IsSeq(answers)
    <2>1. IsSeq(Zone[from][Query(r)].answers)
        BY <1>0, SetupFacts
    <2>2. IsSeq(<<>>)
        BY DEF IsSeq
    <2> QED
        BY <1>4, <2>1, <2>2
<1> HIDE DEF answers, ips
<1>6. Lookup(acl, Query(r), Chosen(r), req[r]) /\ DOMAIN req[r].sides = Chosen(r)
    BY <1>0, RequestStates, LookupShape
<1>7. ReplyOK(a) /\ a.r = r
    <2>1. a.r = r /\ a.q = Query(a.r) /\ a.id = setup.requests[a.r].id /\ a.from = from
        BY <1>4
    <2>2. ASSUME ShouldForwardByQuery(Query(r)) = "open" PROVE a.local.st # "none" /\ a.local = req[r].sides["local"].res
        <3>1. a.local = req[r].sides["local"].res /\ a.local # NoResult
            BY <2>2
        <3>2. req[r].sides["local"] \in SideStates("local", Query(r))
            BY <1>6, <2>2, Zenon DEF Lookup
        <3>3. a.local \in Results("local", Query(r))
            BY <3>1, <3>2 DEF SideStates
        <3> QED
            BY <3>1, <3>3 DEF Results, ResultOf, LookupFailed
    <2> HIDE DEF a
    <2> QED
        BY <2>1, <2>2, Zenon DEF ReplyOK
<1> HIDE DEF a, routes, forgotten
<1>8. /\ out'.sent = Append(out.sent, a) /\ out'.routes = routes /\ out'.forgotten = forgotten /\ OutShape'
    BY <1>0, <1>2 DEF OutShape
<1>9. RequestsOK' /\ req'[r] = Done /\ \A s \in Requests : s # r => req'[s] = req[s]
    <2>1. RequestOK(acl, Query(r), Chosen(r), Done)
        BY DEF RequestOK
    <2> HIDE DEF RequestsOK
    <2> QED
        BY <1>0, <1>1, <2>1, RequestChanges
<1>10. Done.st = "done"
    BY DEF Done, Waiting
<1>11. \A s \in 1..r - 1 : setup.front = "tcp" => req[s].st = "done"
    BY <1>0 DEF FrontOK
<1>12. FrontOK'
    BY <1>0, <1>1, <1>3, <1>9, <1>10, <1>11, FrontStays
<1>13. SentOK'
    BY <1>0, <1>1, <1>3, <1>7, <1>8, <1>9, <1>10, Sends
<1>14. CacheOK' /\ AskedOK'
    BY <1>0, <1>1, CacheStays, AskedStays
<1>15. (from = "remote") \in BOOLEAN
    OBVIOUS
<1>16. IsRoutes(rev)'
    <2>1. IsRoutes(RememberAll(answers, from = "remote"))
        BY <1>0, <1>3, <1>5, <1>15, RememberAllFacts
    <2> QED
        BY <1>1, <2>1 DEF IsRoutes
<1>17. ASSUME AnswersFit, RouteInv PROVE RouteInv'
    <2>1. Len(answers) <= setup.capacity
        <3>1. Len(Zone[from][Query(r)].answers) <= setup.capacity
            BY <1>0, <1>17, Zenon DEF AnswersFit, Query, Requests
        <3>2. Len(<<>>) <= setup.capacity
            BY <1>3
        <3> QED
            BY <1>4, <3>1, <3>2
    <2> QED
        BY <1>0, <1>1, <1>3, <1>5, <1>8, <1>15, <1>17, <2>1, RoutesRemembered DEF routes, forgotten, ips
<1> QED
    BY <1>0, <1>1, <1>8, <1>9, <1>12, <1>13, <1>14, <1>16, <1>17, Zenon DEF Keeping, DnsInv

\* A step of a lookup: no request begins or ends.
LEMMA LookupGoesOn ==
    ASSUME DnsInv, setup' = setup, acl' = acl, RequestsOK', \A t \in Requests : req'[t].st = req[t].st,
           CacheOK', AskedOK', rev' = rev, OutShape', out'.sent = out.sent, out'.routes = out.routes,
           out'.forgotten = out.forgotten
    PROVE  Keeping
<1>0. setup \in Setups /\ FrontOK /\ SentOK /\ IsRoutes(rev)
    BY Zenon DEF DnsInv
<1>1. FrontOK'
    <2>1. Requests' = Requests
        BY DEF Requests
    <2>2. setup.requests \in Seq(Range(setup.requests))
        BY <1>0, SetupFacts
    <2>3. \A t \in Requests : \A s \in 1..t - 1 : s \in Requests
        BY <2>2 DEF Requests
    <2> QED
        BY <1>0, <2>1, <2>3 DEF FrontOK
<1>2. SentOK'
    BY <1>0, SentStays
<1>3. IsRoutes(rev)'
    BY <1>0 DEF IsRoutes
<1>4. RouteInv => RouteInv'
    BY RoutesStay
<1> QED
    BY <1>0, <1>1, <1>2, <1>3, <1>4, Zenon DEF Keeping, DnsInv

LEMMA RemoteResponds ==
    ASSUME DnsInv, NEW r \in Requests, RemoteResponse(r)
    PROVE  Keeping
<1> DEFINE res == req[r].sides["remote"].res
           q == Query(r)
<1>0. setup \in Setups /\ RequestsOK /\ CacheOK /\ AskedOK /\ OutShape
    BY Zenon DEF DnsInv
<1>1. req[r].st = "looking" /\ "remote" \in DOMAIN req[r].sides /\ res # NoResult
    BY DEF RemoteResponse
<1>2. Lookup(acl, q, Chosen(r), req[r]) /\ DOMAIN req[r].sides = Chosen(r)
    BY <1>0, <1>1, RequestStates, LookupShape
<1>3. res \in Results("remote", q)
    <2>1. req[r].sides["remote"] \in SideStates("remote", q)
        BY <1>1, <1>2, Zenon DEF Lookup
    <2> QED
        BY <1>1, <2>1 DEF SideStates
<1>4. CASE Answer(r, res, "remote") /\ ("local" \notin DOMAIN req[r].sides \/ req[r].use_remote)
    <2>1. ASSUME ShouldForwardByQuery(q) = "open"
          PROVE  /\ "local" \in DOMAIN req[r].sides /\ req[r].sides["local"].res # NoResult
                 /\ "remote" = ShouldForwardByResponse(acl, req[r].sides["local"].res, q)
        <3>1. "local" \in DOMAIN req[r].sides
            BY <1>2, <2>1 DEF Chosen, Sides
        <3> QED
            BY <1>2, <1>4, <3>1, Zenon DEF Lookup
    <2>2. "remote" \in Sides
        BY DEF Sides
    <2> QED
        BY <1>1, <1>3, <1>4, <2>1, <2>2, Answers
<1>5. CASE /\ req[r].remote_response = NoResult /\ req' = [req EXCEPT ![r].remote_response = res]
           /\ UNCHANGED <<setup, acl, cache, rev, asked, out>>
    <2> DEFINE v == [req[r] EXCEPT !.remote_response = res]
    <2>1. v.st = "looking" /\ Lookup(acl, q, Chosen(r), v)
        <3>1. /\ req[r] = [st |-> "looking", use_remote |-> req[r].use_remote,
                           remote_response |-> req[r].remote_response, sides |-> req[r].sides]
              /\ req[r].use_remote \in BOOLEAN
              /\ req[r].sides = [s \in Chosen(r) |-> req[r].sides[s]]
              /\ \A s \in Chosen(r) : req[r].sides[s] \in SideStates(s, q)
              /\ req[r].use_remote => /\ "local" \in Chosen(r) /\ req[r].sides["local"].res # NoResult
                                      /\ ShouldForwardByResponse(acl, req[r].sides["local"].res, q) = "remote"
            BY <1>2, Zenon DEF Lookup
        <3>2. /\ v.st = "looking" /\ v.use_remote = req[r].use_remote /\ v.remote_response = res /\ v.sides = req[r].sides
              /\ v = [st |-> "looking", use_remote |-> v.use_remote, remote_response |-> v.remote_response, sides |-> v.sides]
            BY <3>1
        <3> HIDE DEF v
        <3> QED
            BY <1>1, <1>2, <3>1, <3>2 DEF Lookup
    <2>2. req' = [req EXCEPT ![r] = v]
        BY <1>5
    <2> HIDE DEF v
    <2>3. RequestOK(acl, q, Chosen(r), v)
        BY <2>1 DEF RequestOK
    <2>4. RequestsOK' /\ req'[r] = v /\ \A s \in Requests : s # r => req'[s] = req[s]
        BY <1>0, <1>5, <2>2, <2>3, RequestChanges
    <2>5. \A t \in Requests : req'[t].st = req[t].st
        BY <1>1, <2>1, <2>4
    <2>6. CacheOK' /\ AskedOK' /\ OutShape'
        BY <1>0, <1>5, CacheStays, AskedStays DEF OutShape
    <2> QED
        BY <1>5, <2>4, <2>5, <2>6, LookupGoesOn
<1> QED
    BY <1>4, <1>5 DEF RemoteResponse

\* A request ends without an answer.
LEMMA Ends ==
    ASSUME DnsInv, NEW r \in Requests, req[r].st # "done", NoAnswer(r), UNCHANGED <<setup, acl, cache, rev, asked>>,
           setup.front = "tcp" => \A s \in 1..r - 1 : req[s].st = "done"
    PROVE  Keeping
<1>0. /\ setup \in Setups /\ RequestsOK /\ FrontOK /\ CacheOK /\ AskedOK /\ OutShape /\ SentOK /\ IsRoutes(rev)
    BY Zenon DEF DnsInv
<1>1. req' = [req EXCEPT ![r] = Done] /\ Done.st = "done"
    BY DEF NoAnswer, Done, Waiting
<1>2. out'.sent = out.sent /\ out'.routes = out.routes /\ out'.forgotten = out.forgotten /\ OutShape'
    BY <1>0 DEF NoAnswer, OutShape
<1>3. RequestsOK' /\ req'[r] = Done /\ \A s \in Requests : s # r => req'[s] = req[s]
    <2>1. RequestOK(acl, Query(r), Chosen(r), Done)
        BY DEF RequestOK
    <2> QED
        BY <1>0, <1>1, <2>1, RequestChanges
<1>4. setup.requests \in Seq(Range(setup.requests))
    BY <1>0, SetupFacts
<1>5. FrontOK'
    BY <1>0, <1>1, <1>3, <1>4, FrontStays
<1>6. \A s \in Requests : req[s].st = "done" => req'[s].st = "done"
    BY <1>1, <1>3
<1>7. SentOK'
    BY <1>0, <1>2, <1>6, SentStays
<1>8. CacheOK' /\ AskedOK'
    BY <1>0, CacheStays, AskedStays
<1>9. IsRoutes(rev)'
    BY <1>0 DEF IsRoutes
<1>10. RouteInv => RouteInv'
    BY <1>2, RoutesStay
<1>11. setup' \in Setups
    BY <1>0
<1> QED
    BY <1>2, <1>3, <1>5, <1>7, <1>8, <1>9, <1>10, <1>11, Zenon DEF Keeping, DnsInv

\* Records with fields replaced.
LEMMA UseRemote ==
    ASSUME NEW w, NEW b, w = [st |-> "looking", use_remote |-> w.use_remote, remote_response |-> w.remote_response, sides |-> w.sides]
    PROVE  [w EXCEPT !.use_remote = b] =
               [st |-> "looking", use_remote |-> b, remote_response |-> w.remote_response, sides |-> w.sides]
    OBVIOUS

LEMMA StartFields ==
    ASSUME NEW sides
    PROVE  [Waiting EXCEPT !.st = "looking", !.sides = sides]
           = [st |-> "looking", use_remote |-> FALSE, remote_response |-> NoResult, sides |-> sides]
<1> DEFINE u == [Waiting EXCEPT !.st = "looking"]
<1>1. PICK b : b = FALSE
    OBVIOUS
<1>2. Waiting = [st |-> "waiting", use_remote |-> b, remote_response |-> NoResult, sides |-> <<>>]
    BY <1>1, Zenon DEF Waiting
<1>3. u = [st |-> "looking", use_remote |-> b, remote_response |-> NoResult, sides |-> <<>>]
    BY <1>2
<1>4. [Waiting EXCEPT !.st = "looking", !.sides = sides] = [u EXCEPT !.sides = sides]
    OBVIOUS
<1> HIDE DEF u
<1>5. [u EXCEPT !.sides = sides] = [st |-> "looking", use_remote |-> b, remote_response |-> NoResult, sides |-> sides]
    BY <1>3
<1> QED
    BY <1>1, <1>4, <1>5, Zenon

LEMMA LocalResponds ==
    ASSUME DnsInv, NEW r \in Requests, LocalResponse(r)
    PROVE  Keeping
<1> DEFINE res == req[r].sides["local"].res
           remote == req[r].remote_response
           q == Query(r)
           choice == ShouldForwardByResponse(acl, res, q)
<1>0. setup \in Setups /\ RequestsOK /\ FrontOK /\ CacheOK /\ AskedOK /\ OutShape
    BY Zenon DEF DnsInv
<1>1. req[r].st = "looking" /\ "local" \in DOMAIN req[r].sides /\ res # NoResult /\ ~req[r].use_remote
    BY DEF LocalResponse
<1>2. Lookup(acl, q, Chosen(r), req[r]) /\ DOMAIN req[r].sides = Chosen(r)
    BY <1>0, <1>1, RequestStates, LookupShape
<1>3. res \in Results("local", q)
    <2>1. req[r].sides["local"] \in SideStates("local", q)
        BY <1>1, <1>2, Zenon DEF Lookup
    <2> QED
        BY <1>1, <2>1 DEF SideStates
<1>4. remote # NoResult => remote \in Results("remote", q)
    <2> SUFFICES ASSUME remote # NoResult PROVE remote \in Results("remote", q)
        OBVIOUS
    <2>1. "remote" \in Chosen(r) /\ remote = req[r].sides["remote"].res
        BY <1>2, Zenon DEF Lookup
    <2>2. req[r].sides["remote"] \in SideStates("remote", q)
        BY <1>2, <2>1, Zenon DEF Lookup
    <2> QED
        BY <2>1, <2>2 DEF SideStates
<1>5. "local" \in Sides /\ "remote" \in Sides
    BY DEF Sides
<1>6. ShouldForwardByQuery(q) = "open" => "remote" \in DOMAIN req[r].sides
    BY <1>2, <1>5 DEF Chosen
<1>7. choice \in {"local", "panic", "remote"}
    <2> DEFINE st0 == [names |-> {q.name}, decided |-> "open"]
               st1 == FoldLeft(LAMBDA st, rec : ExamineAnswer(acl, st, rec, q), st0, res.answers)
               st2 == FoldLeft(LAMBDA st, rec : ExamineAdditional(acl, st, rec, q), st1, res.additionals)
    <2>1. choice = IF res.st = "ok" /\ st2.decided \in {"local", "panic"} THEN st2.decided ELSE "remote"
        BY DEF ShouldForwardByResponse
    <2> HIDE DEF st2, choice
    <2> QED
        BY <2>1
<1> HIDE DEF choice
<1>8. CASE ("remote" \notin DOMAIN req[r].sides \/ choice = "local") /\ Answer(r, res, "local")
    BY <1>1, <1>3, <1>5, <1>6, <1>8, Answers DEF choice
<1>9. CASE NoAnswer(r) /\ UNCHANGED <<setup, acl, cache, rev, asked>>
    <2>1. setup.front = "tcp" => \A s \in 1..r - 1 : req[s].st = "done"
        BY <1>0, <1>1 DEF FrontOK
    <2> QED
        BY <1>1, <1>9, <2>1, Ends
<1>10. CASE choice = "remote" /\ remote # NoResult /\ Answer(r, remote, "remote")
    BY <1>1, <1>4, <1>5, <1>10, Answers DEF choice
<1>11. CASE choice = "remote" /\ req' = [req EXCEPT ![r].use_remote = TRUE] /\ UNCHANGED <<setup, acl, cache, rev, asked, out>>
    <2> DEFINE v == [req[r] EXCEPT !.use_remote = TRUE]
    <2>1. v.st = "looking" /\ Lookup(acl, q, Chosen(r), v)
        <3>1. /\ req[r] = [st |-> "looking", use_remote |-> req[r].use_remote,
                           remote_response |-> req[r].remote_response, sides |-> req[r].sides]
              /\ req[r].sides = [s \in Chosen(r) |-> req[r].sides[s]]
              /\ \A s \in Chosen(r) : req[r].sides[s] \in SideStates(s, q)
              /\ remote # NoResult => "remote" \in Chosen(r) /\ remote = req[r].sides["remote"].res
            BY <1>2, Zenon DEF Lookup
        <3>a. v = [st |-> "looking", use_remote |-> TRUE, remote_response |-> remote, sides |-> req[r].sides]
            BY <3>1, UseRemote, Zenon
        <3>2. /\ v.st = "looking" /\ v.use_remote = TRUE /\ v.remote_response = remote /\ v.sides = req[r].sides
              /\ v = [st |-> "looking", use_remote |-> v.use_remote, remote_response |-> v.remote_response, sides |-> v.sides]
            <4> HIDE DEF v
            <4> QED
                BY <3>a
        <3>3. "local" \in Chosen(r) /\ v.sides["local"].res # NoResult
              /\ ShouldForwardByResponse(acl, v.sides["local"].res, q) = "remote"
            BY <1>1, <1>2, <1>11, <3>2 DEF choice
        <3> HIDE DEF v
        <3> QED
            BY <3>1, <3>2, <3>3, Zenon DEF Lookup
    <2>2. req' = [req EXCEPT ![r] = v]
        BY <1>11
    <2> HIDE DEF v
    <2>3. RequestOK(acl, q, Chosen(r), v)
        BY <2>1 DEF RequestOK
    <2>4. RequestsOK' /\ req'[r] = v /\ \A s \in Requests : s # r => req'[s] = req[s]
        BY <1>0, <1>11, <2>2, <2>3, RequestChanges
    <2>5. \A t \in Requests : req'[t].st = req[t].st
        BY <1>1, <2>1, <2>4
    <2>6. CacheOK' /\ AskedOK' /\ OutShape'
        BY <1>0, <1>11, CacheStays, AskedStays DEF OutShape
    <2> QED
        BY <1>11, <2>4, <2>5, <2>6, LookupGoesOn
<1> QED
    BY <1>7, <1>8, <1>9, <1>10, <1>11, Zenon DEF LocalResponse, choice

LEMMA Starts ==
    ASSUME NEW r \in Requests
    PROVE  Lookup(acl, Query(r), Chosen(r),
                  [Waiting EXCEPT !.st = "looking", !.sides = [s \in Chosen(r) |-> Side(s)]])
<1> DEFINE v == [Waiting EXCEPT !.st = "looking", !.sides = [s \in Chosen(r) |-> Side(s)]]
           q == Query(r)
<1>1. /\ v.st = "looking" /\ v.use_remote = FALSE /\ v.remote_response = NoResult /\ v.sides = [s \in Chosen(r) |-> Side(s)]
      /\ v = [st |-> "looking", use_remote |-> v.use_remote, remote_response |-> v.remote_response, sides |-> v.sides]
    <2> DEFINE sides == [s \in Chosen(r) |-> Side(s)]
    <2> HIDE DEF sides
    <2>1. v = [st |-> "looking", use_remote |-> FALSE, remote_response |-> NoResult, sides |-> sides]
        <3>2. [Waiting EXCEPT !.st = "looking", !.sides = sides]
              = [st |-> "looking", use_remote |-> FALSE, remote_response |-> NoResult, sides |-> sides]
            BY StartFields, Zenon
        <3> QED
            BY <3>2, Zenon DEF v, sides
    <2> HIDE DEF v
    <2> QED
        BY <2>1 DEF sides
<1> HIDE DEF v
<1>2. ASSUME NEW s \in Chosen(r) PROVE v.sides[s] \in SideStates(s, q)
    <2>1. v.sides[s] = Side(s)
        BY <1>1
    <2>2. IdleLeg \in LegStates(s, q)
        BY DEF IdleLeg, LegStates
    <2>3. Protos(s) \subseteq AllProtos
        BY DEF Protos, AllProtos
    <2>4. [p \in Protos(s) |-> IdleLeg] \in LegMaps(s, q)
        BY <2>2, <2>3 DEF LegMaps
    <2> QED
        BY <2>1, <2>4 DEF Side, SideStates
<1>3. v.sides = [s \in Chosen(r) |-> v.sides[s]]
    BY <1>1
<1>4. v.use_remote \in BOOLEAN
    BY <1>1
<1> QED
    BY <1>1, <1>2, <1>3, <1>4, Zenon DEF Lookup, v

LEMMA RequestBegins ==
    ASSUME DnsInv, NEW r \in Requests, Begin(r)
    PROVE  Keeping
<1> DEFINE m == setup.requests[r]
           d == ShouldForwardByQuery(m.query)
           a == [r |-> r, id |-> m.id, from |-> "self",
                 code |-> IF m.kind = "empty" /\ m.rd THEN "NoError" ELSE "NotImp", q |-> m.query, local |-> NoResult]
<1>0. /\ setup \in Setups /\ RequestsOK /\ FrontOK /\ CacheOK /\ AskedOK /\ OutShape /\ SentOK /\ IsRoutes(rev)
    BY Zenon DEF DnsInv
<1>1. req[r].st = "waiting" /\ UNCHANGED <<setup, acl, cache, rev, asked>>
    BY DEF Begin
<1>2. setup.front = "tcp" => \A s \in 1..r - 1 : req[s].st = "done"
    BY DEF Begin, TcpReads, UdpReads
<1>3. req[r] = Waiting
    BY <1>0, <1>1, RequestStates
<1>4. CacheOK' /\ AskedOK' /\ setup' \in Setups /\ IsRoutes(rev)'
    BY <1>0, <1>1, CacheStays, AskedStays DEF IsRoutes
<1>5. setup.requests \in Seq(Range(setup.requests))
    BY <1>0, SetupFacts
<1>6. CASE NoAnswer(r)
    BY <1>1, <1>2, <1>6, Ends
<1>7. CASE req' = [req EXCEPT ![r].st = "done"] /\ out' = [out EXCEPT !.sent = Append(@, a)]
    <2>1. req' = [req EXCEPT ![r] = Done] /\ Done.st = "done"
        <3>1. req' = [req EXCEPT ![r] = [req[r] EXCEPT !.st = "done"]]
            BY <1>7
        <3> QED
            BY <1>3, <3>1 DEF Done, Waiting
    <2>2. RequestOK(acl, Query(r), Chosen(r), Done)
        BY DEF RequestOK
    <2>3. RequestsOK' /\ req'[r] = Done /\ \A s \in Requests : s # r => req'[s] = req[s]
        BY <1>0, <1>1, <2>1, <2>2, RequestChanges
    <2>4. ReplyOK(a) /\ a.r = r
        BY DEF ReplyOK, Query
    <2> HIDE DEF a
    <2>5. out'.sent = Append(out.sent, a) /\ out'.routes = out.routes /\ out'.forgotten = out.forgotten /\ OutShape'
        BY <1>0, <1>7 DEF OutShape
    <2>6. FrontOK'
        BY <1>0, <1>1, <1>2, <1>5, <2>1, <2>3, FrontStays
    <2>7. SentOK'
        BY <1>0, <1>1, <1>5, <2>1, <2>3, <2>4, <2>5, Sends
    <2>8. RouteInv => RouteInv'
        BY <1>1, <2>5, RoutesStay
    <2> QED
        BY <1>4, <2>3, <2>5, <2>6, <2>7, <2>8, Zenon DEF Keeping, DnsInv
<1>8. CASE req' = [req EXCEPT ![r].st = "looking", ![r].sides = [s \in IF d = "open" THEN Sides ELSE {d} |-> Side(s)]]
           /\ UNCHANGED out
    <2> DEFINE v == [Waiting EXCEPT !.st = "looking", !.sides = [s \in Chosen(r) |-> Side(s)]]
    <2>1. req' = [req EXCEPT ![r] = v]
        <3>1. req' = [req EXCEPT ![r] = [req[r] EXCEPT !.st = "looking", !.sides = [s \in IF d = "open" THEN Sides ELSE {d} |-> Side(s)]]]
            <4>1. DOMAIN req = Requests
                BY <1>0, Zenon DEF RequestsOK
            <4> QED
                BY <1>8, <4>1
        <3>2. (IF d = "open" THEN Sides ELSE {d}) = Chosen(r)
            BY DEF Chosen, Query
        <3> QED
            BY <1>3, <3>1, <3>2
    <2>2. v.st = "looking" /\ RequestOK(acl, Query(r), Chosen(r), v)
        BY Starts, LookupShape DEF RequestOK
    <2> HIDE DEF v
    <2>3. RequestsOK' /\ req'[r] = v /\ \A s \in Requests : s # r => req'[s] = req[s]
        BY <1>0, <1>1, <2>1, <2>2, RequestChanges
    <2>4. out' = out
        BY <1>8
    <2>5. FrontOK'
        BY <1>0, <1>1, <1>2, <1>5, <2>3, FrontStays
    <2>6. \A s \in Requests : req[s].st = "done" => req'[s].st = "done"
        BY <1>1, <2>3
    <2>7. SentOK'
        BY <1>0, <1>1, <2>4, <2>6, SentStays
    <2>8. RouteInv => RouteInv'
        BY <1>1, <2>4, RoutesStay
    <2>9. OutShape'
        BY <1>0, <2>4 DEF OutShape
    <2> QED
        BY <1>4, <2>3, <2>5, <2>7, <2>8, <2>9, Zenon DEF Keeping, DnsInv
<1> QED
    BY <1>6, <1>7, <1>8, Zenon DEF Begin

\* A leg of a lookup: idle or asked, and what its connection holds.
LEMMA LegShape ==
    ASSUME RequestsOK, NEW r \in Requests, NEW s, NEW p, Looking(r, s, p)
    PROVE  /\ Leg(r, s, p) \in LegStates(s, Query(r)) /\ s \in Chosen(r) /\ p \in AllProtos
           /\ req[r].sides[s] \in [attempt : Nat, res : {NoResult}, legs : LegMaps(s, Query(r))]
<1>0. req[r].st = "looking" /\ s \in DOMAIN req[r].sides /\ req[r].sides[s].res = NoResult /\ p \in DOMAIN req[r].sides[s].legs
    BY DEF Looking
<1>1. Lookup(acl, Query(r), Chosen(r), req[r]) /\ DOMAIN req[r].sides = Chosen(r)
    BY <1>0, RequestStates, LookupShape
<1>2. req[r].sides[s] \in SideStates(s, Query(r))
    BY <1>0, <1>1, Zenon DEF Lookup
<1>3. NoResult \notin Results(s, Query(r))
    BY DEF NoResult, Results, LookupFailed, ResultOf
<1>4. req[r].sides[s] \in [attempt : Nat, res : {NoResult}, legs : LegMaps(s, Query(r))]
    BY <1>0, <1>2, <1>3 DEF SideStates
<1>5. PICK P \in SUBSET AllProtos : req[r].sides[s].legs \in [P -> LegStates(s, Query(r))]
    BY <1>4 DEF LegMaps
<1>6. Leg(r, s, p) \in LegStates(s, Query(r)) /\ p \in AllProtos
    BY <1>0, <1>5 DEF Leg
<1> QED
    BY <1>0, <1>1, <1>4, <1>6

LEMMA Asks ==
    ASSUME DnsInv, NEW r \in Requests, NEW s, NEW p, Ask(r, s, p)
    PROVE  Keeping
<1> DEFINE q == KeptClients(s, p)
           live == {i \in DOMAIN q : Connected(q[i], p)}
           first == CHOOSE i \in live : \A j \in live : i <= j
           asking(c) == [st |-> "asked", client |-> [c EXCEPT !.pending = Append(@, Query(r))]]
           Use(c) == /\ req' = [req EXCEPT ![r].sides[s].legs[p] =
                                   [st |-> "asked", client |-> [c EXCEPT !.pending = Append(@, Query(r))]]]
                     /\ asked' = asked \cup {<<s, Query(r)>>}
           Err == req' = [req EXCEPT ![r].sides[s].legs[p].st = "err"] /\ UNCHANGED asked
<1>0. /\ setup \in Setups /\ RequestsOK /\ CacheOK /\ AskedOK /\ OutShape
    BY Zenon DEF DnsInv
<1>1. /\ Looking(r, s, p) /\ Leg(r, s, p).st = "idle" /\ UNCHANGED <<setup, acl, rev, out>>
      /\ IF live # {}
         THEN Use(q[first]) /\ cache' = [cache EXCEPT ![<<s, p>>] = SubSeq(q, first + 1, Len(q))]
         ELSE /\ cache' = IF q = <<>> THEN cache ELSE [cache EXCEPT ![<<s, p>>] = <<>>]
              /\ Use(Fresh) \/ Err
    BY Zenon DEF Ask
<1> HIDE DEF Use, Err
<1>2. s \in Chosen(r) /\ p \in AllProtos /\ Leg(r, s, p) \in LegStates(s, Query(r)) /\ s \in Sides
    BY <1>0, <1>1, LegShape, ChosenSides
<1>3. q \in Seq(QuietClients) /\ Len(q) <= Keeps /\ Keeps \in Nat
    <2>1. Keeps \in Nat /\ 0 <= Keeps
        BY <1>0, SetupFacts DEF Keeps
    <2>2. CASE <<s, p>> \in DOMAIN cache
        BY <1>0, <2>1, <2>2 DEF CacheOK, KeptClients
    <2>3. CASE <<s, p>> \notin DOMAIN cache
        BY <2>1, <2>3 DEF KeptClients
    <2> QED
        BY <2>2, <2>3
<1> HIDE DEF q
<1>4. ASSUME NEW c \in QuietClients PROVE asking(c) \in LegStates(s, Query(r))
    <2>1. [c EXCEPT !.pending = Append(@, Query(r))] \in AskedClients(s, Query(r))
        <3> DEFINE x == Query(r)
        <3>1. c.pending = <<>> /\ c.inbox = <<>> /\ c.lost \in BOOLEAN /\ DOMAIN c = {"pending", "inbox", "lost"}
            BY DEF QuietClients
        <3>2. Append(<<>>, x) = <<x>>
            OBVIOUS
        <3>3. [c EXCEPT !.pending = <<x>>] \in [pending : {<<x>>}, inbox : {<<>>}, lost : BOOLEAN]
            <4> DEFINE one == <<x>>
            <4> HIDE DEF one
            <4>1. [c EXCEPT !.pending = one] \in [pending : {one}, inbox : {<<>>}, lost : BOOLEAN]
                BY DEF QuietClients
            <4> QED
                BY <4>1 DEF one
        <3> QED
            BY <3>1, <3>2, <3>3, Zenon DEF AskedClients
    <2> QED
        BY <2>1 DEF LegStates
<1>5. ASSUME NEW c \in QuietClients, Use(c) PROVE RequestsOK' /\ (\A t \in Requests : req'[t].st = req[t].st) /\ AskedOK'
    <2>1. req' = [req EXCEPT ![r].sides[s].legs[p] = asking(c)] /\ asked' = asked \cup {<<s, Query(r)>>}
        BY <1>5 DEF Use
    <2>2. asking(c) \in LegStates(s, Query(r))
        BY <1>4
    <2> HIDE DEF asking
    <2>3. RequestsOK' /\ (\A t \in Requests : req'[t].st = req[t].st)
        BY <1>0, <1>1, <2>1, <2>2, LegChanges
    <2>4. AskedOK'
        <3> SUFFICES ASSUME NEW a \in asked' PROVE \E t \in Requests' : a[2] = Query(t)' /\ a[1] \in Chosen(t)'
            BY DEF AskedOK
        <3>1. \E t \in Requests : a[2] = Query(t) /\ a[1] \in Chosen(t)
            <4>1. CASE a \in asked
                BY <1>0, <4>1 DEF AskedOK
            <4>2. CASE a = <<s, Query(r)>>
                BY <1>2, <4>2
            <4> QED
                BY <2>1, <4>1, <4>2
        <3> QED
            BY <1>1, <3>1, Stays, Zenon
    <2> QED
        BY <2>3, <2>4
<1>6. Fresh \in QuietClients
    BY DEF Fresh, QuietClients
<1>7. ASSUME Err PROVE RequestsOK' /\ (\A t \in Requests : req'[t].st = req[t].st) /\ AskedOK'
    <2> DEFINE v == [Leg(r, s, p) EXCEPT !.st = "err"]
    <2>1. req' = [req EXCEPT ![r].sides[s].legs[p] = v] /\ asked' = asked
        BY <1>7 DEF Err, Leg
    <2>2. v \in LegStates(s, Query(r))
        BY <1>1, <1>2 DEF LegStates
    <2> HIDE DEF v
    <2> QED
        BY <1>0, <1>1, <2>1, <2>2, LegChanges, AskedStays
<1>8. CASE live # {}
    <2>1. \A i \in live : i \in Nat
        BY <1>3
    <2>2. first \in live
        <3>1. \E i \in live : \A j \in live : ~(j < i)
            BY <1>8, <2>1, LeastNatural
        <3>2. \E i \in live : \A j \in live : i <= j
            BY <2>1, <3>1
        <3> HIDE DEF live
        <3> QED
            BY <3>2, Zenon
    <2>3. first \in 1..Len(q) /\ q[first] \in QuietClients
        BY <1>3, <2>2
    <2> HIDE DEF first, live
    <2>4. Use(q[first]) /\ cache' = [cache EXCEPT ![<<s, p>>] = SubSeq(q, first + 1, Len(q))]
        BY <1>1, <1>8
    <2>5. SubSeq(q, first + 1, Len(q)) \in Seq(QuietClients) /\ Len(SubSeq(q, first + 1, Len(q))) <= Len(q)
        BY <1>3, <2>3
    <2>6. CacheOK'
        <3> DEFINE rest == SubSeq(q, first + 1, Len(q))
        <3> HIDE DEF rest
        <3>1. rest \in Seq(QuietClients) /\ Len(rest) <= Keeps
            BY <1>3, <2>5 DEF rest
        <3>2. Keeps' = Keeps
            BY <1>1 DEF Keeps
        <3>3. cache' = [cache EXCEPT ![<<s, p>>] = rest]
            BY <2>4 DEF rest
        <3> QED
            BY <1>0, <1>2, <3>1, <3>2, <3>3 DEF CacheOK
    <2>7. RequestsOK' /\ (\A t \in Requests : req'[t].st = req[t].st) /\ AskedOK'
        BY <1>5, <2>3, <2>4
    <2> QED
        BY <1>0, <1>1, <2>6, <2>7, LookupGoesOn DEF OutShape
<1>9. CASE live = {}
    <2> HIDE DEF live, first
    <2>1. CacheOK'
        <3>1. Keeps' = Keeps
            BY <1>1 DEF Keeps
        <3>2. <<>> \in Seq(QuietClients) /\ Len(<<>>) <= Keeps
            BY <1>3
        <3>3. cache' = cache \/ cache' = [cache EXCEPT ![<<s, p>>] = <<>>]
            BY <1>1, <1>9
        <3> QED
            BY <1>0, <1>2, <3>1, <3>2, <3>3 DEF CacheOK
    <2>2. RequestsOK' /\ (\A t \in Requests : req'[t].st = req[t].st) /\ AskedOK'
        BY <1>1, <1>5, <1>6, <1>7, <1>9
    <2> QED
        BY <1>0, <1>1, <2>1, <2>2, LookupGoesOn DEF OutShape
<1> QED
    BY <1>8, <1>9

LEMMA Upstream ==
    ASSUME DnsInv, UpstreamAnswers
    PROVE  Keeping
<1>0. /\ setup \in Setups /\ RequestsOK /\ CacheOK /\ AskedOK /\ OutShape
    BY Zenon DEF DnsInv
<1>1. UNCHANGED <<setup, acl, rev, asked, out>>
    BY DEF UpstreamAnswers
<1>2. ASSUME NEW k \in DOMAIN cache, NEW i \in DOMAIN cache[k], cache[k][i].pending # <<>> PROVE FALSE
    <2>1. cache[k] \in Seq(QuietClients)
        BY <1>0 DEF CacheOK
    <2>2. cache[k][i] \in QuietClients
        BY <2>1
    <2> QED
        BY <1>2, <2>2 DEF QuietClients
<1>3. PICK r \in Requests, s \in Sides, p \in AllProtos :
          /\ Looking(r, s, p) /\ Leg(r, s, p).client.pending # <<>>
          /\ req' = [req EXCEPT ![r].sides[s].legs[p].client = AnsweredBy(@, s)]
          /\ UNCHANGED cache
    BY <1>2, Zenon DEF UpstreamAnswers, AllProtos
<1> DEFINE q == Query(r)
           leg == Leg(r, s, p)
           c == leg.client
           v == [leg EXCEPT !.client = AnsweredBy(c, s)]
<1>4. leg \in LegStates(s, q)
    BY <1>0, <1>3, LegShape
<1>5. leg.st = "asked" /\ c \in AskedClients(s, q) /\ c.pending # <<>>
    BY <1>3, <1>4 DEF LegStates, Fresh
<1> HIDE DEF leg
<1>6. c.pending = <<q>> /\ c.inbox = <<>> /\ c.lost \in BOOLEAN /\ c \in [pending : {<<q>>}, inbox : {<<>>}, lost : BOOLEAN]
    BY <1>5 DEF AskedClients
<1>7. AnsweredBy(c, s) \in AskedClients(s, q)
    <2> HIDE DEF c, q
    <2>1. Head(c.pending) = q /\ Tail(c.pending) = <<>>
        BY <1>6
    <2>2. AnsweredBy(c, s) = [c EXCEPT !.pending = <<>>, !.inbox = Append(<<>>, ResultOf(s, q))]
        BY <1>6, <2>1 DEF AnsweredBy, ResultOf
    <2>3. Append(<<>>, ResultOf(s, q)) = <<ResultOf(s, q)>>
        OBVIOUS
    <2> DEFINE one == <<ResultOf(s, q)>>
               none == <<>>
    <2>4. AnsweredBy(c, s) = [c EXCEPT !.pending = none, !.inbox = one]
        BY <2>2, <2>3
    <2> HIDE DEF one, none
    <2>5. [c EXCEPT !.pending = none, !.inbox = one] \in [pending : {none}, inbox : {one}, lost : BOOLEAN]
        BY <1>6
    <2> QED
        BY <2>4, <2>5, Zenon DEF AskedClients, one, none
<1>8. v \in LegStates(s, q)
    <2> HIDE DEF c, q
    <2>1. v \in [st : {"asked"}, client : AskedClients(s, q)]
        BY <1>4, <1>5, <1>7 DEF LegStates
    <2> QED
        BY <2>1 DEF LegStates
<1>9. req' = [req EXCEPT ![r].sides[s].legs[p] = v]
    BY <1>3 DEF leg, Leg
<1> HIDE DEF v
<1>10. RequestsOK' /\ (\A t \in Requests : req'[t].st = req[t].st)
    BY <1>0, <1>1, <1>3, <1>8, <1>9, LegChanges
<1>11. CacheOK' /\ AskedOK'
    BY <1>0, <1>1, <1>3, CacheStays, AskedStays
<1> QED
    BY <1>0, <1>1, <1>10, <1>11, LookupGoesOn DEF OutShape

LEMMA Closes ==
    ASSUME DnsInv, UpstreamCloses
    PROVE  Keeping
<1>0. /\ setup \in Setups /\ RequestsOK /\ CacheOK /\ AskedOK /\ OutShape
    BY Zenon DEF DnsInv
<1>1. UNCHANGED <<setup, acl, req, rev, asked>> /\ out' = [out EXCEPT !.losses = @ + 1]
    BY DEF UpstreamCloses
<1>a. PICK k \in DOMAIN cache : \E i \in DOMAIN cache[k] : cache' = [cache EXCEPT ![k][i].lost = TRUE]
    BY DEF UpstreamCloses
<1>2. PICK i \in DOMAIN cache[k] : cache' = [cache EXCEPT ![k][i].lost = TRUE]
    BY <1>a
<1> DEFINE q == cache[k]
           c == [q[i] EXCEPT !.lost = TRUE]
           new == [q EXCEPT ![i] = c]
<1>3. q \in Seq(QuietClients) /\ Len(q) <= Keeps
    BY <1>0 DEF CacheOK
<1> HIDE DEF q
<1>4. c \in QuietClients
    <2>1. q[i] \in QuietClients
        BY <1>2, <1>3 DEF q
    <2>2. ASSUME NEW d \in QuietClients, NEW b \in BOOLEAN PROVE [d EXCEPT !.lost = b] \in QuietClients
        BY DEF QuietClients
    <2> QED
        BY <2>1, <2>2, Zenon
<1>5. cache' = [cache EXCEPT ![k] = new]
    BY <1>2 DEF q
<1> HIDE DEF c
<1>6. new \in Seq(QuietClients) /\ Len(new) = Len(q)
    BY <1>2, <1>3, <1>4 DEF q
<1> HIDE DEF new
<1>7. CacheOK'
    <2>1. Keeps' = Keeps
        BY <1>1 DEF Keeps
    <2>2. new \in Seq(QuietClients) /\ Len(new) <= Keeps
        BY <1>3, <1>6
    <2> QED
        BY <1>0, <1>5, <2>1, <2>2 DEF CacheOK
<1>8. OutShape' /\ out'.sent = out.sent /\ out'.routes = out.routes /\ out'.forgotten = out.forgotten
    BY <1>0, <1>1 DEF OutShape
<1>9. RequestsOK' /\ AskedOK'
    <2>1. Requests' = Requests /\ \A r : Query(r)' = Query(r) /\ Chosen(r)' = Chosen(r)
        BY <1>1, Stays
    <2>2. RequestsOK'
        BY <1>0, <1>1, <2>1, Zenon DEF RequestsOK
    <2> QED
        BY <1>0, <1>1, <2>2, AskedStays
<1> QED
    BY <1>0, <1>1, <1>7, <1>8, <1>9, LookupGoesOn

LEMMA Receives ==
    ASSUME DnsInv, NEW r \in Requests, NEW s \in Sides, NEW p, ReceiveAnswer(r, s, p)
    PROVE  Keeping
<1> DEFINE leg == Leg(r, s, p)
           c == leg.client
           k == <<s, p>>
           kept == [c EXCEPT !.inbox = Tail(@)]
           saved == SaveClient(k, kept)
           old == req[r].sides[s]
           v == [old EXCEPT !.res = Head(c.inbox), !.legs = <<>>]
           q == Query(r)
<1>0. /\ setup \in Setups /\ RequestsOK /\ CacheOK /\ AskedOK /\ OutShape
    BY Zenon DEF DnsInv
<1>1. /\ Looking(r, s, p) /\ leg.st = "asked" /\ c.inbox # <<>> /\ UNCHANGED <<setup, acl, rev, asked, out>>
      /\ cache' = IF p = "unix" THEN cache ELSE [x \in DOMAIN cache \cup {k} |-> IF x = k THEN saved ELSE cache[x]]
    BY DEF ReceiveAnswer
<1>2. req' = [req EXCEPT ![r].sides[s].res = Head(c.inbox), ![r].sides[s].legs = <<>>]
    BY DEF ReceiveAnswer
<1>3. leg \in LegStates(s, q) /\ old \in [attempt : Nat, res : {NoResult}, legs : LegMaps(s, q)]
    BY <1>0, <1>1, LegShape
<1>4. c \in [pending : {<<>>}, inbox : {<<ResultOf(s, q)>>}, lost : BOOLEAN]
    <2>1. c \in AskedClients(s, q)
        BY <1>1, <1>3 DEF LegStates
    <2> QED
        BY <1>1, <2>1 DEF AskedClients
<1>5. Head(c.inbox) = ResultOf(s, q) /\ Tail(c.inbox) = <<>>
    <2> HIDE DEF c
    <2>1. c.inbox = <<ResultOf(s, q)>>
        BY <1>4
    <2>2. \A x : Head(<<x>>) = x /\ Tail(<<x>>) = <<>>
        OBVIOUS
    <2> QED
        BY <2>1, <2>2, Zenon
<1>6. kept \in QuietClients
    BY <1>4, <1>5 DEF QuietClients
<1> HIDE DEF kept
<1>7. CacheOK'
    <2>1. Keeps' = Keeps /\ Keeps \in Nat /\ 1 <= Keeps /\ setup.kept \in Nat
        BY <1>0, <1>1, SetupFacts DEF Keeps
    <2>2. saved \in Seq(QuietClients) /\ Len(saved) <= Keeps
        <3>1. CASE k \notin DOMAIN cache
            BY <1>6, <2>1, <3>1 DEF SaveClient
        <3>2. CASE k \in DOMAIN cache
            <4>1. cache[k] \in Seq(QuietClients) /\ Len(cache[k]) <= Keeps
                BY <1>0, <3>2 DEF CacheOK
            <4> DEFINE longer == Append(cache[k], kept)
            <4>2. longer \in Seq(QuietClients) /\ Len(longer) = Len(cache[k]) + 1 /\ Len(cache[k]) \in Nat
                BY <1>6, <4>1
            <4>3. saved = IF Len(longer) > setup.kept THEN Tail(longer) ELSE longer
                BY <3>2 DEF SaveClient
            <4> HIDE DEF longer, saved
            <4>4. Tail(longer) \in Seq(QuietClients) /\ Len(Tail(longer)) = Len(longer) - 1
                BY <4>2
            <4> QED
                BY <2>1, <4>1, <4>2, <4>3, <4>4 DEF Keeps
        <3> QED
            BY <3>1, <3>2
    <2> HIDE DEF saved, k
    <2>3. CASE p = "unix"
        BY <1>0, <1>1, <2>3, CacheStays
    <2>4. CASE p # "unix"
        <3>1. \A x \in DOMAIN cache' : x[1] \in Sides
            BY <1>0, <1>1, <2>4 DEF CacheOK, k
        <3>2. \A x \in DOMAIN cache' : cache'[x] = saved \/ (x \in DOMAIN cache /\ cache'[x] = cache[x])
            BY <1>1, <2>4
        <3>3. ASSUME NEW x \in DOMAIN cache' PROVE cache'[x] \in Seq(QuietClients) /\ Len(cache'[x]) <= Keeps
            BY <1>0, <2>2, <3>2, Zenon DEF CacheOK
        <3> QED
            BY <2>1, <3>1, <3>3, Zenon DEF CacheOK
    <2> QED
        BY <2>3, <2>4
<1>8. v \in SideStates(s, q)
    <2> HIDE DEF old, q
    <2>1. v = [old EXCEPT !.res = ResultOf(s, q), !.legs = <<>>]
        BY <1>5
    <2> HIDE DEF v
    <2>2. v \in [attempt : Nat, res : Results(s, q), legs : {<<>>}]
        <3> DEFINE none == <<>>
                   res == ResultOf(s, q)
        <3>1. v = [old EXCEPT !.res = res, !.legs = none] /\ res \in Results(s, q)
            BY <2>1 DEF Results
        <3> HIDE DEF none, res
        <3>2. v \in [attempt : Nat, res : Results(s, q), legs : {none}]
            BY <1>3, <3>1
        <3> QED
            BY <3>2 DEF none
    <2> QED
        BY <2>2 DEF SideStates
<1>9. req' = [req EXCEPT ![r].sides[s] = v]
    <2>1. r \in DOMAIN req
        BY <1>0, Zenon DEF RequestsOK
    <2>2. "sides" \in DOMAIN req[r] /\ s \in DOMAIN req[r].sides
        <3>1. req[r].st = "looking" /\ s \in DOMAIN req[r].sides
            BY <1>1 DEF Looking
        <3> QED
            BY <1>0, <3>1, RequestStates, LookupShape
    <2> DEFINE head == Head(c.inbox)
    <2> HIDE DEF head
    <2>3. req' = [req EXCEPT ![r].sides[s].res = head, ![r].sides[s].legs = <<>>]
        BY <1>2 DEF head
    <2>4. v = [old EXCEPT !.res = head, !.legs = <<>>]
        BY DEF head
    <2> HIDE DEF v
    <2> QED
        BY <2>1, <2>2, <2>3, <2>4
<1> HIDE DEF v
<1>10. RequestsOK' /\ (\A t \in Requests : req'[t].st = req[t].st)
    BY <1>0, <1>1, <1>8, <1>9, SideChanges DEF Looking
<1>11. AskedOK'
    BY <1>0, <1>1, AskedStays
<1> QED
    BY <1>0, <1>1, <1>7, <1>10, <1>11, LookupGoesOn DEF OutShape

LEMMA Fails ==
    ASSUME DnsInv, NEW r \in Requests, NEW s, NEW p, LookupFails(r, s, p)
    PROVE  Keeping
<1> DEFINE v == [IdleLeg EXCEPT !.st = "err"]
<1>0. /\ setup \in Setups /\ RequestsOK /\ CacheOK /\ AskedOK /\ OutShape
    BY Zenon DEF DnsInv
<1>1. Looking(r, s, p) /\ req' = [req EXCEPT ![r].sides[s].legs[p] = v] /\ UNCHANGED <<setup, acl, cache, rev, asked, out>>
    BY DEF LookupFails
<1>2. v \in LegStates(s, Query(r))
    BY DEF IdleLeg, LegStates
<1> HIDE DEF v
<1>3. RequestsOK' /\ (\A t \in Requests : req'[t].st = req[t].st)
    BY <1>0, <1>1, <1>2, LegChanges
<1>4. CacheOK' /\ AskedOK'
    BY <1>0, <1>1, CacheStays, AskedStays
<1> QED
    BY <1>0, <1>1, <1>3, <1>4, LookupGoesOn DEF OutShape

LEMMA Retries ==
    ASSUME DnsInv, NEW r \in Requests, NEW s, Retry(r, s)
    PROVE  Keeping
<1> DEFINE side == req[r].sides[s]
           again == [Side(s) EXCEPT !.attempt = side.attempt + 1]
           failed == [side EXCEPT !.res = LookupFailed, !.legs = <<>>]
           v == IF side.attempt < Attempts THEN again ELSE failed
           q == Query(r)
<1>0. /\ setup \in Setups /\ RequestsOK /\ CacheOK /\ AskedOK /\ OutShape
    BY Zenon DEF DnsInv
<1>1. /\ req[r].st = "looking" /\ s \in DOMAIN req[r].sides /\ side.res = NoResult
      /\ req' = [req EXCEPT ![r].sides[s] = v] /\ UNCHANGED <<setup, acl, cache, rev, asked, out>>
    BY DEF Retry
<1>2. side \in [attempt : Nat, res : {NoResult}, legs : LegMaps(s, q)]
    <2>1. Lookup(acl, q, Chosen(r), req[r]) /\ DOMAIN req[r].sides = Chosen(r)
        BY <1>0, <1>1, RequestStates, LookupShape
    <2>2. side \in SideStates(s, q)
        BY <1>1, <2>1, Zenon DEF Lookup
    <2>3. NoResult \notin Results(s, q)
        BY DEF NoResult, Results, LookupFailed, ResultOf
    <2> QED
        BY <1>1, <2>2, <2>3 DEF SideStates
<1> HIDE DEF side
<1>3. again \in SideStates(s, q)
    <2>1. IdleLeg \in LegStates(s, q)
        BY DEF IdleLeg, LegStates
    <2>2. Protos(s) \subseteq AllProtos
        BY DEF Protos, AllProtos
    <2> DEFINE legs == [p \in Protos(s) |-> IdleLeg]
    <2>3. legs \in LegMaps(s, q)
        BY <2>1, <2>2 DEF LegMaps
    <2> HIDE DEF legs
    <2>4. again = [attempt |-> side.attempt + 1, res |-> NoResult, legs |-> legs]
        BY DEF Side, legs
    <2>5. side.attempt + 1 \in Nat
        BY <1>2
    <2> HIDE DEF again
    <2> QED
        BY <2>3, <2>4, <2>5 DEF SideStates
<1>4. failed \in SideStates(s, q)
    <2> DEFINE none == <<>>
               res == LookupFailed
    <2>1. failed = [side EXCEPT !.res = res, !.legs = none] /\ res \in Results(s, q)
        BY DEF Results
    <2> HIDE DEF none, res, failed
    <2>2. failed \in [attempt : Nat, res : Results(s, q), legs : {none}]
        BY <1>2, <2>1
    <2> QED
        BY <2>2 DEF SideStates, none
<1> HIDE DEF again, failed
<1>5. v \in SideStates(s, q)
    BY <1>3, <1>4
<1> HIDE DEF v
<1>6. RequestsOK' /\ (\A t \in Requests : req'[t].st = req[t].st)
    BY <1>0, <1>1, <1>5, SideChanges DEF side
<1>7. CacheOK' /\ AskedOK'
    BY <1>0, <1>1, CacheStays, AskedStays
<1> QED
    BY <1>0, <1>1, <1>6, <1>7, LookupGoesOn DEF OutShape

\* The steps of the reverse lookup cache.
LEMMA RoutesGo ==
    ASSUME DnsInv, RouteUsed \/ RouteExpires
    PROVE  Keeping
<1>0. /\ setup \in Setups /\ RequestsOK /\ FrontOK /\ CacheOK /\ AskedOK /\ OutShape /\ SentOK /\ IsRoutes(rev)
    BY Zenon DEF DnsInv
<1>1. UNCHANGED <<setup, acl, req, cache, asked>> /\ out'.sent = out.sent /\ OutShape'
    BY <1>0 DEF RouteUsed, RouteExpires, OutShape
<1>2. setup.capacity \in Nat \ {0} /\ setup.capacity \in Nat
    BY <1>0, SetupFacts
<1>3. IsRoutes(rev)' /\ (RouteInv => RouteInv')
    BY <1>0, <1>2, RouteIsUsed, RouteIsDropped
<1>4. Requests' = Requests /\ \A r : Query(r)' = Query(r) /\ Chosen(r)' = Chosen(r)
    BY <1>1, Stays
<1>5. RequestsOK'
    BY <1>0, <1>1, <1>4, Zenon DEF RequestsOK
<1>6. FrontOK'
    BY <1>0, <1>1, <1>4 DEF FrontOK
<1>7. CacheOK' /\ AskedOK'
    BY <1>0, <1>1, CacheStays, AskedStays
<1>8. SentOK'
    BY <1>0, <1>1, SentStays
<1>9. setup' \in Setups
    BY <1>0, <1>1
<1> QED
    BY <1>1, <1>3, <1>5, <1>6, <1>7, <1>8, <1>9, Zenon DEF Keeping, DnsInv

LEMMA DnsStarts == DnsInit => DnsInv /\ RouteInv
<1> SUFFICES ASSUME DnsInit PROVE DnsInv /\ RouteInv
    OBVIOUS
<1>1. /\ setup \in Setups /\ req = [r \in Requests |-> Waiting] /\ cache = <<>> /\ rev = <<>> /\ asked = {}
      /\ out = [sent |-> <<>>, closed |-> FALSE, losses |-> 0, routes |-> <<>>, forgotten |-> {}]
    BY DEF DnsInit
<1>2. RequestsOK
    BY <1>1 DEF RequestsOK, RequestOK
<1>3. FrontOK
    BY <1>1 DEF FrontOK, Waiting
<1>4. CacheOK /\ AskedOK
    BY <1>1 DEF CacheOK, AskedOK
<1>5. OutShape /\ out.sent = <<>> /\ out.routes = <<>>
    BY <1>1 DEF OutShape
<1>6. IsSeq(<<>>)
    BY DEF IsSeq
<1>7. SentOK
    BY <1>5, <1>6 DEF SentOK
<1>8. IsRoutes(rev)
    BY <1>1, <1>6, SetupFacts DEF IsRoutes
<1>9. RouteInv
    BY <1>5 DEF RouteInv
<1> QED
    BY <1>1, <1>2, <1>3, <1>4, <1>5, <1>7, <1>8, <1>9 DEF DnsInv

LEMMA DnsSteps == DnsInv /\ [DnsNext]_dnsVars => Keeping
<1> SUFFICES ASSUME DnsInv, [DnsNext]_dnsVars PROVE Keeping
    OBVIOUS
<1>1. ASSUME NEW r \in Requests, Begin(r) PROVE Keeping
    BY <1>1, RequestBegins
<1>2. ASSUME NEW r \in Requests, RemoteResponse(r) PROVE Keeping
    BY <1>2, RemoteResponds
<1>3. ASSUME NEW r \in Requests, LocalResponse(r) PROVE Keeping
    BY <1>3, LocalResponds
<1>4. ASSUME NEW r \in Requests, NEW s \in Sides, Retry(r, s) PROVE Keeping
    BY <1>4, Retries
<1>5. ASSUME NEW r \in Requests, NEW s \in Sides, NEW p, Ask(r, s, p) PROVE Keeping
    BY <1>5, Asks
<1>6. ASSUME NEW r \in Requests, NEW s \in Sides, NEW p, ReceiveAnswer(r, s, p) PROVE Keeping
    BY <1>6, Receives
<1>7. ASSUME NEW r \in Requests, NEW s \in Sides, NEW p, LookupFails(r, s, p) PROVE Keeping
    BY <1>7, Fails
<1>8. CASE UpstreamAnswers
    BY <1>8, Upstream
<1>9. CASE UpstreamCloses
    BY <1>9, Closes
<1>10. CASE RouteUsed \/ RouteExpires
    BY <1>10, RoutesGo
<1>11. CASE UNCHANGED dnsVars
    <2>0. /\ setup \in Setups /\ RequestsOK /\ CacheOK /\ AskedOK /\ OutShape
        BY Zenon DEF DnsInv
    <2>1. UNCHANGED <<setup, acl, req, cache, rev, asked, out>>
        BY <1>11 DEF dnsVars
    <2>2. Requests' = Requests /\ \A r : Query(r)' = Query(r) /\ Chosen(r)' = Chosen(r)
        BY <2>1, Stays
    <2>3. RequestsOK'
        BY <2>0, <2>1, <2>2, Zenon DEF RequestsOK
    <2>4. CacheOK' /\ AskedOK' /\ OutShape'
        BY <2>0, <2>1, CacheStays, AskedStays DEF OutShape
    <2> QED
        BY <2>1, <2>3, <2>4, LookupGoesOn
<1> QED
    BY <1>1, <1>2, <1>3, <1>4, <1>5, <1>6, <1>7, <1>8, <1>9, <1>10, <1>11, Zenon DEF DnsNext

-----------------------------------------------------------------------------
LEMMA RepliesAreRight == DnsInv => AnswersTheQuestion
<1> SUFFICES ASSUME DnsInv PROVE AnswersTheQuestion
    OBVIOUS
<1>0. /\ setup \in Setups /\ RequestsOK /\ CacheOK /\ SentOK /\ IsRoutes(rev)
    BY Zenon DEF DnsInv
<1>1. \A r \in Requests : req[r].st \in {"waiting", "looking", "done"}
    BY <1>0, RequestStates
<1>2. \A k \in DOMAIN cache : k[1] \in Sides /\ Len(cache[k]) <= IF setup.kept = 0 THEN 1 ELSE setup.kept
    BY <1>0, Zenon DEF CacheOK, Keeps
<1>3. Len(rev) <= setup.capacity
    BY <1>0, Zenon DEF IsRoutes
<1>4. DnsTypeOK
    BY <1>0, <1>1, <1>2, <1>3, Zenon DEF DnsTypeOK
<1>5. \A i \in DOMAIN out.sent : out.sent[i].q = Query(out.sent[i].r) /\ out.sent[i].id = setup.requests[out.sent[i].r].id
    BY <1>0, Zenon DEF SentOK, ReplyOK
<1>6. \A i, j \in DOMAIN out.sent : i < j =>
          out.sent[i].r # out.sent[j].r /\ (setup.front = "tcp" => out.sent[i].r < out.sent[j].r)
    BY <1>0, Zenon DEF SentOK
<1> QED
    BY <1>4, <1>5, <1>6, Zenon DEF AnswersTheQuestion

LEMMA NamesAreKept == AskedOK => NamesDoNotLeak
<1> SUFFICES ASSUME AskedOK, NEW a \in asked
             PROVE  LET name == Lower(a[2].name)
                        listed == CheckAsciiHostInProxyList(acl, name)
                        plain == setup.acl /\ a[2].class = "IN" /\ a[2].type # "PTR" /\ a[2].fqdn
                    IN  /\ plain /\ listed = "proxy" /\ setup.balancer /\ name \notin setup.servers => a[1] = "remote"
                        /\ plain /\ listed = "bypass" => a[1] = "local"
                        /\ name \in setup.servers => a[1] = "local"
    BY Zenon DEF NamesDoNotLeak
<1>1. PICK r \in Requests : a[2] = Query(r) /\ a[1] \in Chosen(r)
    BY DEF AskedOK
<1> DEFINE q == Query(r)
           d == ShouldForwardByQuery(q)
           name == Lower(q.name)
           listed == CheckAsciiHostInProxyList(acl, name)
           plain == setup.acl /\ q.class = "IN" /\ q.type # "PTR" /\ q.fqdn
<1>2. (d # "open" => a[1] = d)
    BY <1>1 DEF Chosen
<1>3. name \in setup.servers => d = "local"
    BY DEF ShouldForwardByQuery
<1>4. ASSUME plain, listed \in {"proxy", "bypass"}, setup.balancer, name \notin setup.servers
      PROVE  d = IF listed = "proxy" THEN "remote" ELSE "local"
    <2>1. CheckNameInProxyList(acl, q.name, q.fqdn) = listed
        BY <1>4, Zenon DEF CheckNameInProxyList
    <2> HIDE DEF listed, q, name
    <2>2. CheckNameInProxyList(acl, q.name, q.fqdn) # "none"
        BY <1>4, <2>1
    <2>3. d = IF CheckNameInProxyList(acl, q.name, q.fqdn) = "none" THEN "open"
              ELSE IF CheckNameInProxyList(acl, q.name, q.fqdn) = "proxy" THEN "remote" ELSE "local"
        BY <1>4, <2>2 DEF ShouldForwardByQuery, name
    <2> QED
        BY <2>1, <2>2, <2>3
<1>5. ~setup.balancer => d = "local"
    BY DEF ShouldForwardByQuery
<1> HIDE DEF d, name, listed
<1>6. /\ plain /\ listed = "proxy" /\ setup.balancer /\ name \notin setup.servers => a[1] = "remote"
      /\ plain /\ listed = "bypass" => a[1] = "local"
      /\ name \in setup.servers => a[1] = "local"
    BY <1>2, <1>3, <1>4, <1>5
<1> QED
    BY <1>1, <1>6 DEF name, listed

LEMMA ChoicesAreTheLists == SentOK => ChoiceIsTheLists
    BY Zenon DEF SentOK, ReplyOK, ChoiceIsTheLists

\* A client of the DNS relay gets, once and with its own id, the answer to what it
\* asked (acl_lookup, lookup_remote, lookup_local, DnsTcpServer): a connection
\* that is used again has nothing outstanding on it.
THEOREM AnswersAreToTheQuestion == DnsSpec => []AnswersTheQuestion
<1>1. DnsInit => DnsInv
    BY DnsStarts
<1>2. DnsInv /\ [DnsNext]_dnsVars => DnsInv'
    BY DnsSteps DEF Keeping
<1>3. DnsInv => AnswersTheQuestion
    BY RepliesAreRight
<1> QED
    BY <1>1, <1>2, <1>3, PTL DEF DnsSpec

\* The list decides where a name is asked for, which answer is used and how the
\* addresses of the answer are reached, if the reverse lookup cache has room for
\* all the addresses of one answer (ShouldForwardByQuery, acl_lookup,
\* add_to_reverse_lookup_cache, check_target_bypassed).
THEOREM TheListsDecide == ASSUME AnswersFit PROVE DnsSpec => []ListsDecide
<1> DEFINE Kept == DnsInv /\ RouteInv
<1>1. DnsInit => Kept
    BY DnsStarts
<1>2. Kept /\ [DnsNext]_dnsVars => Kept'
    BY DnsSteps DEF Keeping
<1>3. Kept => ListsDecide
    BY RoutesAreFollowed, NamesAreKept, ChoicesAreTheLists DEF ListsDecide, DnsInv
<1> QED
    BY <1>1, <1>2, <1>3, PTL DEF DnsSpec
=============================================================================
