------------------------------ MODULE Manager -------------------------------
(***************************************************************************)
(* ssmanager: it starts and stops servers by port as datagrams ask it to.  *)
(* Built-in servers are tasks of its own; standalone ones are daemons that *)
(* it knows by a configuration file and a pid file, and that outlive it.   *)
(***************************************************************************)
EXTENDS Naturals, Sequences, SequencesExt, FiniteSets, Functions

CONSTANTS
    Confs,        \* server_mode, default method and mode of the manager
    Commands,     \* what clients send
    MaxRequests, MaxServers, MaxRestarts    \* bounds

VARIABLES
    conf,
    servers,   \* servers: port -> [cfg, id, flow]
    run,       \* the tasks or processes started so far: [port, cfg, state, parts]
    files,     \* config: port -> contents; pid: port -> process
    net,       \* datagrams to the manager
    log        \* history: requests sent, answers, ports removed, restarts; late: daemons
               \* that had no pid file yet when their port was cleared; unmarked: daemons
               \* that could not make one; stuck: ports whose files were not cleared

managerVars == <<conf, servers, run, files, net, log>>

Standalone == conf.server_mode = "standalone"
NoParam == [kind |-> "none"]

(* The manager's run: builds it with no servers of its own.                *)
ManagerInit ==
    /\ conf \in Confs
    /\ servers = <<>>
    /\ run = <<>>
    /\ files = [config |-> <<>>, pid |-> <<>>]
    /\ net = {}
    /\ log = [sent |-> 0, answers |-> {}, removed |-> {}, late |-> {}, unmarked |-> {},
              stuck |-> {}, restarts |-> 0]

----------------------------------------------------------------------------
(* The protocol: a command, perhaps a colon and a parameter, a newline.    *)

ToBytes(req) == [cmd |-> <<req.cmd, "\n">>, colon |-> req.param # NoParam, param |-> req.param]

Trim(text) == SelectSeq(text, LAMBDA w : w # "\n")

(* ManagerRequest::from_bytes                                              *)
FromBytes(bytes) ==
    LET cmd == Trim(bytes.cmd)
    IN  CASE cmd \in {<<"add">>, <<"remove">>, <<"stat">>} ->
                 IF ~bytes.colon THEN [err |-> "MissingParameter"]
                 ELSE IF bytes.param.kind # cmd[1] THEN [err |-> "JsonError"]
                 ELSE [err |-> "ok", cmd |-> cmd[1], param |-> bytes.param]
          [] cmd \in {<<"list">>, <<"ping">>} ->
                 IF bytes.colon THEN [err |-> "RedundantParameter"]
                 ELSE [err |-> "ok", cmd |-> cmd[1], param |-> NoParam]
          [] OTHER -> [err |-> "UnrecognizedCommand"]

(* ManagerClient: request and stat.                                        *)
ClientSends(req) ==
    /\ log.sent < MaxRequests
    /\ net' = net \cup {ToBytes(req)}
    /\ log' = [log EXCEPT !.sent = @ + 1]
    /\ UNCHANGED <<conf, servers, run, files>>

----------------------------------------------------------------------------
(* A server: its plugin, TCP and UDP parts, built in this order.           *)

Parts(cfg) ==
    (IF cfg.plugin = "none" THEN {} ELSE {"plugin"})
    \cup (IF cfg.mode \in {"TcpOnly", "TcpAndUdp"} THEN {"tcp"} ELSE {})
    \cup (IF cfg.mode \in {"UdpOnly", "TcpAndUdp"} THEN {"udp"} ELSE {})

Running(id) == run[id].state = "running"
OnPort(port) == {id \in DOMAIN run : run[id].port = port /\ run[id].state \in {"running", "stopping"}}

(* Mutant: a part that cannot be built is left out. *)
BuildWhatYouCan(cfg) == (SUBSET Parts(cfg)) \ {{}}

(* ServerBuilder::build: with every part, or the parts built are dropped.  *)
Build(cfg) == {Parts(cfg), {}}

(* A task or daemon; one that is told to end, and one that has: its parts  *)
(* are dropped.                                                            *)
Process(port, cfg, state, parts) == [port |-> port, cfg |-> cfg, state |-> state, parts |-> parts]
Stopping(r) == Process(r.port, r.cfg, "stopping", r.parts)
Dead(r) == Process(r.port, r.cfg, "dead", {})

(* Server::run: whichever part ends first ends the server.                 *)
PartEnds(id) ==
    /\ Running(id)
    /\ run' = [run EXCEPT ![id] = Dead(@)]
    /\ UNCHANGED <<conf, servers, files, net, log>>

----------------------------------------------------------------------------
(* add                                                                     *)

(* handle_add: the request's settings over the manager's, or what is wrong *)
(* with them.                                                              *)
AddError(p) == p.method = "bad" \/ (p.plugin # "none" /\ p.plugin_mode = "bad") \/ p.mode = "bad" \/ p.users = "bad"

AddConfig(p) ==
    [method |-> IF p.method = "none" THEN conf.method ELSE p.method,
     plugin |-> IF p.plugin = "none" THEN conf.plugin ELSE p.plugin,
     mode   |-> IF p.mode = "none" THEN conf.mode ELSE p.mode,
     users  |-> p.users]

Without(f, k) == Restrict(f, DOMAIN f \ {k})
With(f, k, v) == [x \in DOMAIN f \cup {k} |-> IF x = k THEN v ELSE f[x]]

(* Mutant: dropping an instance leaves its server running. *)
DropOnly(port) == run

(* Drop for ServerInstance: the task is aborted, which takes a while.      *)
Aborted(port) ==
    IF port \in DOMAIN servers /\ servers[port].id > 0 /\ Running(servers[port].id)
    THEN [run EXCEPT ![servers[port].id] = Stopping(@)] ELSE run

(* add_server_builtin: the old server goes first; whether it has freed its *)
(* port by the time the new one binds is open.                             *)
AddBuiltin(port, cfg) ==
    LET aborted == Aborted(port)
        id == Len(run) + 1
    IN  \/ \E parts \in Build(cfg), freed \in BOOLEAN :
              LET before == IF freed THEN [i \in DOMAIN aborted |-> IF i \in OnPort(port) /\ aborted[i].state = "stopping"
                                                                    THEN Dead(aborted[i]) ELSE aborted[i]]
                            ELSE aborted
              IN  /\ parts # {}
                  /\ \A i \in DOMAIN before : before[i].port = port => before[i].state = "dead"
                  /\ run' = Append(before, Process(port, cfg, "running", parts))
                  /\ servers' = With(servers, port, [cfg |-> cfg, id |-> id, flow |-> 0])
        \/ /\ run' = aborted
           /\ servers' = Without(servers, port)

(* The abort of a task takes effect.                                       *)
AbortEnds(id) ==
    /\ ~Standalone
    /\ run[id].state = "stopping"
    /\ run' = [run EXCEPT ![id] = Dead(@)]
    /\ UNCHANGED <<conf, servers, files, net, log>>

(* What kill_standalone_server may come to at a port: whether it can read   *)
(* the pid file, and which of the two files it can remove.  It goes on      *)
(* whatever fails.                                                         *)
Everything == [read |-> TRUE, gone |-> {"config", "pid"}]

Clearings(port) ==
    {k \in [read : BOOLEAN, gone : SUBSET {"config", "pid"}] :
        /\ port \notin DOMAIN files.pid => k.read /\ "pid" \in k.gone
        /\ port \notin DOMAIN files.config => "config" \in k.gone}

(* Mutant: only a server that is listed is stopped. *)
TerminatedIfListed(port, k) ==
    IF port \in DOMAIN servers /\ k.read /\ port \in DOMAIN files.pid /\ run[files.pid[port]].state # "dead"
    THEN [run EXCEPT ![files.pid[port]] = Stopping(@)] ELSE run

(* Mutant: the files go before the pid is read. *)
FilesGoFirst(port, k) == run

(* kill_standalone_server: SIGTERM to the process the pid file names;      *)
(* then both files go.                                                     *)
Terminated(port, k) ==
    IF k.read /\ port \in DOMAIN files.pid /\ run[files.pid[port]].state # "dead"
    THEN [run EXCEPT ![files.pid[port]] = Stopping(@)] ELSE run

(* Mutant: the configuration file of a stopped server stays. *)
ConfigStays(port, k) ==
    [config |-> files.config, pid |-> IF "pid" \in k.gone THEN Without(files.pid, port) ELSE files.pid]

Cleared(port, k) ==
    [config |-> IF "config" \in k.gone THEN Without(files.config, port) ELSE files.config,
     pid    |-> IF "pid" \in k.gone THEN Without(files.pid, port) ELSE files.pid]

(* Daemons that have not written a pid file when their port is cleared.    *)
Late(port) == {id \in DOMAIN run : run[id].port = port /\ run[id].state \in {"starting", "daemon"}}

(* The history after an answer, and after one for which a port was cleared. *)
Answered(cmd, removed) ==
    [log EXCEPT !.answers = @ \cup {<<cmd, "ok">>}, !.removed = removed]

AnsweredCleared(cmd, removed, port, k) ==
    [log EXCEPT !.answers = @ \cup {<<cmd, "ok">>}, !.removed = removed,
                !.late = @ \cup Late(port),
                !.stuck = IF k = Everything THEN @ ELSE @ \cup {port}]

(* What Config's Display writes of a server with neither remarks nor an id: *)
(* not its users.                                                          *)
Written(cfg) == [cfg EXCEPT !.users = "none"]

(* add_server_standalone: stop the old one, write the file, start the new  *)
(* one.  The file or the process may fail; the old one stays listed then.  *)
(* A file that stayed is written over, not truncated: it may end up as one *)
(* that cannot be read, which is as good as none.                          *)
AddStandalone(port, cfg, k) ==
    LET left == Cleared(port, k)
        written == [left EXCEPT !.config = With(@, port, Written(cfg))]
        spoilt == IF "config" \in k.gone THEN {} ELSE {[left EXCEPT !.config = Without(@, port)]}
    IN  \E outcome \in {"started", "no file", "no process"} :
        /\ run' = IF outcome # "started" THEN Terminated(port, k)
                  ELSE Append(Terminated(port, k), Process(port, cfg, "starting", {}))
        /\ files' \in {IF outcome = "no file" THEN left ELSE written} \cup spoilt
        /\ servers' = IF outcome = "started" THEN With(servers, port, [cfg |-> cfg, id |-> 0, flow |-> 0]) ELSE servers

HandleAdd(bytes, p) ==
    /\ Len(run) < MaxServers
    /\ net' = net \ {bytes}
    /\ \/ /\ AddError(p)
          /\ log' = [log EXCEPT !.answers = @ \cup {<<"add", "error">>}]
          /\ UNCHANGED <<servers, run, files>>
       \/ /\ ~AddError(p) /\ ~Standalone
          /\ AddBuiltin(p.port, AddConfig(p)) /\ UNCHANGED files
          /\ log' = Answered("add", log.removed \ {p.port})
       \/ /\ ~AddError(p) /\ Standalone
          /\ \E k \in Clearings(p.port) :
                /\ AddStandalone(p.port, AddConfig(p), k)
                /\ log' = AnsweredCleared("add", log.removed \ {p.port}, p.port, k)
    /\ UNCHANGED conf

----------------------------------------------------------------------------
(* The other requests.                                                     *)

HandleRemove(bytes, p) ==
    /\ net' = net \ {bytes}
    /\ servers' = Without(servers, p.port)
    /\ \/ /\ ~Standalone
          /\ run' = Aborted(p.port) /\ UNCHANGED files
          /\ log' = Answered("remove", log.removed \cup {p.port})
       \/ /\ Standalone
          /\ \E k \in Clearings(p.port) :
                /\ run' = Terminated(p.port, k)
                /\ files' = Cleared(p.port, k)
                /\ log' = AnsweredCleared("remove", log.removed \cup {p.port}, p.port, k)
    /\ UNCHANGED conf

(* handle_list and handle_ping: every port known, with its settings or its *)
(* traffic.                                                                *)
HandleList(bytes, cmd) ==
    /\ net' = net \ {bytes}
    /\ log' = Answered(cmd, log.removed)
    /\ UNCHANGED <<conf, servers, run, files>>

(* handle_stat: a standalone server that is not known is taken over from   *)
(* its configuration file.                                                 *)
HandleStat(bytes, p) ==
    /\ net' = net \ {bytes}
    /\ servers' = IF ~Standalone THEN servers
                  ELSE IF p.port \in DOMAIN servers THEN [servers EXCEPT ![p.port].flow = p.flow]
                  ELSE IF p.port \in DOMAIN files.config
                  THEN With(servers, p.port, [cfg |-> files.config[p.port], id |-> 0, flow |-> p.flow])
                  ELSE servers
    /\ UNCHANGED <<conf, run, files, log>>

(* Manager::run: what is no request gets no answer.                        *)
Receive(bytes) ==
    LET req == FromBytes(bytes)
    IN  CASE req.err # "ok" -> net' = net \ {bytes} /\ UNCHANGED <<conf, servers, run, files, log>>
          [] req.err = "ok" /\ req.cmd = "add" -> HandleAdd(bytes, req.param)
          [] req.err = "ok" /\ req.cmd = "remove" -> HandleRemove(bytes, req.param)
          [] req.err = "ok" /\ req.cmd = "stat" -> HandleStat(bytes, req.param)
          [] OTHER -> HandleList(bytes, req.cmd)

(* A datagram is lost.                                                     *)
Lose(bytes) ==
    /\ net' = net \ {bytes}
    /\ UNCHANGED <<conf, servers, run, files, log>>

----------------------------------------------------------------------------
(* Standalone servers.                                                     *)

(* The daemon reads its configuration file, whatever it holds by then, and *)
(* ends without one.                                                       *)
Configured(r, cfg) == Process(r.port, cfg, "daemon", r.parts)

DaemonReads(id) ==
    /\ run[id].state = "starting"
    /\ LET port == run[id].port
       IN  run' = [run EXCEPT ![id] = IF port \in DOMAIN files.config
                                      THEN Configured(@, files.config[port]) ELSE Dead(@)]
    /\ UNCHANGED <<conf, servers, files, net, log>>

(* It writes its pid file, unless another daemon holds the lock on that    *)
(* file or it cannot be opened, and then builds the server, if the port is *)
(* free: daemonize only logs a failure to make the file.                   *)
Served(r, parts) == Process(r.port, r.cfg, "running", parts)

Locked(port) == port \in DOMAIN files.pid /\ run[files.pid[port]].state # "dead"

DaemonServes(id) ==
    /\ run[id].state = "daemon"
    /\ \/ ~Locked(run[id].port) /\ files' = [files EXCEPT !.pid = With(@, run[id].port, id)] /\ log' = log
       \/ log' = [log EXCEPT !.unmarked = @ \cup {id}] /\ files' = files
    /\ \E parts \in Build(run[id].cfg) :
          /\ parts # {} => OnPort(run[id].port) = {}
          /\ run' = [run EXCEPT ![id] = IF parts = {} THEN Dead(@) ELSE Served(@, parts)]
    /\ UNCHANGED <<conf, servers, net>>

(* Every ten seconds a server reports what it has carried.                 *)
DaemonReports(id) ==
    /\ Standalone /\ Running(id)
    /\ net' = net \cup {ToBytes([cmd |-> "stat", param |-> [kind |-> "stat", port |-> run[id].port, flow |-> id]])}
    /\ UNCHANGED <<conf, servers, run, files, log>>

(* SIGTERM ends the process.                                               *)
DaemonEnds(id) ==
    /\ Standalone
    /\ run[id].state = "stopping"
    /\ run' = [run EXCEPT ![id] = Dead(@)]
    /\ UNCHANGED <<conf, servers, files, net, log>>

(* The manager ends and is started again: built-in servers end with it.    *)
Restart ==
    /\ log.restarts < MaxRestarts
    /\ servers' = <<>>
    /\ run' = IF Standalone THEN run ELSE [id \in DOMAIN run |-> Dead(run[id])]
    /\ net' = {}
    /\ log' = [log EXCEPT !.removed = {}, !.restarts = @ + 1]
    /\ UNCHANGED <<conf, files>>

ManagerNext ==
    \/ \E req \in Commands : ClientSends(req)
    \/ \E bytes \in net : Receive(bytes) \/ Lose(bytes)
    \/ \E id \in DOMAIN run : \/ PartEnds(id) \/ AbortEnds(id)
                              \/ DaemonReads(id) \/ DaemonServes(id) \/ DaemonReports(id) \/ DaemonEnds(id)
    \/ Restart

ManagerSpec == ManagerInit /\ [][ManagerNext]_managerVars

----------------------------------------------------------------------------
(* The state has its type.                                                 *)
ManagerTypeOK ==
    /\ conf \in Confs
    /\ \A id \in DOMAIN run : run[id].state \in {"starting", "daemon", "running", "stopping", "dead"}
    /\ \A port \in DOMAIN servers : servers[port].id \in 0 .. Len(run)
    /\ \A port \in DOMAIN files.pid : files.pid[port] \in DOMAIN run

(* A built-in server that was not told to stop is the one listed at its    *)
(* port, with its settings: no restart or removal loses hold of a server.  *)
ServersAreHeld ==
    ~Standalone => \A id \in DOMAIN run : Running(id) =>
        run[id].port \in DOMAIN servers /\ servers[run[id].port].id = id /\ servers[run[id].port].cfg = run[id].cfg

(* Two servers never serve one port, and a server serves with all the      *)
(* parts it is configured for or not at all.                               *)
ServersAreWhole ==
    /\ \A id \in DOMAIN run : Running(id) => run[id].parts = Parts(run[id].cfg)
    /\ \A i, j \in DOMAIN run : Running(i) /\ Running(j) /\ run[i].port = run[j].port => i = j

(* A port that was removed is not listed again by a report of its server   *)
(* that comes late or of one that is still ending: unless its              *)
(* configuration file could not be removed.                                *)
RemovedStaysRemoved == log.removed \cap DOMAIN servers \subseteq log.stuck

(* A standalone server outlives its removal only where it could make no    *)
(* pid file, where the pid file could not be read or removed, or where a   *)
(* daemon of its port had not written its pid file yet when the port was   *)
(* cleared, which leaves that one running or in the way of another's file. *)
LateOn(port) == port \in log.stuck \/ \E late \in log.late : run[late].port = port

SurvivorsWereLate ==
    Standalone => \A id \in DOMAIN run :
        Running(id) /\ run[id].port \in log.removed => LateOn(run[id].port) \/ id \in log.unmarked

(* The manager holds whole servers only, each of them (add_server,         *)
(* ServerBuilder::build, Drop for ServerInstance).                         *)
HeldWhole == ManagerTypeOK /\ ServersAreHeld /\ ServersAreWhole

(* What was removed is gone, from the list and, where its pid was known,   *)
(* from its port (handle_remove, kill_standalone_server, handle_stat).     *)
RemovedIsGone == RemovedStaysRemoved /\ SurvivorsWereLate

(* The inductive invariant behind both.  Only a standalone manager starts  *)
(* daemons; it knows those that run, and could stop them, by their pid     *)
(* files, but for the daemons that failed to make one (daemonize) and the  *)
(* ports on which some daemon was late or the files could not be cleared.  *)
Begun(id) == run[id].state \in {"starting", "daemon"}

DaemonsAreKnown ==
    /\ log.late \cup log.unmarked \subseteq DOMAIN run
    /\ ~Standalone => log.stuck = {} /\ \A id \in DOMAIN run : ~Begun(id)
    /\ Standalone => \A id \in DOMAIN run : Running(id) /\ ~LateOn(run[id].port) /\ id \notin log.unmarked =>
          run[id].port \in DOMAIN files.pid /\ files.pid[run[id].port] = id

(* A port that was cleared, and not too early, has one daemon on its way   *)
(* beside those that have no pid file, and none once it was removed: nor a *)
(* file by which it could be listed again.                                 *)
OneDaemonBegins ==
    Standalone => \A id \in DOMAIN run : Begun(id) /\ ~LateOn(run[id].port) =>
        /\ run[id].port \notin log.removed
        /\ \A other \in DOMAIN run :
              /\ run[other].port = run[id].port
              /\ Begun(other) \/ (Running(other) /\ other \notin log.unmarked)
              => other = id

RemovedHasNoFile == Standalone => log.removed \cap DOMAIN files.config \subseteq log.stuck

(* The inductive invariant behind the two: the daemons that run are known  *)
(* by their pid files, but for those that made none and for ports that     *)
(* were cleared too early or in part (kill_standalone_server, daemonize).  *)
ServersInv == HeldWhole /\ RemovedIsGone /\ DaemonsAreKnown /\ OneDaemonBegins /\ RemovedHasNoFile
=============================================================================
