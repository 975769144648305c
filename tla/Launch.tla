------------------------------- MODULE Launch -------------------------------
(***************************************************************************)
(* sslocal, ssserver and ssmanager from their start to their exit: the     *)
(* configuration file, the command line over it, the check, the services,  *)
(* what ends them, and a reload of the servers from the file.  A panic     *)
(* aborts the process, as the release profile has it.                      *)
(***************************************************************************)
EXTENDS Config

CONSTANTS
    Cases,       \* [type, path, file, later, cmd]: a program, its file now and later, its options
    MaxReloads   \* bound on reloads

VARIABLES
    conf,
    disk,       \* what the configuration file holds
    stage,      \* "load", "args", "check", "build", "running", "exited"
    config,     \* Config
    services,   \* the services built or running, in order
    balancer,   \* the servers in use and the modes they are probed for
    out         \* exit code, and why; reloads done; the file the servers came from

vars == <<conf, disk, stage, config, services, balancer, out>>

Local == conf.type = "local"

Init ==
    /\ conf \in Cases
    /\ disk = conf.file
    /\ stage = "load"
    /\ config = NewConfig(conf.type)
    /\ services = <<>>
    /\ balancer = [mode |-> None, servers |-> <<>>]
    /\ out = [code |-> None, why |-> None, reloads |-> 0, source |-> None]

(* The process ends, and what it runs with it.                             *)
Exit(code, why) ==
    /\ stage' = "exited"
    /\ services' = <<>>
    /\ out' = [out EXCEPT !.code = code, !.why = why]
    /\ UNCHANGED <<conf, disk, config, balancer>>

(* What an error of the configuration means.                               *)
Refuse(error, code) == Exit(IF error = "panic" THEN "abort" ELSE code, error)

Advance(next) == stage' = next /\ UNCHANGED <<conf, disk, services, balancer, out>>

----------------------------------------------------------------------------
(* parse_server_url, while the command line is taken apart.                *)
CmdLineError(cmd) == IF cmd.url = NoUrl THEN None ELSE UrlError(cmd.url)

(* create: the file.                                                       *)
LoadFile ==
    /\ stage = "load"
    /\ LET error == IF conf.path THEN LoadError(disk, conf.type) ELSE None
       IN  IF CmdLineError(conf.cmd) # None THEN Refuse(CmdLineError(conf.cmd), "cli")
           ELSE IF error # None THEN Refuse(error, "config")
           ELSE /\ config' = IF conf.path THEN Load(disk, conf.type) ELSE NewConfig(conf.type)
                /\ Advance("args")

----------------------------------------------------------------------------
(* create: the command line.                                               *)

(* A server given by address; one that has no password asks for it.        *)
CmdServerError(cmd) == FirstError(<<
    When(cmd.server # Missing /\ cmd.method # "none" /\ cmd.password = <<>>, "panic"),
    When(cmd.server # Missing /\ PasswordToKeys(cmd.method, ReadVariableFieldValue(cmd.password)).panic, "panic")>>)

CmdServers(cmd) ==
    (IF cmd.server = Missing THEN <<>>
     ELSE <<[NewServer(Addr(cmd.server.host, cmd.server.port), ReadVariableFieldValue(cmd.password), cmd.method) EXCEPT
                !.plugin = IF cmd.plugin = None THEN @ ELSE [plugin |-> cmd.plugin, opts |-> None, mode |-> "tcp_only"],
                !.timeout = cmd.timeout, !.mode = IF Local THEN @ ELSE Or(cmd.mode, "tcp_only")]>>)
    \o (IF ~Local \/ cmd.url = NoUrl THEN <<>> ELSE <<UrlServer(cmd.url)>>)

GivenAddr(hp) == IF hp.host = None THEN NoAddr ELSE Addr(hp.host, hp.port)

(* The local service of the command line.  On Android a DNS service may be *)
(* asked for beside it, which takes over its DNS addresses.                *)
CmdLocalError(cmd) == When(cmd.local = Missing /\ Or(cmd.protocol, "tun") # "tun", "panic")

CmdLocals(cmd) ==
    LET protocol == Or(cmd.protocol, "socks")
        extra == protocol # "dns" /\ cmd.dns_local # Missing
        main == [NewLocal(protocol) EXCEPT
                    !.addr = GivenAddr(cmd.local), !.udp_addr = GivenAddr(cmd.udp), !.forward_addr = GivenAddr(cmd.forward),
                    !.tcp_redir = cmd.redir, !.udp_redir = cmd.redir, !.tun = cmd.tun, !.tun_destination = cmd.tun,
                    !.mode = Or(cmd.mode, @),
                    !.local_dns_addr = IF extra THEN NoAddr ELSE NameServer(cmd.local_dns),
                    !.remote_dns_addr = IF extra THEN NoAddr ELSE GivenAddr(cmd.remote_dns)]
        dns == [NewLocal("dns") EXCEPT !.addr = GivenAddr(cmd.dns_local), !.local_dns_addr = NameServer(cmd.local_dns),
                                       !.remote_dns_addr = GivenAddr(cmd.remote_dns)]
    IN  IF cmd.local = Missing /\ cmd.protocol = None THEN <<>>
        ELSE (IF extra THEN <<dns>> ELSE <<>>) \o <<main>>

(* The manager, and what only it takes from the command line.              *)
CmdManager(cmd, manager) ==
    LET m == [manager EXCEPT !.addr = IF cmd.manager = Missing THEN @ ELSE Addr(cmd.manager.host, cmd.manager.port)]
    IN  IF conf.type # "manager" \/ m.addr = NoAddr THEN m
        ELSE [m EXCEPT !.method = Or(cmd.method, @), !.mode = Or(cmd.mode, @),
                       !.plugin = IF cmd.plugin = None THEN @ ELSE [plugin |-> cmd.plugin, opts |-> None, mode |-> "tcp_only"]]

(* Options that replace the file's.                                        *)
CmdOptions(cmd, c) ==
    [c EXCEPT !.flags = @ \cup cmd.flags, !.acl = Or(cmd.acl, @), !.bind_addr = Or(cmd.bind_addr, @),
              !.dns_cache = IF cmd.dns_cache = NoNum THEN @ ELSE cmd.dns_cache,
              !.udp_timeout = IF cmd.udp_timeout = NoNum THEN @ ELSE cmd.udp_timeout,
              !.dns = IF cmd.dns.kind = None THEN @ ELSE SetDnsFormatted(cmd.dns)]

Args ==
    /\ stage = "args"
    /\ LET cmd == conf.cmd
           error == FirstError(<<
               IF conf.type = "manager" THEN None ELSE CmdServerError(cmd),
               When(Local /\ (cmd.local # Missing \/ cmd.protocol # None), CmdLocalError(cmd)),
               When(cmd.acl = "bad", "Invalid"),
               When(DnsError(cmd.dns) # None, "panic")>>)
           given == [config EXCEPT !.server = IF conf.type = "manager" THEN @ ELSE @ \o CmdServers(cmd),
                                   !.local = IF Local THEN @ \o CmdLocals(cmd) ELSE @,
                                   !.manager = IF Local THEN @ ELSE CmdManager(cmd, @)]
       IN  IF error # None THEN Refuse(error, "config")
           ELSE config' = CmdOptions(cmd, given) /\ Advance("check")

(* create: what must be there, and check_integrity.                        *)
Check ==
    /\ stage = "check"
    /\ LET absent == CASE Local -> config.local = <<>>
                       [] conf.type = "server" -> config.server = <<>>
                       [] OTHER -> config.manager.addr = NoAddr
           error == CheckIntegrity(config)
       IN  IF absent THEN Refuse("Missing", "usage")
           ELSE IF error # None THEN Refuse(error, "config")
           ELSE Advance("build") /\ UNCHANGED config

----------------------------------------------------------------------------
(* The services.                                                           *)

MergedMode(locals) == FoldLeft(Merge, locals[1].mode, Each(Tail(locals), LAMBDA l : l.mode))

(* Server::new: the balancer over all servers, for all services.           *)
BuildBalancer ==
    /\ Local /\ stage = "build" /\ balancer.mode = None
    /\ \/ /\ balancer' = [mode |-> MergedMode(config.local), servers |-> config.server]
          /\ out' = [out EXCEPT !.source = "start"]
          /\ UNCHANGED <<conf, disk, stage, config, services>>
       \/ Exit("abort", "balancer")

(* What Server::new insists on after the check.                            *)
Needs(l) ==
    \/ l.protocol # "tun" /\ l.addr = NoAddr
    \/ l.protocol = "tunnel" /\ l.forward_addr = NoAddr
    \/ l.protocol = "dns" /\ NoAddr \in {l.local_dns_addr, l.remote_dns_addr}

(* Server::new: one service after the other; one that cannot be built      *)
(* aborts the program.                                                     *)
BuildLocal ==
    /\ Local /\ stage = "build" /\ balancer.mode # None /\ Len(services) < Len(config.local)
    /\ LET l == config.local[Len(services) + 1]
       IN  IF Needs(l) THEN Exit("abort", "missing")
           ELSE \/ /\ services' = Append(services, [protocol |-> l.protocol, mode |-> IF l.protocol = "http" THEN "tcp_only" ELSE l.mode,
                                                    acl |-> Or(l.acl, config.acl)])
                   /\ UNCHANGED <<conf, disk, stage, config, balancer, out>>
                \/ Exit("abort", "bind")

(* server's run: one server after the other.                               *)
BuildServer ==
    /\ conf.type = "server" /\ stage = "build" /\ Len(services) < Len(config.server)
    /\ LET s == config.server[Len(services) + 1]
       IN  \/ /\ services' = Append(services, [protocol |-> "server", mode |-> s.mode, acl |-> Or(s.acl, config.acl)])
              /\ UNCHANGED <<conf, disk, stage, config, balancer, out>>
           \/ Exit("software", "bind")

(* manager's run.                                                          *)
BuildManager ==
    /\ conf.type = "manager" /\ stage = "build" /\ services = <<>>
    /\ \/ /\ services' = <<[protocol |-> "manager", mode |-> config.manager.mode, acl |-> config.acl]>>
          /\ UNCHANGED <<conf, disk, stage, config, balancer, out>>
       \/ Exit("software", "bind")

Wanted == CASE Local -> Len(config.local) [] conf.type = "server" -> Len(config.server) [] OTHER -> 1

(* flow_report_task: it goes on whatever becomes of a report.              *)
FlowReport == IF conf.cmd.stat THEN <<[protocol |-> "stat", mode |-> None, acl |-> None]>> ELSE <<>>

(* run: everything is spawned.                                             *)
Spawn ==
    /\ stage = "build" /\ Len(services) = Wanted
    /\ stage' = "running"
    /\ services' = IF Local THEN services \o FlowReport ELSE services
    /\ UNCHANGED <<conf, disk, config, balancer, out>>

(* Mutant: the program waits for all of its services. *)
OneOfAllEnds(i) ==
    IF Len(services) = 1 THEN Exit("software", "ended")
    ELSE services' = RemoveAt(services, i) /\ UNCHANGED <<conf, disk, stage, config, balancer, out>>

(* select_all: the first service to end ends the program.                  *)
ServiceEnds(i) == Exit("software", "ended")

Ends ==
    /\ stage = "running"
    /\ \E i \in DOMAIN services : services[i].protocol # "stat" /\ ServiceEnds(i)

(* create_signal_monitor                                                   *)
Signal == stage = "running" /\ Exit("success", "signal")

----------------------------------------------------------------------------
(* SIGUSR1.                                                                *)

(* Somebody writes the configuration file.                                 *)
Edit ==
    /\ stage = "running" /\ Local /\ conf.path
    /\ disk' \in conf.later
    /\ disk' # disk
    /\ UNCHANGED <<conf, stage, config, services, balancer, out>>

(* Mutant: what was read before an error is used. *)
ReloadWhatIsGood(file) ==
    LET good == SelectSeq(Enabled(file.servers), LAMBDA s : ServerError(s) = None)
    IN  [error |-> None, servers |-> LoadServers([file EXCEPT !.servers = good], "local")]

Reloaded(file) ==
    LET error == LoadError(file, "local")
    IN  [error |-> error, servers |-> IF error = None THEN LoadServers(file, "local") ELSE <<>>]

(* launch_reload_server_task: the servers of the file, unchecked, in place *)
(* of those in use, the command line's among them; or no change.           *)
Reload ==
    /\ stage = "running" /\ Local /\ conf.path /\ out.reloads < MaxReloads
    /\ LET new == Reloaded(disk)
       IN  IF new.error = "panic" THEN Exit("abort", "panic")
           ELSE \E built \in BOOLEAN :
                    /\ balancer' = IF new.error = None /\ built THEN [balancer EXCEPT !.servers = new.servers] ELSE balancer
                    /\ out' = [out EXCEPT !.reloads = @ + 1, !.source = IF new.error = None /\ built THEN "file" ELSE @]
                    /\ UNCHANGED <<conf, disk, stage, config, services>>

Next ==
    \/ LoadFile \/ Args \/ Check
    \/ BuildBalancer \/ BuildLocal \/ BuildServer \/ BuildManager \/ Spawn
    \/ Ends \/ Signal
    \/ Edit \/ Reload

Spec == Init /\ [][Next]_vars

----------------------------------------------------------------------------
(* The state has its type.                                                 *)
TypeOK ==
    /\ conf \in Cases
    /\ stage \in {"load", "args", "check", "build", "running", "exited"}
    /\ out.code \in {None, "cli", "config", "usage", "software", "abort", "success"}
    /\ out.reloads \in 0 .. MaxReloads

Checked == stage \in {"build", "running"}

(* No program dies of an address that is missing after its configuration   *)
(* has passed the check, whether it came from the file, the command line   *)
(* or the DNS service that Android adds: check_integrity asks for all that *)
(* Server::new expects.                                                    *)
CheckedBuilds == out.why # "missing"

(* The balancer probes its servers for every protocol that a service will  *)
(* use them for.                                                           *)
BalancerCovers ==
    Local /\ stage = "running" =>
        \A i \in DOMAIN services : services[i].protocol # "stat" =>
            /\ EnableTcp(services[i].mode) => EnableTcp(balancer.mode)
            /\ EnableUdp(services[i].mode) => EnableUdp(balancer.mode)

(* A program runs with all services of its configuration or with none, and *)
(* ends with success only when it was told to end.                         *)
AllOrNothing ==
    /\ stage = "running" => Len(services) = Wanted + (IF Local THEN Len(FlowReport) ELSE 0)
    /\ stage = "exited" => services = <<>> /\ (out.code = "success") = (out.why = "signal")

(* The servers in use are those of the start or all of those of one        *)
(* configuration file that could be read, never a part of one.             *)
ServersOfOneFile ==
    /\ out.source = "start" => balancer.servers = config.server
    /\ out.source = "file" => \E file \in {conf.file} \cup conf.later :
           LoadError(file, "local") = None /\ balancer.servers = Load(file, "local").server

(* What is left of a checked configuration that Display has written and    *)
(* load_from_ssconfig has read again.                                      *)
(* Of every server all but its identity keys and what a method without key *)
(* was given as a password; a password that names an environment variable  *)
(* (a URL may give one) is looked up.                                      *)
KeptServer(s) ==
    [s EXCEPT !.identity = <<>>, !.password = IF s.method = "none" THEN <<>> ELSE ReadVariableFieldValue(@)]

(* A single server with neither remarks nor an id loses its users and      *)
(* weights as well, and its access control list becomes that of all; any   *)
(* other server loses its timeout.                                         *)
SinglePlainServer(c) == Len(c.server) = 1 /\ ServerIsBasic(c.server[1])
KeptServers(c) ==
    IF SinglePlainServer(c)
    THEN <<[KeptServer(c.server[1]) EXCEPT !.users = <<>>, !.tcp_weight = 100, !.udp_weight = 100, !.acl = None]>>
    ELSE Each(c.server, LAMBDA s : [KeptServer(s) EXCEPT !.timeout = NoNum])

(* A single SOCKS service without a UDP address, a forward address, a      *)
(* redirection or name servers keeps its address only: its list becomes    *)
(* that of all, its mode the single plain server's.  Any other service     *)
(* loses its authentication and the destination of its tun device.         *)
SinglePlainLocal(c) == Len(c.local) = 1 /\ LocalIsBasic(c.local[1])
KeptLocals(c) ==
    IF SinglePlainLocal(c)
    THEN <<[NewLocal("socks") EXCEPT !.addr = c.local[1].addr, !.mode = IF SinglePlainServer(c) THEN c.server[1].mode ELSE @]>>
    ELSE Each(c.local, LAMBDA l : [l EXCEPT !.auth = None, !.tun_destination = None])

(* The list of all is the configuration's, else the single plain server's, *)
(* else the single plain service's.  The size of the DNS cache is lost, as *)
(* is the interval of the best server where no other interval was given.   *)
Kept(c) ==
    LET privateAcl(entries, single) == IF single THEN entries[1].acl ELSE None
    IN  [c EXCEPT !.server = KeptServers(c), !.local = KeptLocals(c), !.dns_cache = NoNum,
                  !.acl = Or(@, Or(privateAcl(c.server, SinglePlainServer(c)), privateAcl(c.local, SinglePlainLocal(c)))),
                  !.best = IF c.rtt = NoNum /\ c.interval = NoNum THEN NoNum ELSE @]

(* Port 0, which only the command line can give.                           *)
AsksForAnyPort(l) == \E addr \in {l.addr, l.udp_addr, l.forward_addr} : addr # NoAddr /\ addr.port = 0

(* What Display writes of a checked configuration can be read unless a     *)
(* service has port 0; it then passes the check, and every setting of it   *)
(* is the configuration's or one of the losses that Kept lists.  Left out  *)
(* are a unix resolver and a manager, which do not read back and which no  *)
(* writer of configurations in the code has (manager/server.rs:418, ssurl).*)
WrittenReadsBack ==
    LET file == Written(config)
        read == Load(file, conf.type)
    IN  Checked /\ config.dns.kind # "LocalDns" /\ config.manager.addr = NoAddr =>
            IF \E i \in DOMAIN config.local : AsksForAnyPort(config.local[i]) THEN LoadError(file, conf.type) # None
            ELSE LoadError(file, conf.type) = None /\ read = Kept(config) /\ CheckIntegrity(read) = None

(* A server's URL gives the server back: its address, method, key, plugin  *)
(* and whether it has remarks (which stay encoded); and so does its QR     *)
(* code if no character of its key means something in a URL.               *)
SameByUrl(s, r) == <<r.addr, r.method, r.password>> = <<s.addr, s.method, s.password>>

UrlReadsBack ==
    Checked => \A i \in DOMAIN config.server :
        LET s == config.server[i]
            url == ToUrl(s)
            code == QrUrl(s)
        IN  /\ UrlError(url) = None
            /\ SameByUrl(s, UrlServer(url))
            /\ <<UrlServer(url).plugin.plugin, UrlServer(url).plugin.opts>> = <<s.plugin.plugin, s.plugin.opts>>
            /\ (UrlServer(url).remarks = NoRemarks) = (s.remarks = NoRemarks)
            /\ Survives(code.pass) => UrlError(code) = None /\ SameByUrl(s, UrlServer(code))

(* A program that runs is whole: all its services, all its servers, and a  *)
(* balancer that probes for what they do; it never dies of what the check  *)
(* let pass (run in src/service/local.rs, Server::new, check_integrity).   *)
RunsWhole == TypeOK /\ CheckedBuilds /\ BalancerCovers /\ AllOrNothing /\ ServersOfOneFile

(* What the program writes of its configuration, as a file, a URL or a QR  *)
(* code, it reads again (Config::fmt, to_url, to_qrcode_url).              *)
ReadsBack == WrittenReadsBack /\ UrlReadsBack
=============================================================================
