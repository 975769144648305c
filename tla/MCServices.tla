----------------------------- MODULE MCServices -----------------------------
(***************************************************************************)
(* Services in one run.  They are independent of each other; part says     *)
(* which of them a behaviour is about.                                     *)
(***************************************************************************)
EXTENDS Manager, UdpServer, Dns, Socks, TLC

VARIABLES part, x1, x2, x3, x4, x5, x6, x7

xs == <<x1, x2, x3, x4, x5, x6, x7>>
vars == <<part, managerVars, serverVars, dnsVars, socksVars, xs>>

Client(addr, len) == [addr |-> addr, len |-> len]
UdpConfig(method, users, capacity, hasV6, second, sends, peers, skew) ==
    [method |-> method, users |-> users, capacity |-> capacity, hasV6 |-> hasV6, second |-> second,
     sends |-> sends, peers |-> peers, skew |-> skew]

(* Associations by address; more sessions than the map has room for;       *)
(* replays from other addresses by a client whose clock is ahead; a        *)
(* stranger, no IPv6 and empty packets; users of a method that cannot tell *)
(* them apart, behind an access control list.                              *)
AeadConfig == UdpConfig("aead", {}, 0, TRUE, "user", {Client("v4", 1)}, {"a", "b"}, 0)
UdpConfigs == {
    AeadConfig,
    UdpConfig("aes2022", {"u1", "u2"}, 1, TRUE, "user", {Client("v4", 1)}, {"a"}, 0),
    UdpConfig("aes2022", {"u1"}, 0, TRUE, "unnamed", {Client("v4", 1)}, {"a", "b"}, 1),
    UdpConfig("chacha2022", {}, 0, FALSE, "stranger",
              {Client("v4", 1), Client("v6", 1), Client("domain", 1), Client("v4", 0)}, {"a"}, 0),
    UdpConfig("chacha2022", {"u1"}, 0, TRUE, "unnamed", {Client("domain", 1), Client("blocked", 1)}, {"a"}, 0)}

----------------------------------------------------------------------------
(* SOCKS.  Users and none; all commands and clients; names, hosts and      *)
(* users the readers refuse.                                               *)
V4 == Address("v4", <<1, 2, 3, 4>>, 258)
Host == Address("domain", <<97, 98>>, 80)
BadHost == Address("domain", <<255>>, 80)
V6 == Address("v6", [i \in 1 .. 16 |-> i], 53)
Mapped == Address("v6", [i \in 1 .. 16 |-> IF i > 12 THEN i ELSE IF i > 10 THEN 255 ELSE 0], 53)
NoUsers == <<>>
OneUser == <<7>> :> <<8>>
SocksCase(kind, users, mode, command, addr, methods, passwd) ==
    [kind |-> kind, users |-> users, mode |-> mode, command |-> command, addr |-> addr, methods |-> methods,
     user |-> <<7>>, passwd |-> passwd, data |-> <<5, 4>>]

SocksCases ==
    {SocksCase(kind, users, mode, "connect", addr, <<>>, <<>>) :
        kind \in {"connect", "associate", "socks4"}, users \in {NoUsers, OneUser},
        mode \in {"TcpOnly", "TcpAndUdp"}, addr \in {V4, Host}}
    \cup {SocksCase("raw", OneUser, "TcpAndUdp", command, addr, methods, passwd) :
        command \in {"connect", "bind", "associate"}, addr \in {V6, Host, BadHost},
        methods \in {<<0, 2>>, <<1, 2, 0>>}, passwd \in {<<8>>, <<9>>, <<>>, <<255>>}}
    \cup {SocksCase("plain", users, "TcpOnly", command, V4, methods, <<>>) :
        users \in {NoUsers, OneUser}, command \in {"connect", "associate"}, methods \in {<<>>, <<0>>, <<2, 0>>, <<1, 0>>}}
    \cup {SocksCase("raw4", OneUser, "TcpAndUdp", command, addr, <<>>, <<>>) :
        command \in {"connect", "bind"}, addr \in {V4, Host, BadHost}}

SocksDatagrams == {[frag |-> 0, addr |-> V4, data |-> <<1>>, cut |-> 0], [frag |-> 1, addr |-> V4, data |-> <<2>>, cut |-> 0],
              [frag |-> 0, addr |-> Host, data |-> <<3, 4>>, cut |-> 1], [frag |-> 0, addr |-> Host, data |-> <<>>, cut |-> 1]}
SocksAnswers == {[addr |-> Mapped, data |-> <<1>>], [addr |-> Host, data |-> <<2>>]}

(* Where another part moves: the client is gone and the handler is done.   *)
Abandoned ==
    /\ session = SocksCase("connect", NoUsers, "TcpOnly", "connect", V4, <<>>, <<>>)
    /\ client = [pc |-> "handshake", unsent |-> <<>>, result |-> "none", gone |-> TRUE]
    /\ up = <<>> /\ down = <<>>
    /\ handler = [pc |-> "done", command |-> "none", addr |-> NoAddr, buf |-> <<>>, authed |-> FALSE, replies |-> <<>>]
    /\ remote = [state |-> "none", addr |-> NoAddr, got |-> <<>>]
    /\ udp = [toServer |-> {}, toTarget |-> {}, toClient |-> {}, received |-> {}]

----------------------------------------------------------------------------
(* The manager.  One port or two, requests that are refused, settings that *)
(* differ, servers built in and standalone, one restart.                   *)
ManConf(server_mode) == [server_mode |-> server_mode, method |-> "m1", plugin |-> "none", mode |-> "TcpAndUdp"]
Add(port, method, mode, users) ==
    [cmd |-> "add", param |-> [kind |-> "add", port |-> port, method |-> method, plugin |-> "none",
                               plugin_mode |-> "none", mode |-> mode, users |-> users]]
ManRequests == {
    Add(1, "none", "none", "none"), Add(1, "m2", "TcpOnly", "u1"), Add(2, "none", "none", "none"), Add(1, "bad", "none", "none"),
    [cmd |-> "remove", param |-> [kind |-> "remove", port |-> 1]],
    [cmd |-> "remove", param |-> [kind |-> "none"]],
    [cmd |-> "list", param |-> [kind |-> "none"]]}

ManConfs == {ManConf("builtin"), ManConf("standalone")}

----------------------------------------------------------------------------
(* The DNS relay: a list that knows some names and networks, answers that  *)
(* disagree, one and two requests, connections that time out and close.    *)
SectionLine(name) == [kind |-> "section", name |-> name]
NetLine(fam, parts) == [kind |-> "net", net |-> [fam |-> fam, parts |-> parts]]
HostLine(kind, host) == [kind |-> kind, host |-> host]
RegexLine(head, host, tail) == [kind |-> "regex", head |-> head, host |-> host, tail |-> tail]
BlackFile == <<HostLine("tree", <<"b", "COM">>), NetLine("v4", <<10>>), [kind |-> "comment"], SectionLine("outbound_block_list"),
               NetLine("v6", <<0, 0, 0, 0, 0, 65535, 2570>>), SectionLine("proxy_list"), HostLine("tree", <<"x", "a", "com">>),
               HostLine("tree", <<"a", "com", "">>), RegexLine("^", <<"b", "com">>, "$")>>
WhiteFile == <<SectionLine("bypass_all"), RegexLine("(^|.)", <<"b", "com">>, "$"), SectionLine("white_list"),
               NetLine("v6", <<0, 0, 0, 0, 0, 65535, 2560>>), RegexLine("", <<"mail">>, "")>>
Question(host, type) == [name |-> host, type |-> type, class |-> "IN", fqdn |-> TRUE]
Own == Question(<<"ss", "com">>, "A")
InA == Question(<<"y", "A", "com">>, "A")
InB == Question(<<"w", "b", "com">>, "A")
Open == Question(<<"o", "net">>, "A")
Open2 == Question(<<"p", "net">>, "A")
AnyQ == Question(<<"q", "net">>, "ANY")
Mail == Question(<<"m", "net">>, "MX")
Alias == Question(<<"l", "net">>, "A")
Ptr == Question(<<"4", "3", "2", "10", "in-addr", "arpa">>, "PTR")
Chaos == [Open EXCEPT !.class = "CH"]
Ip4(d) == [fam |-> "v4", parts |-> <<10, 0, 0, d>>]
Ip4Out == [fam |-> "v4", parts |-> <<8, 8, 8, 8>>]
ARec(name, ip) == [name |-> name, type |-> "A", ip |-> ip]
HostRec(name, type, host) == [name |-> name, type |-> type, host |-> host]
Reply(answers, additionals) == [answers |-> answers, additionals |-> additionals]
DnsZone == [s \in {"local", "remote"} |->
    Own :> Reply(<<ARec(Own.name, Ip4Out)>>, <<>>)
    @@ InA :> Reply(<<ARec(InA.name, IF s = "local" THEN Ip4Out ELSE Ip4(1))>>, <<>>)
    @@ InB :> Reply(<<ARec(InB.name, Ip4Out)>>, <<>>)
    @@ Open :> Reply(<<ARec(Open.name, IF s = "local" THEN Ip4(1) ELSE Ip4Out)>>, <<>>)
    @@ Open2 :> Reply(<<ARec(Open2.name, Ip4Out), ARec(Open2.name, Ip4(1))>>, <<>>)
    @@ AnyQ :> Reply(<<HostRec(AnyQ.name, "PTR", <<"b", "com">>)>>, <<>>)
    @@ Mail :> Reply(<<HostRec(Mail.name, "MX", <<"mail", "net">>)>>, <<ARec(<<"mail", "net">>, Ip4(1))>>)
    @@ Alias :> Reply(<<HostRec(Alias.name, "CNAME", <<"k", "net">>), ARec(<<"k", "net">>, Ip4(1)), HostRec(Alias.name, "TXT", <<>>)>>, <<>>)
    @@ Ptr :> Reply(<<HostRec(Ptr.name, "PTR", <<"b", "com">>)>>, <<>>)
    @@ Chaos :> Reply(<<>>, <<>>)]
DnsReq(id, kind, rd, query) == [id |-> id, kind |-> kind, rd |-> rd, query |-> query]
Asks(id, query) == DnsReq(id, "query", TRUE, query)
DnsCase(hasAcl, lines, balancer, mode, ns, kept, capacity, front, requests) ==
    [acl |-> hasAcl, lines |-> lines, balancer |-> balancer, servers |-> {<<"ss", "com">>}, mode |-> mode, ns |-> ns,
     kept |-> kept, capacity |-> capacity, front |-> front, requests |-> requests]
NoList == DnsCase(FALSE, <<>>, TRUE, "UdpOnly", "unix", 1, 1, "tcp",
                  <<Asks("i1", Open), DnsReq("i2", "empty", TRUE, Open), DnsReq("i3", "query", FALSE, Open),
                    DnsReq("i4", "bad", TRUE, Open), Asks("i5", InB)>>)
NotAsked == [NoList EXCEPT !.requests = <<>>]
DnsCases ==
    {DnsCase(TRUE, lines, TRUE, via[1], via[2], 1, 3, "udp", <<Asks("i1", q)>>) :
        lines \in {BlackFile, WhiteFile}, via \in {<<"UdpOnly", "socket">>, <<"TcpAndUdp", "unix">>},
        q \in {Open, Open2, Mail, Alias, AnyQ}}
    \cup {DnsCase(TRUE, BlackFile, TRUE, "TcpAndUdp", "socket", 1, 3, "udp", <<Asks("i1", q)>>) : q \in {Open2, Mail}}
    \cup {DnsCase(TRUE, lines, TRUE, "TcpOnly", "unix", 1, 1, front, <<Asks("i1", q1), Asks("i2", q2)>>) :
        lines \in {BlackFile, WhiteFile}, front \in {"udp", "tcp"}, q1 \in {Own, InA, Ptr}, q2 \in {InB, Chaos}}
    \cup {DnsCase(TRUE, BlackFile, TRUE, "UdpOnly", "unix", kept, 2, "udp", <<Asks("i1", Open), Asks("i2", InA)>>) : kept \in {0, 1}}
    \cup {NoList, [NoList EXCEPT !.balancer = FALSE], NotAsked}

DnsLowerCase == "COM" :> "com" @@ "A" :> "a"
DnsDigits == "0" :> 0 @@ "2" :> 2 @@ "3" :> 3 @@ "4" :> 4 @@ "10" :> 10
DnsHex == <<"0", "0", "0", "0">> :> 0

----------------------------------------------------------------------------
(* Launching: files that leave out, misspell or add one thing, command     *)
(* lines of the three programs, files that change while sslocal runs.      *)
LaunchEnv == "$K" :> <<"k/">>
C == INSTANCE Config WITH Env <- LaunchEnv
FLocal(protocol, hp) ==
    [disabled |-> FALSE, protocol |-> protocol, local |-> hp, udp |-> C!Missing, mode |-> "-", forward |-> C!Missing,
     tcp_redir |-> "-", udp_redir |-> "-", local_dns |-> C!Missing, remote_dns |-> C!Missing, tun |-> "-", auth |-> "-", acl |-> "-"]
FServer(hp, method, password) ==
    [disabled |-> FALSE, server |-> hp, password |-> password, method |-> method, plugin |-> C!NoPlugin, users |-> <<>>,
     mode |-> "-", remarks |-> C!NoRemarks, id |-> "-", tcp_weight |-> C!NoNum, udp_weight |-> C!NoNum, timeout |-> C!NoNum, acl |-> "-"]
HP(host, port) == C!HostPort(host, port)
Lo == HP("lo4", 1)
S1 == FServer(HP("v4", 1), "aead", <<"k1", "text">>)
S2 == [FServer(HP("name", 2), "aes2022", <<"i1", "k/">>) EXCEPT
          !.users = <<"u1">>, !.mode = "udp_only", !.remarks = [enc |-> "raw", text |-> "r s"], !.tcp_weight = 50, !.timeout = 7,
          !.plugin = [plugin |-> "p", opts |-> "o=1", mode |-> "tcp_and_udp"], !.acl = "f2"]
SimpleServer == [C!Empty EXCEPT !.server = HP("v6", 1), !.method = "aes2022", !.password = <<"i1", "k/">>, !.timeout = 9]
SimpleLocal == [SimpleServer EXCEPT !.local = HP("-", 1), !.mode = "udp_only"]
DnsEntry == [FLocal("dns", Lo) EXCEPT !.local_dns = HP("path", C!NoNum), !.remote_dns = HP("name", C!NoNum)]
Many == [C!Empty EXCEPT
           !.locals = <<FLocal("-", Lo), [FLocal("tunnel", HP("-", 2)) EXCEPT !.mode = "udp_only", !.forward = HP("name", 3), !.acl = "f1"],
                        DnsEntry, [FLocal("bad", Lo) EXCEPT !.disabled = TRUE], FLocal("tun", C!Missing)>>,
           !.servers = <<S1, S2>>, !.ipv6_first = TRUE, !.flags = {"no_delay"}, !.acl = "f0", !.rtt = 1, !.best = 2, !.policy = "reject",
           !.dns = [kind |-> "list", proto |-> "both", hosts |-> <<HP("v4", C!NoNum), HP("v6", 5)>>]]
WithServers(ss) == [Many EXCEPT !.servers = ss]
WithLocal(l) == [SimpleServer EXCEPT !.locals = <<l>>]
WithServer(s) == [SimpleLocal EXCEPT !.servers = <<s>>]
(* A single server or service of the extended form, with all it may have.  *)
Alone(s, l) == [C!Empty EXCEPT !.servers = <<s>>, !.locals = <<l>>, !.timeout = 9, !.best = 2, !.dns_cache = 1]
Private == [FLocal("-", Lo) EXCEPT !.auth = "users", !.acl = "f1", !.tun = "t", !.mode = "udp_only"]
Pluggable(plugin, mode) == [plugin |-> plugin, opts |-> "-", mode |-> mode]

(* Files with a flaw, or with something seldom used.                       *)
OddFiles == {
    [SimpleLocal EXCEPT !.json = "bad"], [SimpleLocal EXCEPT !.mode = "bad"], [SimpleLocal EXCEPT !.local = HP("lo4", 0)],
    [SimpleLocal EXCEPT !.local = HP("-", 0)], [SimpleLocal EXCEPT !.local = C!Missing], [SimpleLocal EXCEPT !.protocol = "bad"],
    [SimpleLocal EXCEPT !.protocol = "http"], [SimpleLocal EXCEPT !.protocol = "dns"],
    [SimpleLocal EXCEPT !.method = "-"], [SimpleLocal EXCEPT !.method = "bad"], [SimpleLocal EXCEPT !.password = <<>>],
    [SimpleLocal EXCEPT !.password = <<"text">>], [SimpleLocal EXCEPT !.password = <<"i1", "short">>], [SimpleLocal EXCEPT !.password = <<"text", "k1">>],
    [SimpleLocal EXCEPT !.method = "chacha2022"], [SimpleLocal EXCEPT !.method = "none", !.password = <<>>],
    [SimpleLocal EXCEPT !.plugin = Pluggable("", "bad")], [SimpleLocal EXCEPT !.plugin = Pluggable("p", "bad")], [SimpleLocal EXCEPT !.plugin = Pluggable(" ", "-")],
    [SimpleLocal EXCEPT !.bind_addr = "bad"], [SimpleLocal EXCEPT !.policy = "bad"], [SimpleLocal EXCEPT !.acl = "bad"],
    [SimpleLocal EXCEPT !.interval = 0], [SimpleLocal EXCEPT !.server = HP("any", 1)], [SimpleLocal EXCEPT !.server = HP("v4", 0)],
    [SimpleLocal EXCEPT !.server = HP("", 1)], [SimpleLocal EXCEPT !.server = HP("v4", C!NoNum)],
    [SimpleLocal EXCEPT !.dns = [kind |-> "list", proto |-> "udp", hosts |-> <<HP("name", C!NoNum)>>]],
    [SimpleLocal EXCEPT !.dns = [kind |-> "unix"]], [SimpleLocal EXCEPT !.dns = [kind |-> "named"]]}
    \cup {WithLocal(l) : l \in {
        [FLocal("-", Lo) EXCEPT !.mode = "bad"], FLocal("-", HP("-", 0)), FLocal("-", HP("lo4", C!NoNum)), FLocal("http", C!Missing),
        [FLocal("-", Lo) EXCEPT !.udp = HP("-", 0)], [FLocal("-", Lo) EXCEPT !.udp = HP("-", 9)], FLocal("tunnel", Lo),
        [FLocal("tunnel", Lo) EXCEPT !.forward = HP("v4", C!NoNum)], FLocal("redir", Lo), [FLocal("redir", Lo) EXCEPT !.tcp_redir = "bad"],
        [FLocal("redir", Lo) EXCEPT !.udp_redir = "tproxy"], FLocal("dns", Lo), [DnsEntry EXCEPT !.remote_dns = C!Missing],
        [DnsEntry EXCEPT !.local_dns = HP("v4", C!NoNum), !.mode = "udp_only"], [FLocal("tun", C!Missing) EXCEPT !.tun = "bad"],
        [FLocal("-", Lo) EXCEPT !.auth = "bad"], [FLocal("-", Lo) EXCEPT !.acl = "bad"]}}
    \cup {WithServer(s) : s \in {
        [S1 EXCEPT !.method = "bad"], [S2 EXCEPT !.users = <<"text">>], [S2 EXCEPT !.users = <<"u1", "short">>],
        [S2 EXCEPT !.mode = "bad"], [S1 EXCEPT !.udp_weight = 101], [S1 EXCEPT !.acl = "bad"], [S1 EXCEPT !.disabled = TRUE],
        [S1 EXCEPT !.id = "id", !.plugin = Pluggable("p", "tcp_only")], S2}}
    \cup {Alone(s, l) :
        s \in {S2, [S2 EXCEPT !.remarks = C!NoRemarks], [S1 EXCEPT !.mode = "udp_only"]},
        l \in {Private, [Private EXCEPT !.udp = HP("v6", 9)], [Private EXCEPT !.protocol = "redir", !.tcp_redir = "tproxy"]}}
    \cup {[Alone(S1, Private) EXCEPT !.servers = <<S1, S2>>], [Alone([S1 EXCEPT !.acl = "f2"], Private) EXCEPT !.acl = "f0"]}

NoCmd == [server |-> C!Missing, method |-> "-", password |-> <<>>, plugin |-> "-", mode |-> "-", url |-> C!NoUrl, local |-> C!Missing,
          protocol |-> "-", udp |-> C!Missing, redir |-> "-", tun |-> "-", timeout |-> C!NoNum, dns_cache |-> C!NoNum, forward |-> C!Missing, local_dns |-> C!Missing, remote_dns |-> C!Missing, dns_local |-> C!Missing,
          manager |-> C!Missing, flags |-> {}, acl |-> "-", bind_addr |-> "-", udp_timeout |-> C!NoNum, dns |-> [kind |-> "-"], stat |-> FALSE]
CmdServer == [NoCmd EXCEPT !.server = HP("v4", 7), !.method = "aes2022", !.password = <<"$K">>]
CmdLocal == [CmdServer EXCEPT !.local = HP("lo4", 5)]
Url(method, password, addr) == [C!NoUrl EXCEPT !.user = C!Piece("raw", <<method>>), !.pass = C!Piece("percent", password), !.addr = addr]
LocalCmds == {
    NoCmd, CmdServer, CmdLocal, [CmdLocal EXCEPT !.mode = "udp_only", !.acl = "f3", !.flags = {"mptcp"}, !.udp_timeout = 3],
    [CmdLocal EXCEPT !.mode = "tcp_and_udp", !.remote_dns = HP("v4", 53), !.local_dns = HP("path", C!NoNum), !.dns_local = HP("lo4", 6), !.stat = TRUE],
    [CmdLocal EXCEPT !.remote_dns = HP("v4", 53), !.dns_local = HP("lo4", 6)],
    [CmdLocal EXCEPT !.protocol = "tunnel", !.forward = HP("name", 3)], [CmdLocal EXCEPT !.local = HP("lo4", 0)],
    [CmdLocal EXCEPT !.udp = HP("lo6", 0)], [CmdLocal EXCEPT !.udp = HP("lo6", 6), !.timeout = 4, !.dns_cache = 2],
    [CmdLocal EXCEPT !.protocol = "tunnel", !.forward = HP("name", 0)], [CmdLocal EXCEPT !.protocol = "redir", !.redir = "tproxy"],
    [CmdServer EXCEPT !.protocol = "tun", !.tun = "t"],
    [NoCmd EXCEPT !.local = HP("lo4", 5), !.url = Url("none", <<"k1">>, HP("name", 3))],
    [NoCmd EXCEPT !.local = HP("lo4", 5), !.url = Url("aead", <<"$K">>, HP("v6", 3))], [CmdLocal EXCEPT !.protocol = "http", !.mode = "udp_only"],
    [CmdServer EXCEPT !.protocol = "tun"], [CmdServer EXCEPT !.protocol = "socks"], [CmdLocal EXCEPT !.password = <<>>],
    [CmdLocal EXCEPT !.password = <<"text">>], [CmdLocal EXCEPT !.acl = "bad", !.plugin = "p"],
    [CmdLocal EXCEPT !.dns = [kind |-> "list", proto |-> "tcp", hosts |-> <<HP("bad", 1)>>]],
    [CmdLocal EXCEPT !.dns = [kind |-> "unix"], !.bind_addr = "v4"],
    [NoCmd EXCEPT !.local = HP("lo4", 5), !.url = Url("aead", <<"k/">>, HP("name", C!NoNum))],
    [NoCmd EXCEPT !.url = Url("bad", <<"k1">>, HP("v4", 1))], [NoCmd EXCEPT !.url = Url("aead", <<"k1">>, HP("", 1))],
    [NoCmd EXCEPT !.url = [C!NoUrl EXCEPT !.user = C!Piece("raw", <<"aead">>)]]}
LCase(type, path, file, later, cmd) == [type |-> type, path |-> path, file |-> file, later |-> later, cmd |-> cmd]
LaunchCases ==
    {LCase(type, TRUE, file, {}, NoCmd) : type \in {"local", "server", "manager"}, file \in OddFiles \cup {SimpleServer, SimpleLocal, Many}}
    \cup {LCase("local", path, SimpleLocal, {}, cmd) : path \in BOOLEAN, cmd \in LocalCmds}
    \cup {LCase("local", TRUE, file, {WithServers(<<S1, [S2 EXCEPT !.tcp_weight = 101]>>), WithServers(<<S2>>),
                                     [SimpleLocal EXCEPT !.password = <<"text">>]}, cmd) : file \in {SimpleLocal, Many}, cmd \in {NoCmd, CmdLocal}}
    \cup {LCase(type, path, [SimpleServer EXCEPT !.manager = HP("path", C!NoNum), !.servers = ss], {}, cmd) :
            type \in {"server", "manager"}, path \in BOOLEAN, ss \in {<<>>, <<S2>>},
            cmd \in {NoCmd, [CmdServer EXCEPT !.mode = "tcp_and_udp", !.plugin = "p"], [CmdServer EXCEPT !.manager = HP("name", 8), !.mode = "udp_only"]}}

LaunchM == INSTANCE Launch WITH
    Env <- LaunchEnv, Cases <- LaunchCases, MaxReloads <- 2,
    conf <- x1, disk <- x2, stage <- x3, config <- x4, services <- x5, balancer <- x6, out <- x7

----------------------------------------------------------------------------
Init ==
    /\ part \in {"manager", "udp", "dns", "socks", "launch"}
    /\ ManagerInit /\ ServerInit /\ DnsInit
    /\ IF part = "launch" THEN LaunchM!Init
       ELSE x1 = 0 /\ x2 = 0 /\ x3 = 0 /\ x4 = 0 /\ x5 = 0 /\ x6 = 0 /\ x7 = 0
    /\ IF part = "socks" THEN SocksInit ELSE Abandoned
    /\ part # "manager" => conf = ManConf("builtin")
    /\ part # "udp" => cfg = AeadConfig
    /\ part # "dns" => setup = NotAsked

Next ==
    \/ part = "manager" /\ ManagerNext /\ UNCHANGED <<part, serverVars, dnsVars, socksVars, xs>>
    \/ part = "udp" /\ ServerNext /\ UNCHANGED <<part, managerVars, dnsVars, socksVars, xs>>
    \/ part = "socks" /\ SocksNext /\ UNCHANGED <<part, managerVars, serverVars, dnsVars, xs>>
    \/ part = "dns" /\ DnsNext /\ UNCHANGED <<part, managerVars, serverVars, socksVars, xs>>
    \/ part = "launch" /\ LaunchM!Next /\ UNCHANGED <<part, managerVars, serverVars, dnsVars, socksVars>>

Spec == Init /\ [][Next]_vars

(* Programs run whole or not at all: see Launch.                           *)
RunsWhole == part = "launch" => LaunchM!RunsWhole

(* What is written of a configuration reads back: see Launch.              *)
ReadsBack == part = "launch" => LaunchM!ReadsBack
=============================================================================
