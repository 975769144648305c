------------------------------- MODULE Config -------------------------------
(***************************************************************************)
(* Configuration: what a file says, how it is checked, what is written     *)
(* back, and servers as URLs.  A file is a record of what it gives, None   *)
(* and NoNum standing for what it leaves out.  Texts that differ only in   *)
(* spelling are one value; a value ending in "bad" does not parse.         *)
(***************************************************************************)
EXTENDS Integers, Sequences, SequencesExt

CONSTANT Env    \* environment variables: name -> password

None == "-"
NoNum == 0 - 1

When(wrong, error) == IF wrong THEN error ELSE None
FirstError(errors) == LET found == SelectSeq(errors, LAMBDA e : e # None)
                      IN  IF found = <<>> THEN None ELSE found[1]
Or(value, default) == IF value = None THEN default ELSE value
OrNum(value, default) == IF value = NoNum THEN default ELSE value

----------------------------------------------------------------------------
(* Modes, addresses, keys.                                                 *)

Modes == {"tcp_only", "udp_only", "tcp_and_udp"}
EnableTcp(mode) == mode \in {"tcp_only", "tcp_and_udp"}
EnableUdp(mode) == mode \in {"udp_only", "tcp_and_udp"}

(* Mutant: the later mode wins. *)
MergeLater(mode, other) == other

(* Mode::merge: the bits of both.                                          *)
Merge(mode, other) == IF mode = other THEN mode ELSE "tcp_and_udp"

(* A host is an IP address, a domain name or, on unix, a path.             *)
Ips == {"v4", "v6", "lo4", "lo6", "any"}
HostPort(host, port) == [host |-> host, port |-> port]
Missing == HostPort(None, NoNum)
NoAddr == [kind |-> None, host |-> "", port |-> 0]
Addr(host, port) == [kind |-> IF host \in Ips THEN "socket" ELSE "domain", host |-> host, port |-> port]
ToHostPort(addr) == IF addr = NoAddr THEN Missing
                    ELSE HostPort(addr.host, IF addr.kind = "unix" THEN NoNum ELSE addr.port)

(* A name server; what is no IP address is the path of a unix socket.      *)
NameServer(hp) ==
    IF hp.host = None THEN NoAddr
    ELSE IF hp.host \in Ips THEN Addr(hp.host, OrNum(hp.port, 53))
    ELSE [kind |-> "unix", host |-> hp.host, port |-> 0]

Methods == {"none", "aead", "aes2022", "chacha2022"}
SupportsEih(method) == method = "aes2022"

(* password_to_keys: a password is the keys between its colons.            *)
PasswordToKeys(method, password) ==
    LET badKey(key) == key \in {"short", "text"}
    IN  IF SupportsEih(method)
        THEN [panic |-> password = <<>> \/ badKey(Last(password)) \/ \E i \in 1 .. Len(password) - 1 : password[i] = "text",
              password |-> IF password = <<>> THEN <<>> ELSE <<Last(password)>>,
              identity |-> IF password = <<>> THEN <<>> ELSE Front(password)]
        ELSE [panic |-> method = "chacha2022" /\ (Len(password) # 1 \/ badKey(password[1])),
              password |-> password, identity |-> <<>>]

ReadVariableFieldValue(password) ==
    IF Len(password) = 1 /\ password[1] \in DOMAIN Env THEN Env[password[1]] ELSE password

NoPlugin == [plugin |-> None, opts |-> None, mode |-> None]

NoRemarks == [enc |-> None, text |-> ""]

(* ServerConfig::new                                                       *)
NewServer(addr, password, method) ==
    [addr |-> addr, method |-> method, password |-> PasswordToKeys(method, password).password,
     identity |-> PasswordToKeys(method, password).identity, users |-> <<>>, timeout |-> NoNum, plugin |-> NoPlugin,
     remarks |-> NoRemarks, id |-> None, mode |-> "tcp_and_udp", tcp_weight |-> 100, udp_weight |-> 100,
     acl |-> None]

----------------------------------------------------------------------------
(* Local services of a file.                                               *)

Protocols == {"socks", "http", "tunnel", "redir", "dns", "tun"}

(* LocalConfig::new                                                        *)
NewLocal(protocol) ==
    [protocol |-> protocol, addr |-> NoAddr, udp_addr |-> NoAddr, mode |-> IF protocol = "dns" THEN "tcp_and_udp" ELSE "tcp_only",
     forward_addr |-> NoAddr, tcp_redir |-> None, udp_redir |-> None, local_dns_addr |-> NoAddr, remote_dns_addr |-> NoAddr,
     tun |-> None, tun_destination |-> None, auth |-> None, acl |-> None]

GlobalMode(file) == Or(file.mode, "tcp_only")

(* get_local_address                                                       *)
LocalAddress(file, hp) ==
    IF hp.host = None THEN Addr(IF file.ipv6_first THEN "lo6" ELSE "lo4", hp.port) ELSE Addr(hp.host, hp.port)

(* local_port 0 fails an assertion where no local_address was given.       *)
BasicLocalError(file) == FirstError(<<
    When(file.local.host # None /\ file.local.port \in {NoNum, 0}, "MissingField"),
    When(file.local.port = 0, "panic"),
    When(file.local.port # NoNum /\ Or(file.protocol, "socks") \notin Protocols, "Malformed")>>)

BasicLocal(file) ==
    IF file.local.port = NoNum THEN <<>>
    ELSE <<[NewLocal(Or(file.protocol, "socks")) EXCEPT !.addr = LocalAddress(file, file.local), !.mode = GlobalMode(file)]>>

ExtLocalError(l) == FirstError(<<
    When(Or(l.protocol, "socks") \notin Protocols, "Malformed"),
    When(l.local.port = 0 \/ (l.local.port = NoNum /\ l.local.host # None), "Malformed"),
    When(l.udp.port = 0, "Malformed"),
    When(Or(l.mode, "tcp_only") \notin Modes, "Malformed"),
    When(l.forward.host # None /\ l.forward.port \in {NoNum, 0}, "Malformed"),
    When("bad" \in {l.tcp_redir, l.udp_redir, l.tun}, "Malformed"),
    When(l.auth = "bad", "Invalid"),
    When(l.acl = "bad", "Invalid")>>)

(* The destination of a tun device is in the file but is not read.         *)
ExtLocal(file, l) ==
    LET protocol == Or(l.protocol, "socks")
        given(hp, addr) == IF hp.host = None THEN NoAddr ELSE addr
    IN  [NewLocal(protocol) EXCEPT
            !.addr = IF l.local.port = NoNum THEN NoAddr ELSE LocalAddress(file, l.local),
            !.udp_addr = IF l.udp.port = NoNum THEN NoAddr ELSE LocalAddress(file, l.udp),
            !.mode = Or(l.mode, IF protocol = "dns" THEN "tcp_and_udp" ELSE GlobalMode(file)),
            !.forward_addr = given(l.forward, Addr(l.forward.host, l.forward.port)),
            !.tcp_redir = l.tcp_redir, !.udp_redir = l.udp_redir,
            !.local_dns_addr = NameServer(l.local_dns),
            !.remote_dns_addr = given(l.remote_dns, Addr(l.remote_dns.host, OrNum(l.remote_dns.port, 53))),
            !.tun = l.tun, !.auth = l.auth, !.acl = l.acl]

Enabled(entries) == SelectSeq(entries, LAMBDA e : ~e.disabled)
Each(entries, Op(_)) == [i \in DOMAIN entries |-> Op(entries[i])]

LocalsError(file) == FirstError(<<BasicLocalError(file), FirstError(Each(Enabled(file.locals), ExtLocalError))>>)
LoadLocals(file) == BasicLocal(file) \o Each(Enabled(file.locals), LAMBDA l : ExtLocal(file, l))

----------------------------------------------------------------------------
(* Servers of a file.                                                      *)

(* An empty plugin is no plugin.                                           *)
HasPlugin(plugin) == plugin.plugin \notin {None, ""}
PluginError(plugin) == When(HasPlugin(plugin) /\ Or(plugin.mode, "tcp_only") \notin Modes, "Malformed")
LoadPlugin(plugin) == IF HasPlugin(plugin) THEN [plugin EXCEPT !.mode = Or(@, "tcp_only")] ELSE NoPlugin

ServerError(s) == FirstError(<<
    When(s.method \notin Methods, "Invalid"),
    When(s.password = <<>> /\ s.method # "none", "MissingField"),
    When(PasswordToKeys(s.method, ReadVariableFieldValue(s.password)).panic, "panic"),
    When(\E i \in DOMAIN s.users : s.users[i] = "text", "Malformed"),
    When(Or(s.mode, "tcp_only") \notin Modes, "Invalid"),
    PluginError(s.plugin),
    When({s.tcp_weight, s.udp_weight} \ (0 .. 100 \cup {NoNum}) # {}, "Invalid"),
    When(s.acl = "bad", "Invalid")>>)

(* A server of the file; its timeout is the file's, not its own.           *)
LoadServer(file, s, mode) ==
    [NewServer(Addr(s.server.host, s.server.port), ReadVariableFieldValue(s.password), s.method) EXCEPT
        !.users = s.users, !.mode = mode, !.plugin = LoadPlugin(s.plugin), !.timeout = file.timeout,
        !.remarks = s.remarks, !.id = s.id, !.tcp_weight = OrNum(s.tcp_weight, 100), !.udp_weight = OrNum(s.udp_weight, 100),
        !.acl = s.acl]

(* The server of the simple form, as an entry of the extended one.         *)
BasicServer(file) ==
    [disabled |-> FALSE, server |-> file.server, password |-> file.password, method |-> file.method, plugin |-> file.plugin,
     users |-> <<>>, mode |-> None, remarks |-> NoRemarks, id |-> None, tcp_weight |-> NoNum, udp_weight |-> NoNum,
     timeout |-> file.timeout, acl |-> None]

HasBasicServer(file) == file.server.host # None /\ file.server.port # NoNum /\ file.method # None

(* server, server_port, password and method together; a manager may have   *)
(* the method alone.                                                       *)
BasicServerError(file, type) ==
    IF HasBasicServer(file) THEN ServerError(BasicServer(file))
    ELSE When(file.server # Missing \/ file.password # <<>> \/ (file.method # None /\ type # "manager"), "Malformed")

ServersError(file, type) ==
    FirstError(<<BasicServerError(file, type), FirstError(Each(Enabled(file.servers), ServerError))>>)

LoadServers(file, type) ==
    (IF HasBasicServer(file) THEN <<LoadServer(file, BasicServer(file), GlobalMode(file))>> ELSE <<>>)
    \o Each(Enabled(file.servers),
            LAMBDA s : LoadServer(file, s, Or(s.mode, IF type = "local" THEN "tcp_and_udp" ELSE GlobalMode(file))))

----------------------------------------------------------------------------
(* The manager, the resolver and the rest.                                 *)

NoManager == [addr |-> NoAddr, mode |-> "tcp_only", method |-> None, plugin |-> NoPlugin]

ManagerError(file) ==
    IF file.manager.host = None THEN None
    ELSE FirstError(<<When(file.method # None /\ file.method \notin Methods, "Invalid"), PluginError(file.plugin)>>)

LoadManager(file) ==
    IF file.manager.host = None THEN NoManager
    ELSE [addr |-> IF file.manager.port = NoNum THEN [kind |-> "unix", host |-> file.manager.host, port |-> 0]
                   ELSE Addr(file.manager.host, file.manager.port),
          mode |-> GlobalMode(file), method |-> file.method, plugin |-> LoadPlugin(file.plugin)]

(* parse_dns_nameservers: every host over the protocols named.             *)
DnsError(dns) == When(dns.kind = "list" /\ \E i \in DOMAIN dns.hosts : dns.hosts[i].host \notin Ips, "Invalid")

ParseDnsNameservers(dns) ==
    LET asked(hp) == [i \in 1 .. (IF dns.proto = "both" THEN 2 ELSE 1) |->
                        <<Addr(hp.host, OrNum(hp.port, 53)), IF dns.proto = "both" THEN <<"udp", "tcp">>[i] ELSE dns.proto>>]
    IN  IF dns.kind = "unix" THEN [kind |-> "LocalDns", servers |-> <<>>]
        ELSE [kind |-> "HickoryDns", servers |-> FlattenSeq(Each(dns.hosts, asked))]

(* set_dns_formatted                                                       *)
SetDnsFormatted(dns) ==
    CASE dns.kind \in {None, "system"} -> [kind |-> "System", servers |-> <<>>]
      [] dns.kind = "named" -> [kind |-> "HickoryDns", servers |-> <<>>]
      [] dns.kind = "resolver" -> [kind |-> "HickoryDns", servers |-> dns.servers]
      [] OTHER -> ParseDnsNameservers(dns)

OptionsError(file) == FirstError(<<
    DnsError(file.dns),
    When(file.bind_addr \notin Ips \cup {None}, "Invalid"),
    When(file.policy \notin {None, "default", "ignore", "detect", "reject"}, "Invalid"),
    When(file.acl = "bad", "Invalid")>>)

(* Config::new                                                             *)
NewConfig(type) ==
    [type |-> type, local |-> <<>>, server |-> <<>>, manager |-> NoManager, dns |-> SetDnsFormatted([kind |-> None]),
     flags |-> {}, ipv6_first |-> FALSE, udp_timeout |-> NoNum, bind_addr |-> None, policy |-> "default",
     dns_cache |-> NoNum, rtt |-> NoNum, interval |-> NoNum, best |-> NoNum, acl |-> None]

LoadOptions(file, config) ==
    [config EXCEPT !.dns = SetDnsFormatted(file.dns), !.flags = file.flags, !.ipv6_first = file.ipv6_first,
                   !.udp_timeout = file.udp_timeout, !.bind_addr = file.bind_addr, !.policy = Or(file.policy, "default"),
                   !.dns_cache = file.dns_cache, !.rtt = file.rtt, !.interval = file.interval, !.best = file.best, !.acl = file.acl]

(* load_from_ssconfig: the first error, or the configuration.              *)
LoadError(file, type) == FirstError(<<
    When(file.json = "bad", "JsonParsingError"),
    When(GlobalMode(file) \notin Modes, "Malformed"),
    IF type = "local" THEN LocalsError(file) ELSE None,
    ServersError(file, type),
    ManagerError(file),
    OptionsError(file)>>)

Load(file, type) ==
    LoadOptions(file, [NewConfig(type) EXCEPT !.local = IF type = "local" THEN LoadLocals(file) ELSE <<>>,
                                              !.server = LoadServers(file, type),
                                              !.manager = LoadManager(file)])

----------------------------------------------------------------------------
(* check_integrity                                                         *)

(* Mutant: nothing is asked of DNS services. *)
LocalIntegrityNoDns(l) == FirstError(<<
    When(l.protocol # "tun" /\ l.addr = NoAddr, "MissingField"),
    When(l.protocol = "tunnel" /\ l.forward_addr = NoAddr, "MissingField"),
    When(l.protocol = "http" /\ ~EnableTcp(l.mode), "Invalid")>>)

LocalIntegrity(l) == FirstError(<<
    When(l.protocol # "tun" /\ l.addr = NoAddr, "MissingField"),
    When(l.protocol = "dns" /\ NoAddr \in {l.local_dns_addr, l.remote_dns_addr}, "MissingField"),
    When(l.protocol = "tunnel" /\ l.forward_addr = NoAddr, "MissingField"),
    When(l.protocol = "http" /\ ~EnableTcp(l.mode), "Invalid")>>)

ServerIntegrity(type, s) == FirstError(<<
    When(s.plugin.plugin = " ", "Malformed"),
    When(s.addr.port = 0 \/ s.addr.host = "" \/ (type = "local" /\ s.addr.host = "any"), "Malformed"),
    When(\E i \in DOMAIN s.users : s.users[i] = "short", "Malformed")>>)

CheckIntegrity(c) == FirstError(<<
    When(c.type = "local" /\ c.local = <<>>, "MissingField"),
    IF c.type = "local" THEN FirstError(Each(c.local, LocalIntegrity)) ELSE None,
    When(c.type = "local" /\ 0 \in {c.rtt, c.interval}, "Invalid"),
    When(c.type = "server" /\ c.server = <<>>, "MissingField"),
    When(c.type = "manager" /\ c.manager.addr = NoAddr, "MissingField"),
    FirstError(Each(c.server, LAMBDA s : ServerIntegrity(c.type, s)))>>)

----------------------------------------------------------------------------
(* Display: a configuration as a file.                                     *)

LocalIsBasic(l) ==
    /\ l.protocol = "socks" /\ l.udp_addr = NoAddr /\ l.forward_addr = NoAddr
    /\ {l.tcp_redir, l.udp_redir} = {None} /\ {l.local_dns_addr, l.remote_dns_addr} = {NoAddr}

ServerIsBasic(s) == s.remarks = NoRemarks /\ s.id = None

Empty == [json |-> "ok", mode |-> None, ipv6_first |-> FALSE, local |-> Missing, protocol |-> None, locals |-> <<>>,
          server |-> Missing, password |-> <<>>, method |-> None, plugin |-> NoPlugin, timeout |-> NoNum, servers |-> <<>>,
          manager |-> Missing, dns |-> [kind |-> None], flags |-> {}, udp_timeout |-> NoNum, bind_addr |-> None,
          policy |-> None, dns_cache |-> NoNum, rtt |-> NoNum, interval |-> NoNum, best |-> NoNum, acl |-> None]

(* A service that is more than a SOCKS address, or one of several: its     *)
(* authentication is not written.                                          *)
WriteExtLocal(l) ==
    [disabled |-> FALSE, protocol |-> IF l.protocol = "socks" THEN None ELSE l.protocol, local |-> ToHostPort(l.addr),
     udp |-> ToHostPort(l.udp_addr), mode |-> l.mode, forward |-> ToHostPort(l.forward_addr), tcp_redir |-> l.tcp_redir,
     udp_redir |-> l.udp_redir, local_dns |-> ToHostPort(l.local_dns_addr), remote_dns |-> ToHostPort(l.remote_dns_addr),
     tun |-> l.tun, auth |-> None, acl |-> l.acl]

(* A single plain service: its address, and its list as that of all.       *)
WriteLocals(c, file) ==
    IF Len(c.local) = 1 /\ LocalIsBasic(c.local[1])
    THEN [file EXCEPT !.local = ToHostPort(c.local[1].addr), !.acl = c.local[1].acl]
    ELSE [file EXCEPT !.locals = Each(c.local, WriteExtLocal)]

WritePlugin(plugin) == [plugin EXCEPT !.mode = IF @ = "tcp_only" THEN None ELSE @]

(* Mutant: the mode is not written. *)
WriteBasicServerNoMode(s, file) ==
    [file EXCEPT !.server = ToHostPort(s.addr), !.method = s.method, !.password = IF s.method = "none" THEN <<>> ELSE s.password,
                 !.plugin = WritePlugin(s.plugin), !.timeout = s.timeout, !.acl = Or(s.acl, @)]

(* One server with neither remarks nor an id: not its users or weights,    *)
(* its mode and its list as those of all.                                  *)
WriteBasicServer(s, file) ==
    [file EXCEPT !.server = ToHostPort(s.addr), !.method = s.method, !.password = IF s.method = "none" THEN <<>> ELSE s.password,
                 !.plugin = WritePlugin(s.plugin), !.timeout = s.timeout, !.mode = s.mode, !.acl = Or(s.acl, @)]

WriteExtServer(s) ==
    [disabled |-> FALSE, server |-> ToHostPort(s.addr), method |-> s.method, users |-> s.users,
     password |-> IF s.method = "none" THEN <<>> ELSE s.password, plugin |-> WritePlugin(s.plugin), timeout |-> s.timeout,
     remarks |-> s.remarks, id |-> s.id, mode |-> s.mode, acl |-> s.acl,
     tcp_weight |-> IF s.tcp_weight = 100 THEN NoNum ELSE s.tcp_weight,
     udp_weight |-> IF s.udp_weight = 100 THEN NoNum ELSE s.udp_weight]

WriteServers(c, file) ==
    IF Len(c.server) = 1 /\ ServerIsBasic(c.server[1]) THEN WriteBasicServer(c.server[1], file)
    ELSE [file EXCEPT !.servers = Each(c.server, WriteExtServer)]

(* The manager's mode, method and plugin, where no server has set them.    *)
WriteManager(c, file) ==
    IF c.manager.addr = NoAddr THEN file
    ELSE [file EXCEPT !.manager = ToHostPort(c.manager.addr), !.mode = Or(@, c.manager.mode), !.method = Or(@, c.manager.method),
                      !.plugin = IF @.plugin # None THEN @ ELSE [c.manager.plugin EXCEPT !.mode = None]]

(* A unix resolver is written without its scheme; the size of the DNS      *)
(* cache is not written.                                                   *)
WriteOptions(c, file) ==
    [file EXCEPT !.dns = IF c.dns.kind = "System" THEN [kind |-> None]
                         ELSE IF c.dns.kind = "LocalDns" THEN [kind |-> "list", proto |-> "both", hosts |-> <<HostPort("path", NoNum)>>]
                         ELSE [kind |-> "resolver", servers |-> c.dns.servers],
                 !.flags = c.flags, !.ipv6_first = c.ipv6_first, !.udp_timeout = c.udp_timeout, !.bind_addr = c.bind_addr,
                 !.policy = IF c.policy = "default" THEN None ELSE c.policy,
                 !.rtt = c.rtt, !.interval = c.interval, !.best = IF c.rtt = NoNum /\ c.interval = NoNum THEN NoNum ELSE c.best,
                 !.acl = Or(c.acl, @)]

Written(c) == WriteOptions(c, WriteManager(c, WriteServers(c, WriteLocals(c, Empty))))

----------------------------------------------------------------------------
(* Servers as URLs.  A piece of a URL is a text and how it is encoded; raw *)
(* text with a reserved character does not survive.                        *)

Reserved == {"k/", "r s", "o=1"}
Piece(enc, text) == [enc |-> enc, text |-> text]
NoUrl == [user |-> Piece("raw", <<>>), pass |-> Piece(None, <<>>), addr |-> Missing, plugin |-> Piece(None, <<>>), frag |-> NoRemarks]
Survives(piece) == piece.enc # "raw" \/ \A i \in DOMAIN piece.text : piece.text[i] \notin Reserved

(* Mutant: the key of a 2022 method is put into the URL as it is. *)
UserInfoRaw(s) ==
    IF s.method \in {"aes2022", "chacha2022"}
    THEN [user |-> Piece("raw", <<s.method>>), pass |-> Piece("raw", s.password)]
    ELSE [user |-> Piece("base64", <<s.method>> \o s.password), pass |-> Piece(None, <<>>)]

UserInfo(s) ==
    IF s.method \in {"aes2022", "chacha2022"}
    THEN [user |-> Piece("raw", <<s.method>>), pass |-> Piece("percent", s.password)]
    ELSE [user |-> Piece("base64", <<s.method>> \o s.password), pass |-> Piece(None, <<>>)]

ToUrl(s) ==
    [NoUrl EXCEPT !.user = UserInfo(s).user, !.pass = UserInfo(s).pass, !.addr = ToHostPort(s.addr),
                  !.plugin = IF s.plugin.plugin = None THEN @ ELSE Piece("percent", <<s.plugin.plugin, s.plugin.opts>>),
                  !.frag = IF s.remarks = NoRemarks THEN @ ELSE [s.remarks EXCEPT !.enc = "percent"]]

(* to_qrcode_url, decoded: the password is raw.                            *)
QrUrl(s) == [NoUrl EXCEPT !.user = Piece("raw", <<s.method>>), !.pass = Piece("raw", s.password), !.addr = ToHostPort(s.addr)]

(* from_url: the port is 8388 if none is given, remarks stay encoded.      *)
UrlServer(url) ==
    LET plain == url.pass.enc # None
        method == url.user.text[1]
        password == IF plain THEN url.pass.text ELSE Tail(url.user.text)
        server == NewServer(Addr(url.addr.host, OrNum(url.addr.port, 8388)), password, method)
    IN  [server EXCEPT !.plugin = IF url.plugin.enc = None THEN @
                                  ELSE [plugin |-> url.plugin.text[1], opts |-> url.plugin.text[2], mode |-> "tcp_only"],
                       !.remarks = url.frag]

UrlError(url) == FirstError(<<
    When(~Survives(url.user) \/ ~Survives(url.pass), "ParseError"),
    When(url.pass.enc = None /\ url.user.enc # "base64", "InvalidUserInfo"),
    When(url.addr.host = None, "MissingHost"),
    When(url.addr.host = "", "InvalidServerAddr"),
    When(url.user.text[1] \notin Methods, "panic"),
    When(PasswordToKeys(url.user.text[1], IF url.pass.enc # None THEN url.pass.text ELSE Tail(url.user.text)).panic, "panic")>>)
=============================================================================
