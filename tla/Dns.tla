-------------------------------- MODULE Dns ---------------------------------
(***************************************************************************)
(* The local DNS relay.  Queries go to the local name server, to the       *)
(* remote one through the proxy, or to both, as the access control list    *)
(* says; the connections used are kept for the next query; what was        *)
(* answered decides how its addresses are reached later.                   *)
(***************************************************************************)
EXTENDS Acl, Functions

CONSTANTS
    Setups,      \* lines of the list, whether there is one, the servers' names, mode, local
                 \* name server, clients kept, addresses remembered, requests, front end
    Zone,        \* side -> query -> the records the name server there answers with
    Digit,       \* label -> its value, for decimal labels; Hex for four hexadecimal ones
    Hex,
    MaxLosses    \* bound: connections the peers close

ASSUME SetupsAssumption == \A c \in Setups :
    /\ c.requests \in Seq(Range(c.requests))
    /\ c.acl \in BOOLEAN /\ c.balancer \in BOOLEAN
    /\ c.kept \in Nat /\ c.capacity \in Nat \ {0}
ASSUME ZoneAssumption == \A c \in Setups : \A r \in DOMAIN c.requests : \A side \in {"local", "remote"} :
    LET known == Zone[side][c.requests[r].query].answers IN known \in Seq(Range(known))

VARIABLES
    setup,
    acl,
    req,     \* request -> how far it is
    cache,   \* <<side, proto>> -> clients kept, oldest first
    rev,     \* reverse lookup cache: <<ip, forward>>, least recently used first
    asked,   \* history: <<side, query>> put on the wire
    out      \* history: answers sent, the peers' closes, how each address was last
             \* resolved, and those whose entries the cache had to let go

dnsVars == <<setup, acl, req, cache, rev, asked, out>>

Attempts == 2
Requests == DOMAIN setup.requests
Sides == {"local", "remote"}

(* A connection: queries not answered yet, answers not read yet.           *)
Fresh == [pending |-> <<>>, inbox |-> <<>>, lost |-> FALSE]

NoResult == [st |-> "none"]
LookupFailed == [st |-> "err"]
IdleLeg == [st |-> "idle", client |-> Fresh]

(* Which connections a lookup uses.                                        *)
Protos(side) ==
    CASE side = "local" -> IF setup.ns = "unix" THEN {"unix"} ELSE {"udp", "tcp"}
      [] setup.mode = "TcpOnly" -> {"tcp"}
      [] setup.mode = "UdpOnly" -> {"udp"}
      [] OTHER -> {"udp", "tcp"}

Side(side) == [attempt |-> 1, res |-> NoResult, legs |-> [p \in Protos(side) |-> IdleLeg]]

Waiting == [st |-> "waiting", use_remote |-> FALSE, remote_response |-> NoResult, sides |-> <<>>]

DnsInit ==
    /\ setup \in Setups
    /\ acl = LoadFromFile(setup.lines)
    /\ req = [r \in Requests |-> Waiting]
    /\ cache = <<>>
    /\ rev = <<>>
    /\ asked = {}
    /\ out = [sent |-> <<>>, closed |-> FALSE, losses |-> 0, routes |-> <<>>, forgotten |-> {}]

----------------------------------------------------------------------------
(* Which name server.                                                      *)

(* should_forward_by_ptr_name: the labels from the last on; those that are *)
(* missing are zero.                                                       *)
PtrLabel(name, i) == IF i <= Len(name) THEN Reverse(name)[i] ELSE "0"

ShouldForwardByPtrName(name) ==
    LET v4 == [i \in 1 .. 4 |-> PtrLabel(name, 2 + i)]
        v6 == [i \in 1 .. 8 |-> [j \in 1 .. 4 |-> PtrLabel(name, 2 + 4 * (i - 1) + j)]]
    IN  CASE PtrLabel(name, 1) = "arpa" /\ PtrLabel(name, 2) = "in-addr" /\ (\A i \in 1 .. 4 : v4[i] \in DOMAIN Digit) ->
                 CheckIpInProxyList(acl, Ip("v4", [i \in 1 .. 4 |-> Digit[v4[i]]]))
          [] PtrLabel(name, 1) = "arpa" /\ PtrLabel(name, 2) = "ip6" /\ (\A i \in 1 .. 8 : v6[i] \in DOMAIN Hex) ->
                 CheckIpInProxyList(acl, Ip("v6", [i \in 1 .. 8 |-> Hex[v6[i]]]))
          [] OTHER -> IsDefaultInProxyList(acl)

Default(lists) == IF IsDefaultInProxyList(lists) THEN "proxy" ELSE "bypass"

CheckNameInProxyList(lists, name, fqdn) ==
    IF fqdn THEN CheckAsciiHostInProxyList(lists, Lower(name)) ELSE Default(lists)

(* Mutant: the query of a server's own name is decided by the list. *)
ForwardOwnNames(q) ==
    IF ~setup.balancer THEN "local" ELSE IF ~setup.acl THEN "remote"
    ELSE LET listed == CheckNameInProxyList(acl, q.name, TRUE)
         IN  IF listed = "none" THEN "open" ELSE IF listed = "proxy" THEN "remote" ELSE "local"

(* should_forward_by_query *)
ShouldForwardByQuery(q) ==
    LET listed == CASE q.class # "IN" -> Default(acl)
                    [] q.class = "IN" /\ q.type = "PTR" -> IF ShouldForwardByPtrName(q.name) THEN "proxy" ELSE "bypass"
                    [] OTHER -> LET name == CheckNameInProxyList(acl, q.name, q.fqdn)
                                IN  IF name = "none" /\ AclIsIpEmpty(acl) /\ AclIsHostEmpty(acl) THEN Default(acl) ELSE name
    IN  CASE ~setup.balancer \/ Lower(q.name) \in setup.servers -> "local"
          [] setup.balancer /\ Lower(q.name) \notin setup.servers /\ ~setup.acl -> "remote"
          [] OTHER -> IF listed = "none" THEN "open" ELSE IF listed = "proxy" THEN "remote" ELSE "local"

(* should_forward_by_response.  A record decides, or the next one does; st *)
(* is the names that belong to the answer and the decision so far.  A PTR  *)
(* record, which an answer to ANY can hold, is taken to be impossible.     *)
ExamineName(lists, st, name, isAnswer) ==
    LET listed == IF isAnswer THEN CheckNameInProxyList(lists, name, TRUE) ELSE "none"
    IN  [names |-> st.names \cup {name},
         decided |-> IF listed = "bypass" \/ (listed = "none" /\ ~IsDefaultInProxyList(lists)) THEN "local" ELSE "open"]

ExamineRecord(lists, st, rec, isAnswer, q) ==
    CASE rec.type = "CNAME" ->
             LET listed == IF isAnswer THEN CheckNameInProxyList(lists, rec.host, TRUE) ELSE "none"
             IN  [names |-> st.names \cup {rec.host},
                  decided |-> IF listed = "proxy" THEN "remote" ELSE IF listed = "bypass" THEN "local" ELSE "open"]
      [] rec.type # "CNAME" /\ isAnswer /\ q.type # "ANY" /\ rec.type # q.type -> [st EXCEPT !.decided = "remote"]
      [] rec.type \in {"A", "AAAA"} /\ (isAnswer => q.type \in {"ANY", rec.type}) ->
             [st EXCEPT !.decided = IF CheckIpInProxyList(lists, rec.ip) THEN "open" ELSE "local"]
      [] rec.type = "PTR" /\ (isAnswer => q.type \in {"ANY", rec.type}) -> [st EXCEPT !.decided = "panic"]
      [] rec.type = "MX" /\ (isAnswer => q.type \in {"ANY", rec.type}) -> ExamineName(lists, st, rec.host, isAnswer)
      [] OTHER -> [st EXCEPT !.decided = IF IsDefaultInProxyList(lists) THEN "open" ELSE "local"]

ExamineAnswer(lists, st, rec, q) ==
    IF st.decided # "open" THEN st
    ELSE IF rec.name \notin st.names THEN [st EXCEPT !.decided = "remote"]
    ELSE ExamineRecord(lists, st, rec, TRUE, q)

ExamineAdditional(lists, st, rec, q) ==
    IF st.decided # "open" \/ rec.name \notin st.names THEN st ELSE ExamineRecord(lists, st, rec, FALSE, q)

ShouldForwardByResponse(lists, res, q) ==
    LET st0 == [names |-> {q.name}, decided |-> "open"]
        st1 == FoldLeft(LAMBDA st, rec : ExamineAnswer(lists, st, rec, q), st0, res.answers)
        st2 == FoldLeft(LAMBDA st, rec : ExamineAdditional(lists, st, rec, q), st1, res.additionals)
    IN  IF res.st = "ok" /\ st2.decided \in {"local", "panic"} THEN st2.decided ELSE "remote"

----------------------------------------------------------------------------
(* The front end.                                                          *)

Query(r) == setup.requests[r].query

(* handle_tcp_stream: one message after the other.                         *)
TcpReads(r) == setup.front = "tcp" /\ ~out.closed /\ \A s \in 1 .. r - 1 : req[s].st = "done"

(* DnsUdpServer::run: every packet has a task of its own.                  *)
UdpReads(r) == setup.front = "udp"

(* A request ends without an answer; a TCP connection ends with it.        *)
NoAnswer(r) ==
    /\ req' = [req EXCEPT ![r] = [Waiting EXCEPT !.st = "done"]]
    /\ out' = [out EXCEPT !.closed = setup.front = "tcp"]

(* DnsClient::resolve up to the lookup.                                    *)
Begin(r) ==
    LET m == setup.requests[r]
        d == ShouldForwardByQuery(m.query)
    IN  /\ req[r].st = "waiting"
        /\ TcpReads(r) \/ UdpReads(r)
        /\ IF m.kind = "bad" THEN NoAnswer(r)
           ELSE IF m.kind # "query" \/ ~m.rd
           THEN /\ req' = [req EXCEPT ![r].st = "done"]
                /\ out' = [out EXCEPT !.sent = Append(@, [r |-> r, id |-> m.id, from |-> "self",
                               code |-> IF m.kind = "empty" /\ m.rd THEN "NoError" ELSE "NotImp", q |-> m.query,
                               local |-> NoResult])]
           ELSE /\ req' = [req EXCEPT ![r].st = "looking",
                               ![r].sides = [s \in IF d = "open" THEN Sides ELSE {d} |-> Side(s)]]
                /\ UNCHANGED out
        /\ UNCHANGED <<setup, acl, cache, rev, asked>>

(* add_to_reverse_lookup_cache: only what the list would decide otherwise  *)
(* is remembered.                                                          *)
ListForwards(ip) == setup.acl => CheckIpInProxyList(acl, ip)

Forget(entries, ip) ==
    IF \E i \in DOMAIN entries : entries[i][1] = ip
    THEN RemoveAt(entries, CHOOSE i \in DOMAIN entries : entries[i][1] = ip) ELSE entries

Insert(entries, ip, forward) ==
    Append(IF Len(entries) = setup.capacity THEN Tail(entries) ELSE entries, <<ip, forward>>)

(* Mutant: what the list decides by itself is not forgotten. *)
KeepStale(entries, ip, forward) ==
    IF forward = ListForwards(ip) THEN entries ELSE Insert(Forget(entries, ip), ip, forward)

RememberRoute(entries, ip, forward) ==
    IF forward = ListForwards(ip) THEN Forget(entries, ip) ELSE Insert(Forget(entries, ip), ip, forward)

IsAddress(rec) == rec.type \in {"A", "AAAA"}

Addresses(answers) == {answers[i].ip : i \in {n \in DOMAIN answers : IsAddress(answers[n])}}

(* The cache after the addresses of an answer, one after the other.        *)
RememberAll(answers, forward) ==
    LET after[n \in 0 .. Len(answers)] ==
            IF n = 0 THEN rev
            ELSE IF IsAddress(answers[n]) THEN RememberRoute(after[n - 1], answers[n].ip, forward)
            ELSE after[n - 1]
    IN  after[Len(answers)]

RevIps(entries) == {entries[i][1] : i \in DOMAIN entries}

(* DnsClient::resolve from the lookup on: the answer is the upstream's,    *)
(* with the id of the request, or ServFail.                                *)
Answer(r, res, side) ==
    LET answers == IF res.st = "ok" THEN res.answers ELSE <<>>
        ips == Addresses(answers)
        entries == RememberAll(answers, side = "remote")
    IN  /\ rev' = entries
        /\ req' = [req EXCEPT ![r] = [Waiting EXCEPT !.st = "done"]]
        /\ out' = [out EXCEPT
               !.sent = Append(@, [r |-> r, id |-> setup.requests[r].id, from |-> side,
                                   code |-> IF res.st = "ok" THEN "NoError" ELSE "ServFail",
                                   q |-> IF res.st = "ok" THEN res.q ELSE Query(r),
                                   local |-> IF "local" \in DOMAIN req[r].sides THEN req[r].sides["local"].res ELSE NoResult]),
               !.routes = [ip \in DOMAIN @ \cup ips |-> IF ip \in ips THEN side = "remote" ELSE @[ip]],
               !.forgotten = (@ \cup (RevIps(rev) \ RevIps(entries))) \ ips]
        /\ UNCHANGED <<setup, acl, cache, asked>>

(* Mutant: the answer that comes first is taken. *)
FirstResponse(r) ==
    /\ req[r].st = "looking"
    /\ "remote" \in DOMAIN req[r].sides
    /\ req[r].sides["remote"].res # NoResult
    /\ Answer(r, req[r].sides["remote"].res, "remote")

(* acl_lookup: the remote answer is there.                                 *)
RemoteResponse(r) ==
    /\ req[r].st = "looking"
    /\ "remote" \in DOMAIN req[r].sides
    /\ LET res == req[r].sides["remote"].res
       IN  /\ res # NoResult
           /\ IF "local" \notin DOMAIN req[r].sides \/ req[r].use_remote THEN Answer(r, res, "remote")
              ELSE /\ req[r].remote_response = NoResult
                   /\ req' = [req EXCEPT ![r].remote_response = res]
                   /\ UNCHANGED <<setup, acl, cache, rev, asked, out>>

(* acl_lookup: the local answer is there, and decides.                     *)
LocalResponse(r) ==
    /\ req[r].st = "looking"
    /\ "local" \in DOMAIN req[r].sides
    /\ ~req[r].use_remote
    /\ LET res == req[r].sides["local"].res
       IN  /\ res # NoResult
           /\ IF "remote" \notin DOMAIN req[r].sides \/ ShouldForwardByResponse(acl, res, Query(r)) = "local"
              THEN Answer(r, res, "local")
              ELSE IF ShouldForwardByResponse(acl, res, Query(r)) = "panic" THEN NoAnswer(r) /\ UNCHANGED <<setup, acl, cache, rev, asked>>
              ELSE IF req[r].remote_response # NoResult THEN Answer(r, req[r].remote_response, "remote")
              ELSE /\ req' = [req EXCEPT ![r].use_remote = TRUE]
                   /\ UNCHANGED <<setup, acl, cache, rev, asked, out>>

----------------------------------------------------------------------------
(* One lookup at one name server over one kind of connection.              *)

Looking(r, s, p) ==
    req[r].st = "looking" /\ s \in DOMAIN req[r].sides /\ req[r].sides[s].res = NoResult /\ p \in DOMAIN req[r].sides[s].legs

Leg(r, s, p) == req[r].sides[s].legs[p]
KeptClients(s, p) == IF <<s, p>> \in DOMAIN cache THEN cache[<<s, p>>] ELSE <<>>

(* check_connected: UDP always is.                                         *)
Connected(c, p) == p = "udp" \/ ~c.lost \/ c.inbox # <<>>

(* lookup_dns: connect, but take a connection kept before if one is left;  *)
(* then ask.  A Unix socket is not kept.                                   *)
Ask(r, s, p) ==
    /\ Looking(r, s, p) /\ Leg(r, s, p).st = "idle"
    /\ LET q == KeptClients(s, p)
           live == {i \in DOMAIN q : Connected(q[i], p)}
           first == CHOOSE i \in live : \A j \in live : i <= j
           Use(c) == /\ req' = [req EXCEPT ![r].sides[s].legs[p] =
                                   [st |-> "asked", client |-> [c EXCEPT !.pending = Append(@, Query(r))]]]
                     /\ asked' = asked \cup {<<s, Query(r)>>}
       IN  IF live # {}
           THEN Use(q[first]) /\ cache' = [cache EXCEPT ![<<s, p>>] = SubSeq(q, first + 1, Len(q))]
           ELSE /\ cache' = IF q = <<>> THEN cache ELSE [cache EXCEPT ![<<s, p>>] = <<>>]
                /\ \/ Use(Fresh)
                   \/ req' = [req EXCEPT ![r].sides[s].legs[p].st = "err"] /\ UNCHANGED asked
    /\ UNCHANGED <<setup, acl, rev, out>>

(* The name server answers the oldest query of a connection.               *)
AnsweredBy(c, s) ==
    LET q == Head(c.pending)
    IN  [c EXCEPT !.pending = Tail(@),
                  !.inbox = Append(@, [st |-> "ok", q |-> q, answers |-> Zone[s][q].answers,
                                       additionals |-> Zone[s][q].additionals])]

UpstreamAnswers ==
    /\ \/ \E r \in Requests : \E s \in Sides, p \in {"udp", "tcp", "unix"} :
             /\ Looking(r, s, p) /\ Leg(r, s, p).client.pending # <<>>
             /\ req' = [req EXCEPT ![r].sides[s].legs[p].client = AnsweredBy(@, s)]
             /\ UNCHANGED cache
       \/ \E k \in DOMAIN cache : \E i \in DOMAIN cache[k] :
             /\ cache[k][i].pending # <<>>
             /\ cache' = [cache EXCEPT ![k][i] = AnsweredBy(@, k[1])]
             /\ UNCHANGED req
    /\ UNCHANGED <<setup, acl, rev, asked, out>>

(* A name server closes a connection that is kept.                         *)
UpstreamCloses ==
    /\ out.losses < MaxLosses
    /\ \E k \in DOMAIN cache : \E i \in DOMAIN cache[k] :
          /\ k[2] # "udp" /\ ~cache[k][i].lost
          /\ cache' = [cache EXCEPT ![k][i].lost = TRUE]
    /\ out' = [out EXCEPT !.losses = @ + 1]
    /\ UNCHANGED <<setup, acl, req, rev, asked>>

(* save_client: the first one is kept whatever the limit.                  *)
SaveClient(k, c) ==
    LET q == IF k \in DOMAIN cache THEN Append(cache[k], c) ELSE <<c>>
    IN  IF k \in DOMAIN cache /\ Len(q) > setup.kept THEN Tail(q) ELSE q

(* The first answer read is taken for the answer to the query; the         *)
(* connection is kept.  The other connection of this lookup is dropped.    *)
ReceiveAnswer(r, s, p) ==
    /\ Looking(r, s, p)
    /\ LET leg == Leg(r, s, p)
           k == <<s, p>>
       IN  /\ leg.st = "asked" /\ leg.client.inbox # <<>>
           /\ cache' = IF p = "unix" THEN cache
                       ELSE LET q == SaveClient(k, [leg.client EXCEPT !.inbox = Tail(@)])
                            IN  [x \in DOMAIN cache \cup {k} |-> IF x = k THEN q ELSE cache[x]]
           /\ req' = [req EXCEPT ![r].sides[s].res = Head(leg.client.inbox), ![r].sides[s].legs = <<>>]
    /\ UNCHANGED <<setup, acl, rev, asked, out>>

(* Mutant: a connection is kept after a timeout, too. *)
KeepAfterTimeout(r, s, p) ==
    /\ Looking(r, s, p) /\ Leg(r, s, p).st = "asked"
    /\ req' = [req EXCEPT ![r].sides[s].legs[p] = [IdleLeg EXCEPT !.st = "err"]]
    /\ LET k == <<s, p>> IN cache' = [x \in DOMAIN cache \cup {k} |-> IF x = k THEN SaveClient(k, Leg(r, s, p).client) ELSE cache[x]]
    /\ UNCHANGED <<setup, acl, rev, asked, out>>

(* lookup_timeout, a lost connection, or bytes that are no message: the    *)
(* connection is dropped.                                                  *)
LookupFails(r, s, p) ==
    /\ Looking(r, s, p) /\ Leg(r, s, p).st = "asked"
    /\ req' = [req EXCEPT ![r].sides[s].legs[p] = [IdleLeg EXCEPT !.st = "err"]]
    /\ UNCHANGED <<setup, acl, cache, rev, asked, out>>

(* Both connections failed: lookup_local and lookup_remote try twice.      *)
Retry(r, s) ==
    /\ req[r].st = "looking" /\ s \in DOMAIN req[r].sides /\ req[r].sides[s].res = NoResult
    /\ LET side == req[r].sides[s]
       IN  /\ \A p \in DOMAIN side.legs : side.legs[p].st = "err"
           /\ req' = [req EXCEPT ![r].sides[s] = IF side.attempt < Attempts THEN [Side(s) EXCEPT !.attempt = side.attempt + 1]
                                                 ELSE [side EXCEPT !.res = LookupFailed, !.legs = <<>>]]
    /\ UNCHANGED <<setup, acl, cache, rev, asked, out>>

(* check_target_bypassed uses an entry; one that was not used for three    *)
(* days is dropped by the next use of the cache.                           *)
RouteUsed ==
    /\ setup.acl
    /\ \E i \in DOMAIN rev : rev' = Append(RemoveAt(rev, i), rev[i])
    /\ UNCHANGED <<setup, acl, req, cache, asked, out>>

RouteExpires ==
    /\ rev # <<>>
    /\ rev' = Tail(rev)
    /\ out' = [out EXCEPT !.forgotten = @ \cup {Head(rev)[1]}]
    /\ UNCHANGED <<setup, acl, req, cache, asked>>

DnsNext ==
    \/ \E r \in Requests :
          \/ Begin(r) \/ RemoteResponse(r) \/ LocalResponse(r)
          \/ \E s \in Sides : \/ Retry(r, s)
                              \/ \E p \in {"udp", "tcp", "unix"} : Ask(r, s, p) \/ ReceiveAnswer(r, s, p) \/ LookupFails(r, s, p)
    \/ UpstreamAnswers
    \/ UpstreamCloses
    \/ RouteUsed
    \/ RouteExpires

DnsSpec == DnsInit /\ [][DnsNext]_dnsVars

----------------------------------------------------------------------------
(* ServiceContext::check_target_bypassed for an address.                   *)
CheckTargetBypassed(ip) ==
    LET known == {i \in DOMAIN rev : rev[i][1] = ip}
    IN  setup.acl /\ IF known # {} THEN \A i \in known : ~rev[i][2] ELSE ~CheckIpInProxyList(acl, ip)

(* The state has its type.                                                 *)
DnsTypeOK ==
    /\ \A r \in Requests : req[r].st \in {"waiting", "looking", "done"}
    /\ \A k \in DOMAIN cache : k[1] \in Sides /\ Len(cache[k]) <= IF setup.kept = 0 THEN 1 ELSE setup.kept
    /\ Len(rev) <= setup.capacity

(* A client gets, once and with its own id, the answer to the question it  *)
(* asked, though ids of upstream answers are not compared: no connection   *)
(* on which an answer may still arrive is used again.  Over TCP answers    *)
(* come in the order of the requests.                                      *)
AnswersTheQuestion ==
    /\ DnsTypeOK
    /\ \A i \in DOMAIN out.sent : out.sent[i].q = Query(out.sent[i].r) /\ out.sent[i].id = setup.requests[out.sent[i].r].id
    /\ \A i, j \in DOMAIN out.sent : i < j => out.sent[i].r # out.sent[j].r /\ (setup.front = "tcp" => out.sent[i].r < out.sent[j].r)

(* Whoever answers first: where the list leaves a name open, the local     *)
(* answer is used exactly if it does not send what the name resolves to    *)
(* through the proxy, and the remote one only once this is known.          *)
ChoiceIsTheLists ==
    \A i \in DOMAIN out.sent :
        LET a == out.sent[i]
        IN  a.from # "self" /\ ShouldForwardByQuery(a.q) = "open" =>
                a.local.st # "none" /\ a.from = ShouldForwardByResponse(acl, a.local, a.q)

(* A name on the proxy list is never asked for at the local name server,   *)
(* and one on the bypass list, or of a server, never through the proxy.    *)
NamesDoNotLeak ==
    \A a \in asked :
        LET name == Lower(a[2].name)
            listed == CheckAsciiHostInProxyList(acl, name)
            plain == setup.acl /\ a[2].class = "IN" /\ a[2].type # "PTR" /\ a[2].fqdn
        IN  /\ plain /\ listed = "proxy" /\ setup.balancer /\ name \notin setup.servers => a[1] = "remote"
            /\ plain /\ listed = "bypass" => a[1] = "local"
            /\ name \in setup.servers => a[1] = "local"

(* An address is reached the way its name was resolved, as of the last     *)
(* answer that held it, unless the reverse lookup cache had to let it go.  *)
RouteFollowsTheLookup ==
    setup.acl => \A ip \in DOMAIN out.routes \ out.forgotten : CheckTargetBypassed(ip) = ~out.routes[ip]

(* The relay and check_target_bypassed decide a host alike, each in its    *)
(* own way: a name of plain addresses that was resolved by the local name  *)
(* server is connected to directly, one resolved remotely is proxied.      *)
HostsAsResolved ==
    \A i \in DOMAIN out.sent :
        LET a == out.sent[i]
            known == Zone["local"][a.q].answers
            plain == a.q.type = "A" /\ a.q.class = "IN" /\ known # <<>> /\ \A n \in DOMAIN known : known[n].type = "A"
            decided == ShouldForwardByQuery(a.q) # "open" \/ a.local.st = "ok"
        IN  setup.acl /\ setup.balancer /\ plain /\ decided /\ a.from # "self" /\ Lower(a.q.name) \notin setup.servers =>
                (a.from = "local") = CheckHostBypassed(acl, a.q.name, Addresses(known))

(* An IPv4 address and its IPv6-mapped form are the same to every check.   *)
MappedAlike ==
    \A ip \in DOMAIN out.routes : ip.fam = "v4" =>
        /\ CheckIpInProxyList(acl, ip) = CheckIpInProxyList(acl, ToMapped(ip))
        /\ CheckClientBlocked(acl, ip) = CheckClientBlocked(acl, ToMapped(ip))
        /\ CheckOutboundIpBlocked(acl, ip) = CheckOutboundIpBlocked(acl, ToMapped(ip))
        /\ CheckOutboundHostBlocked(acl, <<"h">>, {ip}) = CheckOutboundHostBlocked(acl, <<"h">>, {ToMapped(ip)})

(* What the file says of a name, line by line: the last section before a   *)
(* rule that matches says which list it is on.                             *)
RuleMatches(line, host) ==
    \/ line.kind = "set" /\ Lower(TrimDots(line.host)) = host
    \/ line.kind = "tree" /\ IsSuffix(Lower(TrimDots(line.host)), host)
    \/ line.kind = "regex" /\ line.head = "(^|.)" /\ IsSuffix(Lower(line.host), host)
    \/ line.kind = "regex" /\ line.head = "^" /\ Lower(line.host) = host
    \/ line.kind = "regex" /\ line.head = "" /\ RegexMatches([line EXCEPT !.host = Lower(@)], host)

ListOf(lines, n) == LoadFromFile(SubSeq(lines, 1, n)).curr

(* The rules of the list as built, with wider rules in place of narrower   *)
(* ones, match the hosts that the lines of the file match.                 *)
RulesAreTheFiles ==
    \A r \in Requests : \A list \in {"black", "white", "outbound"} :
        CheckHostMatched(acl[list], Lower(Query(r).name)) <=>
        \E n \in DOMAIN setup.lines : ListOf(setup.lines, n) = list /\ RuleMatches(setup.lines[n], Lower(Query(r).name))

(* The list decides where a name is asked for, which answer is used, and   *)
(* how the addresses of the answer are reached (acl_lookup,                *)
(* should_forward_by_query, check_target_bypassed).                        *)
ListsDecide == ChoiceIsTheLists /\ NamesDoNotLeak /\ RouteFollowsTheLookup

(* The checks of the list, as built, agree with its file and with each     *)
(* other (AccessControl::load_from_file, check_host_matched,               *)
(* check_ip_matched).                                                      *)
ListsAsWritten == HostsAsResolved /\ MappedAlike /\ RulesAreTheFiles
=============================================================================
