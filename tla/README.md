# Verification of the Android obfuscation proxy

This directory is a TLA+ development of the repository: an Android library (Kotlin)
that runs a shadowsocks client as a child process, the client itself, `sslocal`
of the vendored `shadowsocks-rust`, and the server and the manager of the same
workspace, which are the client's peers. The modules are translated from the source;
`PROJECT.json` maps every definition to its lines.

## 1. Inventory

### 1.1 The supervisor (Kotlin, `obfuscator/src/main/java/com/kape/obfuscator`)

| Part | State | Operations | What makes it correct |
|---|---|---|---|
| `presenter/Obfuscator` | none | `start`, `stop`, each launched on the module context, each ends with a callback on the client context | every call ends once; a client that waits for its callbacks sees atomic operations |
| `Start/StopProcessControllerImpl` | none | chains of use cases with an early return at each failure | a failed start leaves nothing behind that cannot be stopped |
| `CacheImpl` | the process, its listening-on deferrable | get, set, clear of each | the two fields belong to the same start |
| `WaitForProcessListeningOnDeferrableImpl` | a coroutine suspended in `await`, a timer of 3 s | await, time out | success only after the process says it listens; a timeout and a completion do not both resume the call |
| `StartProcessOutputReaderImpl` | one coroutine per process on `Dispatchers.IO`, its last line | read a line, report it on the module context, ask whether to go on | readers of dead processes end |
| `StartProcessOutputHandlerImpl` | a `lateinit` event handler, in two objects | classify a line | error lines reach the client |
| `ShadowsocksProcessImpl`, `ProcessUtils` | the OS process | spawn, kill, is it running | no running process is lost |

The parts share the cache and the single-threaded module executor. A handler is
atomic up to its only suspension point, the `await`, so the interleavings are those
of the executor's queue: bodies of calls, continuations of awaits, and the two blocks
each reader posts. Around it the timer thread, the readers' threads, the operating
system and the client run freely.

### 1.2 shadowsocks-rust

The Android build enables `local-tunnel`, `local-dns`, `local-tun`, the stream and
AEAD ciphers and logging; it has neither the server, the manager, HTTP nor redirect
features, runs on tokio's current-thread runtime and aborts on panic. Between two
awaits a task is alone; the hard behaviour is what happens during an await. The server
and the manager are separate programs, built with all features.

| Part | State | Operations | What makes it correct |
|---|---|---|---|
| Replay window, `net/packet_window.rs` | last id, ring of bit blocks | `validate_packet_id`, `reset` | an id is accepted once and only inside the window |
| UDP association manager, `local/net/udp/association.rs` and the loops of the UDP servers | LRU map with expiry, keep-alive channel, timers | `send_to`, `keep_alive`, `cleanup_expired` | no task outlives its entry; only silent associations expire, and they are collected |
| UDP association, same file | sockets, session and packet id, a filter per server session | dispatch from the peer, receive from the server | ids never repeat in a session; a server packet is delivered once |
| Load balancer, `local/loadbalancing` | servers, weights, scores, best indices, checker tasks | probes, choice, reload, failure reports | the server chosen serves the protocol; failover |
| TCP cipher streams, `relay/tcprelay` | chunked readers and writers, handshake states | resumable polls | bytes in order, nothing lost or repeated at partial reads and writes; a cut is noticed; nothing of a foreign or repeated connection is delivered |
| TCP relays, `tcprelay/utils.rs` and the handlers | two directions with their buffers | copy, half-close, handshake, connect | half-closes follow the data; relays end |
| Salt replay protection, `security/replay` | two Bloom filters, a timed set | check-and-set, switch, generate | recent salts are known; only authentic ones are remembered |
| UDP packets, `relay/udprelay` | cipher cache | seal and open each format | only holders of a key are served; the cipher is the server's |
| UDP server, `server/udprelay.rs` | map of associations, receivers, timers | receive, dispatch, answer, expire | each packet goes out once; only the client's key reads the answers; nonces do not repeat |
| SOCKS, `local/socks` | per-connection handlers | handshake, authentication, commands, datagrams | only users are served; the reply tells the truth; no byte is lost |
| DNS relay, `local/dns` and `local/context.rs` | requests, kept clients, reverse look-ups | decide, ask, race, retry | the answer is the question's; the choice is the lists' |
| ACL, `acl` | rule sets | load, look up | what is looked up is what the file says |
| Manager, `manager` | servers by port, daemons, their files | add, remove, list, stat | what is listed is held and whole; what was removed stays removed |
| Configuration and programs, `config.rs`, `src/service` | configuration, services | read, check, write; build, run, reload | a checked configuration builds; all services or none; what is written reads back |

Data flow: a front end (SOCKS, tunnel, DNS) receives a packet or a connection, asks the
ACL whether the target is bypassed, takes a server from the balancer, and relays through a
proxy socket or stream, which the server opens and passes on. The balancer's probes use the
same streams and sockets. SIGUSR1 reloads the servers while all of this goes on. A manager
starts and stops servers and collects their statistics.

### 1.3 Hard behaviours

`PROJECT.json` lists them as hazards, each at its line: a timer that races a completion,
state read before an await and used after it (the cached deferrable, the check
for servers), work lost at a full channel, entries that expire while something about
them is still in flight, counters that wrap, failures half-way through a start, a
reload in the middle of everything; packets repeated after the memory of them is gone,
chunks cut between any two bytes, half-closes that cross data, answers that race, daemons
that start late or die unnoticed.

## 2. Modules

| Module | Role |
|---|---|
| `Obfuscator` | the supervisor and its environment; properties and inductive invariant |
| `ObfuscatorContract` | abstract: `start` and `stop` as atomic operations on one tracked process |
| `ObfuscatorProofs` | when a start succeeds, how an abandoned one ends, what leaks; sequential calls implement `ObfuscatorContract` |
| `PacketWindow` | the ring of blocks of `packet_window.rs` |
| `ReplayFilter` | the value of an abstract filter: its highest id and its accepted ids |
| `ReplayWindow` | abstract: the filter as a state machine |
| `UdpAssociationManager` | map, timers, keep-alives, and what association tasks do to them |
| `UdpAssociation` | one association's task; composes `ReplayFilter`, justified by the refinement of `PacketWindow` |
| `UdpAssociationProofs` | packet ids increase, packets of the server arrive once |
| `UdpAssociationManagerProofs` | tasks are tracked, expiry and collection |
| `PingBalancer` | the balancer with its checkers, weights, reloads and dials |
| `PingBalancerProofs` | the best server serves its protocol |
| `ByteStream` | abstract: a stream of bytes that ends, or fails |
| `TcpCipher` | writer, wire and reader of one direction of a TCP connection under each cipher family; implements `ByteStream` |
| `TcpRelay` | application, local relay, server relay and target, with their half-closes; bytes are counts, justified by `TcpCipher` |
| `NonceReplay` | the salt filters and the clock |
| `TcpProofs` | recent salts are known, requests are not repeated; refused connections hand out nothing, connections end for a cause, and the ciphers implement `ByteStream`; nothing is lost behind a half-close |
| `UdpPacket` | the packet formats as operators: what is sealed, what is checked when it is opened |
| `UdpServer` | the server's UDP relay over `UdpPacket`; uses `ReplayFilter` for its windows |
| `UdpServerProofs` | each packet goes out once, answers are for the client's key and their nonces new; the ring of `PacketWindow` is correct, and implements `ReplayWindow` |
| `CipherCache` | the thread's cache of UDP ciphers |
| `SocksCodec` | messages of SOCKS 5, 4 and 4a as bytes |
| `Socks` | a client, its connection, the handlers, and the UDP relay, over `SocksCodec` |
| `SocksProofs` | only users are served, at the target as they named it, and told the truth; messages are read as written |
| `Acl` | files of rules and the look-ups, as operators |
| `Dns` | the DNS relay over `Acl`, with the reverse look-ups of the service context |
| `Manager` | the manager with servers of its own and daemons |
| `ServicesProofs` | the manager's servers are held whole, removed ones are gone; a client of the DNS relay gets the answer to its question, and the list decides the way there |
| `Config` | reading, checking and writing configurations and URLs, as operators |
| `Launch` | the three programs from start to exit, over `Config` |
| `MC*` | instances for TLC; `MCTcp` and `MCServices` hold several components that do not interact, of which a behaviour moves one |

How state and actions correspond to the code:

* **Obfuscator.** A call, the process it may spawn, that process's reader and the
  deferrable are all named by the call. `moduleQueue` is the executor. Each action of
  `ModuleThread` runs one queued task up to its end or its `await`, so
  `StartAwaits` is the whole of `StartProcessControllerImpl.invoke` up to there, and
  `AwaitSucceeds` / `AwaitTimesOut` the rest. Lines are the three kinds
  `StartProcessOutputHandlerImpl` tells apart. `PidReads` holds the possible outcomes
  of reading `Process.pid` by reflection.
* **PacketWindow.** A block is the set of its set bits; shifts and masks are divisions
  and remainders. `accepted` is history. `reset` empties one block only, as the code does.
* **UdpAssociationManager.** The map is the sequence of its keys, least recently used
  first, with an age for each. lru_time_cache is external: every access removes expired
  entries, `get` touches, `insert` evicts. Interval timers fire in bursts after a delay,
  tokio's default. Time is in seconds and passes only when everything due has run,
  except what awaits.
* **UdpAssociation.** `at` is the await the task is in; a reload or an abort can
  come there. `wire` is history: the ids sent per session. `stamp[p]` is how old the
  timestamp of server packet `p` seems. A packet stays deliverable for ever: the network
  repeats it at will.
* **PingBalancer.** A context is a record, so that a reload can build the next
  one while the current one is in use. A score is the failure share plus a part chosen
  from `LatencyParts`, which stands for round-trip time and deviation. A weight is given by
  its inverse, and the conversion to `u32` saturates.
* **TcpCipher.** The wire is a sequence of blocks (salt, length, header, data, tag); a
  poll of either end moves some of it, so every partial read and write happens. A cipher is the fact
  that a block that was changed, or made under another key or salt, does not open. `conn`
  fixes the method, the direction and what is wrong with the connection; without a cipher there is
  no salt, so none is repeated.
* **TcpRelay.** Three hops, two directions each, with counts of bytes and FINs. A handler is the
  coroutine of one relay; sockets may be dropped by either end at any time.
* **NonceReplay.** A salt that neither filter holds may still be taken for known: Bloom
  filters have false positives. Time is in ticks, timestamps in whole seconds.
* **UdpServer.** `packets` keeps every packet ever sent and delivers it any number of times from any
  address; a session follows the address of every arrival, also of one its window then refuses.
  The `select!` of the main receiver may cancel one that awaits the ACL. A target is an address or a
  name, which a look-up resolves to one or more addresses, or to none; they are tried in turn, and the ACL
  is asked again before the packet goes out.
* **Socks.** Bytes arrive one by one; the readers are operators on what has arrived, whose
  result "eof" means waiting. Clients are the repository's own, and raw ones with every
  order of methods.
* **Dns.** A request has up to two sides, a side up to two transports tried in turn, and a
  transport a client from the cache or a new one. Answers come from `Zone`. The reverse look-ups
  are a sequence, least recently used first, with a capacity per setup; `RouteUsed` is
  `check_target_bypassed`, which touches an entry, and `RouteExpires` what becomes of one that was not used for
  three days. `forgotten` is history: the addresses whose entry was evicted or expired.
* **Manager.** Daemons are processes with steps of their own: reading the configuration,
  making the pid file, serving, reporting, dying. A pid file that cannot be opened, or that another
  daemon has locked, is only logged: the daemon serves on without one. When a port is cleared
  its pid file may be unreadable and either file may stay (`Clearings`). A restart of the manager
  keeps the files. `late`, `unmarked` and `stuck` of `log` are history: daemons that had no pid file yet
  when their port was cleared, those that could not make one, and ports whose files were not cleared.
* **Launch.** `LoadFile`, `Args` and `Check` are the stages of `create`; each service is built
  by a step of its own. Settings no property tells apart are members of `flags`; the size of the
  clients' cache and the device of a tun service (name, address, descriptor path) are one value each.
  Options without a place in a file (sizes of buffers, the address of the flow report, the VPN's
  protect path), `run_as_user` and the parent's exit in `daemonize` are left out. `Kept` is what is left of a configuration
  that is written and read, and so names everything that gets lost.

## 3. Runs

Each run has bounds in its `.cfg`; all actions and disjuncts fire in some passing run.

| Run | Instance | Checks |
|---|---|---|
| `obf_liveness` | 2 overlapping calls, all kinds of lines, unreadable pids | inductive invariant, lost processes, when a start may succeed, how an abandoned one ends, every call returns, readers end |
| `obf_sequential` | 3 calls, each after the last one's callback | `Obfuscator` implements `ObfuscatorContract` |
| `obf_error_line` (violation) | | an error line never reaches the client's handler |
| `obf_rejected` (violation) | | a start is rejected as already running after the process exited |
| `packet_window` | ring of 4 blocks of 2 bits, ids 0..13 | the ring remembers; refinement of `ReplayWindow` |
| `udp_manager` | 3 peers, capacity 2, channels of 1, time to live 2 s | tasks are tracked, only silent entries expire, expired ones are collected; the inductive invariant `ManagerInv` |
| `udp_association` | counter that wraps after 2, window 0, 3 server packets, filter life twice the timestamp tolerance | ids increase, packets delivered once; the inductive invariant `SendInv` |
| `udp_reload` (violation) | | a reload to no servers between check and use reaches an assertion |
| `balancer` | no servers, two of mixed protocols, or two that compete with weights 1 and 1/4; one reload, one server change, check window 2 | the best server exists and serves its protocol; the inductive invariant `BalancerInv`; failover; the best-server checker wakes |
| `tcp` | `TcpCipher`: 3 bytes in packets of up to 2, reads of 1, every cipher family, policy and fault; `TcpRelay`: 2 bytes each way; `NonceReplay`: 5 salts for filters of 2, one repeated AEAD-2022 request over 9 half seconds | the ciphers implement a byte stream; `EndsHaveCauses` (`OnlyWholeChunks`, `ErrorsHaveCauses`); `OnlyAuthentic` (`OnlyAuthenticSalts`, `RefusedSilently`); half-closes keep the rest, with the inductive invariant `RelayInv`; relays end; recent salts are known; no quick repetition |
| `cipher_cache` (violation) | 2 servers, 2 addresses | a cipher is found under the address of a key that is gone |
| `services` | the parts below, one per behaviour | see the next table |

| Part of `services` | Instance | Checks |
|---|---|---|
| UDP server | five servers (per address, two users in a map of one, moving clients with a fast clock, no IPv6 and a stranger, one whose method cannot tell its users apart and that resolves names behind an ACL), 2 packets, 2 answers, 3 ticks | `PacketsServedOnce` (`DispatchedOnce`, `OnlyKeyHolders`), `AnswersAreRight` (`OnlyTheClientReads`, `NonceUsedOnce`) |
| SOCKS | 118 pairs of settings and clients; four datagrams, two answers | `ServedRightly` (`OnlyUsersServed`, `ToldTheTruth`, `DataBehindTheRequest`), `MessagesUnderstood` (`DatagramsUnderstood`, `ReadsBackAsWritten`) |
| Manager | builtin and standalone, three of seven requests, two servers, one restart, pid files and removals that fail | `HeldWhole` (`ServersAreHeld`, `ServersAreWhole`), `RemovedIsGone` (`RemovedStaysRemoved`, `SurvivorsWereLate`), the inductive invariant `ServersInv` |
| DNS and ACL | two lists, one or two requests of ten kinds, one lost connection | `AnswersTheQuestion`, `ListsDecide` (`ChoiceIsTheLists`, `NamesDoNotLeak`, `RouteFollowsTheLookup`), `ListsAsWritten` (`HostsAsResolved`, `MappedAlike`, `RulesAreTheFiles`) |
| Programs | files that leave out, misspell or add one thing, private lists and authentication, command lines of the three programs (with ports of 0, redirections and tun devices), files that change later | `RunsWhole` (`CheckedBuilds`, `BalancerCovers`, `AllOrNothing`, `ServersOfOneFile`), `ReadsBack` (`WrittenReadsBack`, `UrlReadsBack`) |

In brackets are the parts of which an invariant is the conjunction, each defined and explained
in the component's module (the type invariant is one, too; the inductive invariants contain
theirs); every named one has a mutant of the code that breaks it.

Why these bounds suffice. Two calls give every pair of overlapping calls with all kinds of
output; three in sequence are a start, what follows it, and what observes the result.
Four blocks and fourteen ids let the window recycle a block, jump by exactly a ring and by
more, and lie on either side of the limit. Two live associations on a keep-alive channel of
one place are enough to fill it, a third peer to evict. A counter that wraps at 2
wraps within three packets. The filter's life is the smallest that covers the
timestamp tolerance both ways (`ExpireDuration = 2 * MaxDiff`); the code's default is
five minutes against one, but a shorter configured timeout is not covered by
`DeliveredOnce`. A weight of 1/4 saturates a failing server's score, as one of a millionth
does against `u32::MAX`. Three bytes in packets of two give a chunk boundary inside what one
write takes and inside what one read wants; reads of one byte stop at every place of a chunk.
Two bytes each way put data behind, before and across each FIN. Filters of two salts are
swapped twice by five. Half-second ticks show what whole-second timestamps hide. A packet,
its repetition and three ticks outlive an association of two ticks; a map of one place evicts
with the second session; a last id of 1 overflows with the second answer. Three requests
to the manager are an addition, its removal, and another addition, with all steps of
daemons between them. Two queries share a kept client and a reverse look-up entry; no client or one is
kept; one to three reverse look-ups fit, so that later answers evict earlier ones. Symmetry is used for calls and peers, never in a run with liveness.

Fairness. In `Obfuscator`, the executor, the timers, the callbacks and the readers are
weakly fair, since each has a thread that serves it; the client need not call and the
process need neither print nor exit. In `PingBalancer`, sleeps end and probes end by
their timeout (`max_server_rtt`), so starting, probing and ending a check are weakly
fair; dials, reloads and server failures are not. In `TcpRelay` both relays are weakly fair,
since a task is polled once it is woken; `RelaysEnd` says so only for executions in which application and
target have finished sending. Deadlock checking is off where the system may
really rest (all calls made, all packets sent, no probing required).

## 4. Findings

* `obf_error_line`: `ObfuscatorBuilder` creates two output handlers; the client's event
  handler is set on one and used on the other, where the access throws inside the reader.
* `obf_rejected`: `Process.isRunning` discards the failure it computes for an exited
  process, so a start after a crash is rejected until `stop` is called.
* `udp_reload`: an association asks the balancer whether it has servers, awaits the ACL,
  then takes the best server; a reload to an empty list in between fails an assertion, which
  ends the process.
* `cipher_cache`: a comment says the address of a key does not change; the key is a
  `ProxySocket`'s copy, freed with it, and a copy of another server's key in the same place, in the
  same session, finds the old cipher for up to thirty seconds.

Other differences met while modelling, each described where the model has it:

* TCP: the first packet of a client under the "none" method may be written in part, while
  `client.rs:317` asserts that it is not. `Aead2022TcpRequestHeaderRef::write_to_buf` leaves out the
  address its `serialized_len` counts (it has no caller). A salt may be forgotten up to a
  second before its whole-second timestamp stops being acceptable; `NoQuickRepeat` claims only what
  the time to live gives.
* UDP server: repetition is refused only while the association lives or the timestamp
  is too old; a shorter configured time to live than a minute would let it through. The
  client's address is updated (`udprelay.rs:609`) before the window check (`:643`), so whoever repeats a packet
  from elsewhere gets the answers that follow, which it cannot read, and the client does not until it sends
  again. `OnlyTheClientReads` therefore promises the key, not the place. Answers from a target that was
  asked for by name carry the address the name resolved to. Empty datagrams are dropped.
* Balancer: if every server's score saturates, the first of the list is taken, even
  one that does not serve the protocol.
* SOCKS: with no users configured, a client that offers password before none is sent to
  authentication and fails; UDP ASSOCIATE is refused in `tcp_only` mode although the comment on
  `set_udp_bind_addr` says the address is returned; the UDP relay is not tied to the TCP
  association, so `OnlyUsersServed` is about TCP; a SOCKS4 address 0.0.0.x reads back as 4a.
* DNS: the id of an upstream answer is not compared, so a duplicated UDP answer would
  answer the next query on a kept client; a PTR record in an answer to ANY reaches `unreachable!`;
  a client is connected before the cache is looked at.
* ACL: a comment calls `[bypass_all]` black-list mode while the code sets white-list mode
  (`acl/mod.rs:29`, `:392`); the outbound check and the connection resolve a name separately.
* Manager: `add` answers "ok" although the server could not be built; a server that ended by itself
  stays listed; a standalone server loses its users in the file written for it
  (`is_basic` of `crates/shadowsocks/src/config.rs:825` ignores them). A daemon whose pid file cannot
  be opened or locked logs that and serves on (`src/daemonize/unix.rs:21`), so that no removal stops it;
  a pid file that cannot be read and files that cannot be removed are ignored, too. A configuration file is
  over-written without being truncated (`manager/server.rs:418`); what a longer old one leaves behind
  is not modelled.
* Configuration: `"local_port": 0` without an address panics in spite of the comment that it was checked
  (`config.rs:1431`); the timeout of an entry of `servers` is never read; an unknown method in a
  `ss://` URL panics; a unix resolver is written without its prefix; a reload is not checked and
  forgets the servers of the command line.
* A configuration that is written and read again loses identity keys (so does a URL), the authentication of SOCKS
  services (written as `None`, `config.rs:2565`), the destination of a tun device (written at `:2557`, never
  read) and the size of the DNS cache. A single plain server loses its users and weights, and a single plain
  SOCKS service its mode and device; the private ACL of either becomes the global one (`:2450`,
  `:2619`) or is lost beside one. Several servers lose their timeouts; the best server's interval is lost where no other
  was given. A password `${NAME}` is looked up when it is read. A port of 0, which
  only the command line can give, is written and then refused by the reader (`:1425`, `:1490`, `:1503`, `:1548`).

## 5. Theorems

All are proved for every value of the constants under the named assumptions of the
modules. These are types of the parameters (bounds are natural numbers, `None` is not a
value, `Methods` are the four categories, a zone answers with sequences of records, a SOCKS
client's addresses are well formed, and what it puts in a SOCKS4 message has no NUL, no address
of the form 4a reserves, and no command SOCKS4 does not have); `Manager` needs none. Five theorems have a
hypothesis of their own, and say so:

| Hypothesis | Says | In the code |
|---|---|---|
| `WaitingClient` of `ContractIsKept` | the client calls again after the callback; pids can be read | a restriction on the client, the instance of `obf_sequential`; `obf_liveness` goes without it, and there the contract's steps overlap |
| `FirstPacketWhole` of `BytesArriveInOrder` | a cipher, and a first packet of less than a chunk | the first read is of 8192 bytes and an address of at most 259, a chunk of 16383 or 65535; without a cipher the first packet may be cut, which `client.rs:317` only asserts against |
| `FilterOutlivesPackets` of `NothingTwice` | a filter lives twice the timestamp tolerance | 5 minutes against twice 30 seconds; a `udp_timeout` of less than a minute falls outside |
| `SessionsOutlivePackets` of `PacketsAreServedOnce` | so does a server's session | the same |
| `AnswersFit` of `TheListsDecide` | the reverse lookup cache has room for the addresses of one answer | 10240 entries; a DNS message of at most 65535 bytes, with 12 or more for each record, holds fewer |

An invariant below is the one that is inductive; what is wanted follows from it. Each was
checked by TLC before it was proved. Those of `NonceReplay`, `TcpCipher`, `UdpServer`, `Dns`, `Socks` and the
receiving side of `UdpAssociation` are only in the proofs, which need more definitions for them
than a run should carry; the others are invariants of a run.

* `ObfuscatorProofs`. The invariant is `SupervisorInv`. `TasksMatchCalls`
  and `TasksOnce` say that the queue holds a call's body or its continuation once and only in the
  matching program counter; without them a second `resume` could decide a call twice.
  `CachedDeferrableAwaited` ties the cache to a waiting start, `TrackedTogether` the two
  cached fields to each other, `CallProgress` and `ReadersBehind` results and readers to
  what happened before. `SuccessIsEarned` follows from `ReadersBehind`; `AbandonedTimesOut` is
  an action property from the same invariant; `LeaksExplained` adds the cases in which a
  process leaves the cache. `ContractIsKept` is the refinement: a waiting client has one call at a
  time (`OneCallAtATime`), so what a start decides when its await ends takes effect there, and every
  step before is a stutter of the contract.
* `UdpServerProofs`, the window. The invariant is `RingRemembers` with `NoneAhead` over all
  ids, not only the ones that arrive. Its core is arithmetic: two blocks less
  than `RING_BLOCKS` apart share a slot only if they are equal, and a forward move empties
  exactly the slots of the blocks it passes (`DivMod`, `ModUnique`, `DivMono` and the lemmas
  on `Passed`). `Refinement` maps each call to a step of `ReplayWindow`.
* `UdpAssociationProofs`. `SendInv` strengthens the ordering of the wire (`IdsIncrease`) with its
  bound by the counter, strict while a packet has its id but is not sent, and with the fact that only
  drawn sessions are on the wire, which is what makes a renewed session start empty.
  `NothingTwice` needs `DeliveredIsRemembered`: a packet that was delivered is too old for its
  timestamp, or its id is in a filter whose entry is no older than the timestamp allows. An entry
  is forgotten after `ExpireDuration`, a timestamp accepted from `MaxDiff` ahead to `MaxDiff`
  behind; hence the hypothesis `2 * MaxDiff <= ExpireDuration`, which the code's defaults satisfy
  and a short `udp_timeout` does not.
* `UdpAssociationManagerProofs`. `ManagerInv` adds to `TasksAreTracked` that the map is ordered by age
  (so that what an access removes is a prefix), that the clean-up timer lags behind only by the
  seconds the loop slept, and an account of every entry's age: each second of it was silent, or
  its keep-alive was missed at a full channel, or the loop slept, or the answer is on its way.
  `NoTaskIsLost`, `OnlySilentExpire` and `CollectedInTime` are the three readings of this account.
* `PingBalancerProofs`. `BalancerInv` speaks of both contexts, the one in use and the one a reload
  is building: queues, scores and checkers fit the servers; a checker probes only what serves
  its protocol; the one of the new context probes exactly the protocols with a choice, so that
  when it is installed each has a score. `UsableIsGiven` follows, with the exception of
  saturated scores that `Scorable` states.
* `TcpProofs`. `SaltsStayKnown`: the last salts are, by their place in the log, in the current filter
  or in the one before it (`LogInFilters`), through every swap. `RepeatsAreLate` is an
  action property; it needs that the cache's stamp of a salt is never before its acceptance, because
  a look-up refreshes it. `RefusalsAreSilent`: a connection that will be refused is still before the
  check that refuses it (`BeforeTheCheck`: a stream cipher before its IV, an AEAD reader before its
  first chunk, an AEAD-2022 reader before its header), so none of it can be in a buffer to hand out;
  a foreign response is stopped at the hand-out itself.
  `ConnectionsEndForACause` knows of the wire, block by block, only where its packets end
  (`CausesInv`): a reader that is between packets stands at such a place, so an EOF
  there is clean and one anywhere else an error, and an authentication error needs damage or
  a repetition. `BytesArriveInOrder` is the refinement of `ByteStream`. Its invariant gives every
  place of the wire, read and unread, a number `N`: how many units of the plaintext come before it.
  With it what is in the writer's buffer, on the wire, in the reader's buffer and handed out are
  consecutive pieces of one stream (`Sender`, `Receiver`), and what CopyBuffer counts as written is
  what was assembled (`Account`), however little each poll moves. `NothingIsLost`:
  `RelayInv` counts bytes (`BytesKept`), orders the stages of the two handlers
  (`Stages`), and says that as long as nothing broke, a direction that is done was read to its
  end and its FIN passed on (`DoneIsFlushed`); a fast-open server that meets EOF first is the
  exception (`NothingToSend`). The theorem adds up the hops.
* `UdpServerProofs`, the server. `ServerInv` says of every packet on the network, in a receiver or in an
  association where it came from (`PacketsInv`, `Flight`) and of the map that each session has the
  association, user and cipher its packets name (`MapInv`); answers are sealed with increasing ids of
  a session of their own, so their nonces are new, and under the key of the session they answer, so
  only its holders open them. That an answer names what was asked is that a socket of an association was bound for
  a packet of its session (`AnswersAreAlwaysRight`). For `PacketsAreServedOnce`, what an association
  has served is recorded once (`Recorded`, `Once`), what is still on its way to it is not recorded
  yet (`FlightIsFresh`), and what was served is in the window of a live session or too old for its
  timestamp (`Remembered`, `Waiting`); a session expires `Ttl` after its last packet, hence the hypothesis.
* `ServicesProofs`. `ServersInv`: a daemon that serves is the one its pid file names, at most one on a port is
  on its way to serving, and a removed port has no configuration left to read; all this but for daemons that
  could not make a pid file (`unmarked`), on ports whose files could not be read or removed (`stuck`),
  and on those that were cleared while a daemon had no pid file yet (`late`). `ServersAreKept` and `RemovalIsFinal` are
  its first conjuncts. Ports and settings are whatever requests bring, so the lemmas know records by
  their fields and sequences by their shape, not by types.
  For `AnswersAreToTheQuestion`, `DnsInv` says that a connection in use has exactly its one query or
  one answer outstanding and a kept one has nothing (`CacheOK`), so that whoever takes it next reads no answer
  of another; that a request is on the sides the list chose, and holds what they brought; and that over TCP requests
  are done in order (`FrontOK`). Answers therefore fit although no id is compared.
  `TheListsDecide` adds `RouteInv`: an entry is as its address was last resolved, and where there is none the
  list alone decides alike, unless the entry was evicted or expired. The answer's addresses are remembered one by
  one: `RememberAll` is unfolded (`Unfolds`) by induction over the set of numbers for which it is defined as
  meant (`Inductive`, from the least element of a set), which needs no operator as a parameter.
* `SocksProofs`. `SocksInv` is `StreamInv` for the connection and `UdpInv` for datagrams. What the handler has not
  read is what has arrived followed by what the client has not sent (`Unread`), and at each await it
  is the rest of what this client says from there on (`PhaseInv`), whatever part of it has arrived. That
  partial input does no harm is a lemma for each reader: a message that was read means the same with more bytes
  behind it, and one that is refused stays so. `ClientInv` says what a client waits for, and `SaidInv` that
  what it was told is so; `SocksServeRightly` are conjuncts of these, with the conjuncts about data and replies.
  `SocksUnderstand` reads each message back from its bytes, field by field.

Only model-checked: everything temporal under fairness (`EveryCallReturns`, `DeadReadersEnd`,
`Failover`, `BestCheckerWakes`, `RelaysEnd`), which the prover does not reach; and what compares parsers, look-ups
and writers with what they are to mean (`ListsAsWritten`, `RunsWhole`, `ReadsBack`). These go by
induction over labels, lines or fields through folds and longest matches, in which an induction over an operator cannot be cited; the sets of inputs of the runs are
meant to hold every form the code tells apart.

## 6. Plan

Done in this order: the supervisor; the replay window; the UDP associations; the balancer;
the TCP streams, relays and salts; the UDP server and its packets; SOCKS; the manager;
ACL and DNS; configuration and programs; the proofs of section 5. Next:

1. `dns_resolver.rs`, the look-ups inside the process.
2. Upstream answers that are duplicated, once there is a promise about their ids to check.

## 7. Not modelled

Encryption and key derivation (data no property tells apart), socket options and platform
code, logging, JSON as text, the system's and hickory's resolver (an await that may
fail), pids as numbers that can be reused, the TCP stack of the TUN interface (smoltcp's), HTTP
(hyper's) and redirect proxies (the kernel's, and not in the build), plugins as processes, and the
test application. `PROJECT.json` gives the reason for each component.
