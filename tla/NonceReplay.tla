---------------------------- MODULE NonceReplay -----------------------------
(***************************************************************************)
(* Replay protection of TCP salts: Context::generate_nonce and             *)
(* check_nonce_replay over a ReplayProtector, which keeps the salts of     *)
(* AEAD-2022 requests in an expiring cache and all others in a pair of     *)
(* Bloom filters used in turn.  The clock counts Ticks to a second, and    *)
(* a request's timestamp is in whole seconds.                              *)
(***************************************************************************)
EXTENDS Naturals, Sequences, FiniteSets, SequencesExt

CONSTANTS
    Requests,    \* AEAD-2022 requests, each with its salt
    Salts,       \* salts of the other ciphers
    Policy,      \* ReplayAttackPolicy: "Default", "Ignore", "Detect" or "Reject"
    MaxDiff,     \* SERVER_STREAM_TIMESTAMP_MAX_DIFF, in seconds
    Ticks,       \* bound: ticks of the clock in a second
    ItemCount,   \* salts one Bloom filter holds
    MaxTime      \* bound: the clock stops here

(* What the code's constants and every configuration satisfy.              *)
ASSUME NonceAssumption ==
    /\ {ItemCount, MaxTime, Ticks} \subseteq Nat \ {0}
    /\ MaxDiff \in Nat

VARIABLES
    now,         \* the server's clock, in ticks
    nonceSet,    \* LruCache of AEAD-2022 salts: the time each was last touched
    bloom,       \* PingPongBloom
    request,     \* per AEAD-2022 request: its timestamp, in seconds
    accepted,    \* per request: when it was last accepted; 0 is never
    log          \* the last ItemCount salts put into the Bloom filters

nonceVars == <<now, nonceSet, bloom, request, accepted, log>>

Never == 0

NonceInit ==
    /\ now = 1
    /\ nonceSet = [r \in Requests |-> Never]
    /\ bloom = [blooms |-> [i \in {0, 1} |-> {}], count |-> [i \in {0, 1} |-> 0], current |-> 0]
    /\ request \in [Requests -> 0..(MaxTime \div Ticks)]
    /\ accepted = [r \in Requests |-> Never]
    /\ log = <<>>

Tick ==
    /\ now < MaxTime
    /\ now' = now + 1
    /\ UNCHANGED <<nonceSet, bloom, request, accepted, log>>

(* LruCache::with_expiry_duration(2 * MaxDiff): an entry not touched for   *)
(* that long is gone.                                                      *)
Ttl == 2 * MaxDiff * Ticks
Cached(s) == nonceSet[s] # Never /\ nonceSet[s] + Ttl >= now

(* A timestamp is compared in whole seconds, in both directions.           *)
Second == now \div Ticks
Timely(ts) == ts <= Second + MaxDiff /\ Second <= ts + MaxDiff

(* Mutant: a salt that is not in the cache is not put there. *)
Receive2022Forgets(s) ==
    /\ Timely(request[s])
    /\ nonceSet' = IF Cached(s) THEN [nonceSet EXCEPT ![s] = now] ELSE nonceSet
    /\ accepted' = IF Cached(s) THEN accepted ELSE [accepted EXCEPT ![s] = now]
    /\ UNCHANGED <<now, bloom, request, log>>

(* An AEAD-2022 request: the timestamp, then the cache, which also         *)
(* refreshes an entry it finds.                                            *)
Receive2022(s) ==
    /\ Timely(request[s])
    /\ nonceSet' = [nonceSet EXCEPT ![s] = now]
    /\ accepted' = IF Cached(s) THEN accepted ELSE [accepted EXCEPT ![s] = now]
    /\ UNCHANGED <<now, bloom, request, log>>

(* Mutant: the full filter is emptied instead of the other one. *)
SetEmptiesCurrent(b, s) ==
    LET full == b.count[b.current] >= ItemCount
        base == IF full THEN [b EXCEPT !.blooms[b.current] = {}, !.count[b.current] = 0] ELSE b
    IN  [base EXCEPT !.blooms[b.current] = @ \cup {s}, !.count[b.current] = @ + 1]

(* PingPongBloom::check_and_set of a salt not found: when the current      *)
(* filter is full, the other one is emptied and becomes the current one.   *)
Set(b, s) ==
    LET full == b.count[b.current] >= ItemCount
        cur  == IF full THEN (b.current + 1) % 2 ELSE b.current
    IN  [blooms  |-> [b.blooms EXCEPT ![cur] = IF full THEN {s} ELSE @ \cup {s}],
         count   |-> [b.count EXCEPT ![cur] = IF full THEN 1 ELSE @ + 1],
         current |-> cur]

Known(s) == s \in bloom.blooms[0] \cup bloom.blooms[1]

Remember(s) ==
    /\ bloom' = Set(bloom, s)
    /\ log' = Append(IF Len(log) = ItemCount THEN Tail(log) ELSE log, s)
    /\ UNCHANGED <<now, nonceSet, request, accepted>>

(* check_nonce_replay of another cipher: only Detect and Reject consult    *)
(* the filters; a salt they have seen changes nothing.                     *)
Receive(s) ==
    /\ Policy \in {"Detect", "Reject"}
    /\ ~Known(s)
    /\ Remember(s)

(* generate_nonce draws until the filters do not know the salt, and leaves *)
(* it there so that it is not accepted back.                               *)
GenerateNonce ==
    /\ Policy # "Ignore"
    /\ \E s \in Salts : ~Known(s) /\ Remember(s)

NonceNext ==
    \/ Tick \/ GenerateNonce
    \/ \E r \in Requests : Receive2022(r)
    \/ \E s \in Salts : Receive(s)

NonceSpec == NonceInit /\ [][NonceNext]_nonceVars

NonceTypeOK ==
    /\ now \in 1..MaxTime
    /\ nonceSet \in [Requests -> 0..MaxTime] /\ accepted \in [Requests -> 0..MaxTime]
    /\ bloom.current \in {0, 1} /\ \A i \in {0, 1} : bloom.count[i] \in 0..ItemCount

RepeatIsLate ==
    \A r \in Requests : accepted'[r] # accepted[r] /\ accepted[r] # Never
                           => accepted'[r] > accepted[r] + Ttl

(* An AEAD-2022 request that was accepted is not accepted again for twice  *)
(* the time by which its timestamp may be off (check_nonce_and_set).       *)
NoQuickRepeat == [][RepeatIsLate]_nonceVars

(* However the two filters are swapped, the last ItemCount salts are       *)
(* always known: neither generated nor accepted once more.                 *)
RecentSaltsKnown ==
    NonceTypeOK /\ \A i \in DOMAIN log : Known(log[i])
=============================================================================
