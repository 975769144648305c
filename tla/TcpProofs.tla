----------------------------- MODULE TcpProofs ------------------------------
(***************************************************************************)
(* Theorems about TCP connections: what the salt filters of NonceReplay    *)
(* remember, for any requests, sizes and tolerances of clocks; that the    *)
(* readers and writers of TcpCipher make a byte stream of their wire, and  *)
(* how its connections end, for any sizes of packets, buffers and reads;   *)
(* and what TcpRelay keeps of a half-closed connection.                    *)
(***************************************************************************)
EXTENDS NonceReplay, TcpCipher, TcpRelay, SequenceTheorems, TLAPS

-----------------------------------------------------------------------------
(***************************************************************************)
(* The salt filters.                                                       *)
(***************************************************************************)

Blooms == [blooms  : [{0, 1} -> SUBSET Salts],
           count   : [{0, 1} -> 0 .. ItemCount],
           current : {0, 1}]

NonceTypes ==
    /\ NonceTypeOK
    /\ bloom \in Blooms
    /\ log \in Seq(Salts) /\ Len(log) <= ItemCount

Other(i) == (i + 1) % 2

\* The salts put into the current filter since it was emptied are in it; the
\* filter in use before still has those that came earlier.
LogInFilters ==
    \A i \in DOMAIN log :
        log[i] \in IF i > Len(log) - bloom.count[bloom.current]
                   THEN bloom.blooms[bloom.current] ELSE bloom.blooms[Other(bloom.current)]

\* The cache's time stamp of a salt is not before its last acceptance, and the
\* clock is not before either.
CacheIsNewer == \A r \in Requests : accepted[r] <= nonceSet[r] /\ nonceSet[r] <= now

NonceInv == NonceTypes /\ LogInFilters /\ CacheIsNewer

LEMMA NonceBounds ==
    /\ ItemCount \in Nat \ {0} /\ MaxTime \in Nat \ {0} /\ Ticks \in Nat \ {0}
    /\ MaxDiff \in Nat /\ Ttl \in Nat
BY NonceAssumption DEF Ttl

LEMMA NonceStarts == NonceInit => NonceInv
<1> SUFFICES ASSUME NonceInit PROVE NonceInv
    OBVIOUS
<1>1. bloom \in Blooms
    BY NonceBounds DEF NonceInit, Blooms
<1>2. NonceTypeOK
    BY NonceBounds DEF NonceInit, NonceTypeOK, Never
<1>3. log = <<>> /\ CacheIsNewer
    BY DEF NonceInit, CacheIsNewer, Never
<1> QED
    BY <1>1, <1>2, <1>3, NonceBounds DEF NonceInv, NonceTypes, LogInFilters

\* The filters after check_and_set, by whether the current one was full.
LEMMA SetRoom ==
    ASSUME NEW b \in Blooms, NEW s \in Salts, b.count[b.current] < ItemCount
    PROVE  /\ Set(b, s) \in Blooms
           /\ Set(b, s).current = b.current
           /\ Set(b, s).count[b.current] = b.count[b.current] + 1
           /\ Set(b, s).blooms[b.current] = b.blooms[b.current] \union {s}
           /\ Set(b, s).blooms[Other(b.current)] = b.blooms[Other(b.current)]
<1> DEFINE c == b.current
           new == [blooms  |-> [b.blooms EXCEPT ![c] = @ \union {s}],
                   count   |-> [b.count EXCEPT ![c] = @ + 1],
                   current |-> c]
<1>1. c \in {0, 1} /\ Other(c) \in {0, 1} /\ Other(c) # c
    BY DEF Blooms, Other
<1>2. Set(b, s) = new
    <2>1. ~(b.count[c] >= ItemCount)
        BY NonceBounds, <1>1 DEF Blooms
    <2> QED
        BY <2>1 DEF Set
<1>3. new \in Blooms
    BY NonceBounds, <1>1 DEF Blooms
<1> QED
    BY <1>1, <1>2, <1>3 DEF Blooms

LEMMA SetFull ==
    ASSUME NEW b \in Blooms, NEW s \in Salts, b.count[b.current] >= ItemCount
    PROVE  /\ Set(b, s) \in Blooms
           /\ Set(b, s).current = Other(b.current)
           /\ Other(Set(b, s).current) = b.current
           /\ Set(b, s).count[Other(b.current)] = 1
           /\ Set(b, s).blooms[Other(b.current)] = {s}
           /\ Set(b, s).blooms[b.current] = b.blooms[b.current]
<1> DEFINE c == Other(b.current)
           new == [blooms  |-> [b.blooms EXCEPT ![c] = {s}],
                   count   |-> [b.count EXCEPT ![c] = 1],
                   current |-> c]
<1>1. c \in {0, 1} /\ b.current \in {0, 1} /\ c # b.current /\ Other(c) = b.current
    BY DEF Blooms, Other
<1>2. Set(b, s) = new
    BY DEF Set, Other
<1>3. new \in Blooms
    BY NonceBounds, <1>1 DEF Blooms
<1> QED
    BY <1>1, <1>2, <1>3 DEF Blooms

\* The log after one more salt: what it held moves down by at most one.
LEMMA LogGrows ==
    ASSUME NonceTypes, NEW s \in Salts,
           log' = Append(IF Len(log) = ItemCount THEN Tail(log) ELSE log, s)
    PROVE  /\ log' \in Seq(Salts) /\ Len(log') <= ItemCount /\ Len(log') \in 1 .. Len(log) + 1
           /\ log'[Len(log')] = s
           /\ \A i \in 1 .. Len(log') - 1 :
                 LET j == i + (Len(log) + 1 - Len(log'))
                 IN  j \in DOMAIN log /\ log'[i] = log[j]
<1>0. ItemCount \in Nat \ {0} /\ log \in Seq(Salts) /\ Len(log) <= ItemCount /\ Len(log) \in Nat
    BY NonceBounds DEF NonceTypes
<1>1. CASE Len(log) = ItemCount
    <2>1. /\ Tail(log) \in Seq(Salts) /\ Len(Tail(log)) = Len(log) - 1
          /\ \A i \in 1 .. Len(log) - 1 : Tail(log)[i] = log[i + 1]
        BY <1>0, <1>1
    <2> DEFINE t == Tail(log)
    <2>2. log' = Append(t, s)
        BY <1>1
    <2> HIDE DEF t
    <2>3. /\ t \in Seq(Salts) /\ Len(t) = Len(log) - 1
          /\ \A i \in 1 .. Len(log) - 1 : t[i] = log[i + 1]
        BY <2>1 DEF t
    <2> QED
        <3>1. /\ log' \in Seq(Salts) /\ Len(log') = Len(log) /\ log'[Len(log)] = s
              /\ \A i \in 1 .. Len(log) - 1 : log'[i] = t[i]
            BY <1>0, <2>2, <2>3
        <3>2. DOMAIN log = 1 .. Len(log) /\ Len(log) \in 1 .. Len(log) + 1
            BY <1>0, <1>1
        <3>3. ASSUME NEW i \in 1 .. Len(log') - 1
              PROVE  LET j == i + (Len(log) + 1 - Len(log')) IN j \in DOMAIN log /\ log'[i] = log[j]
            <4>0. Len(log') = Len(log) /\ Len(log) \in Nat /\ i \in 1 .. Len(log) - 1
                BY <1>0, <3>1
            <4>1. i + (Len(log) + 1 - Len(log')) = i + 1 /\ i + 1 \in 1 .. Len(log)
                <5> DEFINE k == Len(log)
                           l == Len(log')
                <5> HIDE DEF k, l
                <5>1. l = k /\ k \in Nat /\ i \in 1 .. k - 1
                    BY <4>0 DEF k, l
                <5>2. i + (k + 1 - l) = i + 1 /\ i + 1 \in 1 .. k
                    BY <5>1
                <5> QED
                    BY <5>2 DEF k, l
            <4> QED
                BY <2>3, <3>1, <3>2, <4>1
        <3> QED
            BY <1>0, <3>1, <3>2, <3>3
<1>2. CASE Len(log) # ItemCount
    <2>1. log' = Append(log, s) /\ log \in Seq(Salts) /\ Len(log) \in Nat /\ Len(log) < ItemCount
        BY <1>0, <1>2
    <2>2. Len(log') = Len(log) + 1 /\ \A i \in 1 .. Len(log) : log'[i] = log[i]
        BY <2>1
    <2>3. \A i \in 1 .. Len(log') - 1 : i + (Len(log) + 1 - Len(log')) = i /\ i \in 1 .. Len(log)
        BY <2>1, <2>2
    <2>4. DOMAIN log = 1 .. Len(log) /\ log' \in Seq(Salts) /\ log'[Len(log) + 1] = s
        BY <2>1
    <2>5. Len(log') <= ItemCount /\ Len(log') \in 1 .. Len(log) + 1 /\ log'[Len(log')] = s
        <3>1. Len(log) + 1 <= ItemCount /\ Len(log) + 1 \in 1 .. Len(log) + 1
            BY <1>0, <2>1
        <3> QED
            BY <2>2, <2>4, <3>1
    <2>6. ASSUME NEW i \in 1 .. Len(log') - 1
          PROVE  LET j == i + (Len(log) + 1 - Len(log')) IN j \in DOMAIN log /\ log'[i] = log[j]
        BY <2>2, <2>3, <2>4
    <2> QED
        BY <2>4, <2>5, <2>6
<1> QED
    BY <1>1, <1>2

LEMMA RememberInv ==
    ASSUME NonceInv, NEW s \in Salts, Remember(s)
    PROVE  NonceInv'
<1> DEFINE c == bloom.current
<1>1. /\ bloom' = Set(bloom, s)
      /\ log' = Append(IF Len(log) = ItemCount THEN Tail(log) ELSE log, s)
      /\ UNCHANGED <<now, nonceSet, request, accepted>>
    BY DEF Remember
<1>2. bloom \in Blooms /\ log \in Seq(Salts) /\ Len(log) <= ItemCount /\ Len(log) \in Nat
    BY DEF NonceInv, NonceTypes
<1>3. /\ log' \in Seq(Salts) /\ Len(log') <= ItemCount /\ Len(log') \in 1 .. Len(log) + 1
      /\ log'[Len(log')] = s
      /\ \A i \in 1 .. Len(log') - 1 :
            LET j == i + (Len(log) + 1 - Len(log'))
            IN  j \in DOMAIN log /\ log'[i] = log[j]
    BY <1>1, LogGrows DEF NonceInv
<1>4. c \in {0, 1} /\ Other(c) \in {0, 1} /\ bloom.count[c] \in 0 .. ItemCount
    BY <1>2 DEF Blooms, Other
<1>5. bloom' \in Blooms
    BY <1>1, <1>2, <1>4, SetRoom, SetFull, NonceBounds
<1>6. LogInFilters'
    <2> SUFFICES ASSUME NEW i \in DOMAIN log'
                 PROVE  log'[i] \in IF i > Len(log') - bloom'.count[bloom'.current]
                                    THEN bloom'.blooms[bloom'.current]
                                    ELSE bloom'.blooms[Other(bloom'.current)]
        BY DEF LogInFilters
    <2>1. i \in 1 .. Len(log')
        BY <1>3
    <2>2. CASE i = Len(log')
        <3>1. s \in bloom'.blooms[bloom'.current] /\ bloom'.count[bloom'.current] \in Nat \ {0}
            <4>1. CASE bloom.count[c] < ItemCount
                <5>1. /\ bloom'.current = c
                      /\ bloom'.count[c] = bloom.count[c] + 1
                      /\ bloom'.blooms[c] = bloom.blooms[c] \union {s}
                    BY <1>1, <1>2, <4>1, SetRoom
                <5> QED
                    BY <1>4, <5>1, NonceBounds
            <4>2. CASE bloom.count[c] >= ItemCount
                <5>1. /\ bloom'.current = Other(c)
                      /\ bloom'.count[Other(c)] = 1
                      /\ bloom'.blooms[Other(c)] = {s}
                    BY <1>1, <1>2, <4>2, SetFull
                <5> QED
                    BY <5>1
            <4> QED
                BY <1>4, <4>1, <4>2, NonceBounds
        <3> QED
            BY <1>3, <2>1, <2>2, <3>1
    <2>3. CASE i # Len(log')
        <3> DEFINE j == i + (Len(log) + 1 - Len(log'))
        <3>1. j \in 1 .. Len(log) /\ log'[i] = log[j]
            BY <1>2, <1>3, <2>1, <2>3
        <3>2. log[j] \in IF j > Len(log) - bloom.count[c] THEN bloom.blooms[c]
                                                          ELSE bloom.blooms[Other(c)]
            BY <3>1, <1>2 DEF NonceInv, LogInFilters
        <3>3. CASE bloom.count[c] < ItemCount
            <4>1. /\ bloom'.current = c
                  /\ bloom'.count[c] = bloom.count[c] + 1
                  /\ bloom'.blooms[c] = bloom.blooms[c] \union {s}
                  /\ bloom'.blooms[Other(c)] = bloom.blooms[Other(c)]
                BY <1>1, <1>2, <3>3, SetRoom
            <4>2. j > Len(log) - bloom.count[c] <=> i > Len(log') - bloom'.count[c]
                <5> DEFINE k == Len(log)
                           l == Len(log')
                           n == bloom.count[c]
                <5>1. k \in Nat /\ l \in Nat /\ n \in Nat /\ i \in Nat
                    BY <1>2, <1>3, <1>4, <2>1, NonceBounds
                <5>2. j = i + (k + 1 - l) /\ bloom'.count[c] = n + 1
                    BY <4>1
                <5> HIDE DEF j, k, l, n
                <5>3. j > k - n <=> i > l - (n + 1)
                    BY <5>1, <5>2
                <5> QED
                    BY <5>2, <5>3 DEF k, l, n
            <4> QED
                BY <3>1, <3>2, <4>1, <4>2
        <3>4. CASE bloom.count[c] >= ItemCount
            <4>1. /\ Other(bloom'.current) = c
                  /\ bloom'.count[bloom'.current] = 1
                  /\ bloom'.blooms[c] = bloom.blooms[c]
                BY <1>1, <1>2, <3>4, SetFull
            <4>2. j > Len(log) - bloom.count[c]
                BY <1>2, <1>4, <3>1, <3>4, NonceBounds
            <4>3. ~(i > Len(log') - bloom'.count[bloom'.current])
                BY <1>2, <1>3, <2>1, <2>3, <4>1
            <4> QED
                BY <3>1, <3>2, <4>1, <4>2, <4>3
        <3> QED
            BY <1>4, <3>3, <3>4, NonceBounds
    <2> QED
        BY <2>2, <2>3
<1>7. NonceTypeOK' /\ CacheIsNewer'
    <2>1. CacheIsNewer'
        BY <1>1 DEF NonceInv, CacheIsNewer
    <2>2. bloom'.current \in {0, 1} /\ \A i \in {0, 1} : bloom'.count[i] \in 0..ItemCount
        BY <1>5 DEF Blooms
    <2> QED
        BY <1>1, <2>1, <2>2 DEF NonceInv, NonceTypes, NonceTypeOK
<1> QED
    BY <1>3, <1>5, <1>6, <1>7 DEF NonceInv, NonceTypes

LEMMA NonceStep == NonceInv /\ [NonceNext]_nonceVars => NonceInv'
<1> SUFFICES ASSUME NonceInv, [NonceNext]_nonceVars PROVE NonceInv'
    OBVIOUS
<1>1. CASE Tick
    <2>1. now' \in 1 .. MaxTime
        BY <1>1, NonceBounds DEF Tick, NonceInv, NonceTypes, NonceTypeOK
    <2> QED
        BY <1>1, <2>1
           DEF Tick, NonceInv, NonceTypes, NonceTypeOK, LogInFilters, CacheIsNewer
<1>2. ASSUME NEW r \in Requests, Receive2022(r) PROVE NonceInv'
    <2> USE <1>2 DEF NonceInv, NonceTypes, NonceTypeOK, Receive2022
    <2>1. /\ nonceSet' \in [Requests -> 0 .. MaxTime]
          /\ accepted' \in [Requests -> 0 .. MaxTime]
        BY NonceBounds
    <2>2. ASSUME NEW q \in Requests PROVE accepted'[q] <= nonceSet'[q] /\ nonceSet'[q] <= now'
        <3>1. /\ accepted[q] <= nonceSet[q] /\ nonceSet[q] <= now
              /\ accepted[q] \in 0 .. MaxTime /\ nonceSet[q] \in 0 .. MaxTime
              /\ now \in Nat /\ now' = now
            BY NonceBounds DEF CacheIsNewer
        <3>2. accepted[q] <= now
            BY <3>1, NonceBounds
        <3>3. CASE q = r
            BY <3>1, <3>2, <3>3
        <3>4. CASE q # r
            BY <3>1, <3>4
        <3> QED
            BY <3>3, <3>4
    <2> QED
        BY <2>1, <2>2 DEF LogInFilters, CacheIsNewer
<1>3. CASE GenerateNonce \/ \E s \in Salts : Receive(s)
    BY <1>3, RememberInv DEF GenerateNonce, Receive
<1>4. CASE UNCHANGED nonceVars
    BY <1>4
       DEF nonceVars, NonceInv, NonceTypes, NonceTypeOK, LogInFilters, CacheIsNewer
<1> QED
    BY <1>1, <1>2, <1>3, <1>4 DEF NonceNext

\* However the two Bloom filters are swapped, the last ItemCount salts are in
\* one of them, for every size of a filter.
THEOREM SaltsStayKnown == NonceSpec => []RecentSaltsKnown
<1>1. NonceInv => RecentSaltsKnown
    BY DEF NonceInv, NonceTypes, LogInFilters, Blooms, Other, RecentSaltsKnown, Known
<1>2. NonceInit => NonceInv
    BY NonceStarts
<1>3. NonceInv /\ [NonceNext]_nonceVars => NonceInv'
    BY NonceStep
<1> QED
    BY <1>1, <1>2, <1>3, PTL DEF NonceSpec

\* An accepted AEAD-2022 request is not accepted again while its salt is in the
\* cache, for every tolerance of timestamps and resolution of the clock.
THEOREM RepeatsAreLate == NonceSpec => NoQuickRepeat
<1>1. NonceInv /\ [NonceNext]_nonceVars => [RepeatIsLate]_nonceVars
    <2> SUFFICES ASSUME NonceInv, NonceNext, NEW r \in Requests,
                        accepted'[r] # accepted[r], accepted[r] # Never
                 PROVE  accepted'[r] > accepted[r] + Ttl
        BY DEF RepeatIsLate
    <2>1. PICK q \in Requests : Receive2022(q)
        BY DEF NonceNext, Tick, GenerateNonce, Receive, Remember
    <2>2. q = r /\ ~Cached(r) /\ accepted'[r] = now
        BY <2>1 DEF Receive2022, NonceInv, NonceTypes, NonceTypeOK
    <2>3. /\ accepted[r] \in Nat /\ nonceSet[r] \in Nat /\ now \in Nat
          /\ accepted[r] <= nonceSet[r] /\ Ttl \in Nat
        BY NonceBounds DEF NonceInv, NonceTypes, NonceTypeOK, CacheIsNewer
    <2> QED
        BY <2>2, <2>3 DEF Cached, Never
<1>2. NonceInit => NonceInv
    BY NonceStarts
<1>3. NonceInv /\ [NonceNext]_nonceVars => NonceInv'
    BY NonceStep
<1> QED
    BY <1>1, <1>2, <1>3, PTL DEF NonceSpec, NoQuickRepeat

-----------------------------------------------------------------------------
(***************************************************************************)
(* The readers.  The proofs know a reader by its fields and leave their    *)
(* contents alone: what is on the wire does not matter to a refusal.       *)
(***************************************************************************)

ReaderFields == {"state", "buf", "plen", "key", "unchecked", "decrypted", "short"}
IsReader(r) == r = [f \in ReaderFields |-> r[f]]

\* While a connection that is to be refused runs, its reader is still in front
\* of the check that refuses it.  A response that does not answer the request
\* is refused only when it is handed out.
BeforeTheCheck ==
    Refused /\ end = "running" =>
        /\ conn.method = "stream" => reader.state = "WaitSalt"
        /\ conn.method = "aead" => reader.unchecked /\ reader.state # "BufferedData"
        /\ Is2022 /\ conn.matched => reader.state = "ReadHeader"

AuthInv ==
    /\ IsReader(reader) /\ conn \in Connections
    /\ OnlyAuthentic
    /\ BeforeTheCheck

LEMMA AuthStarts == CipherInit => AuthInv
<1> SUFFICES ASSUME CipherInit PROVE AuthInv
    OBVIOUS
<1> USE DEF CipherInit, NewReader, NewStreamReader, NewAeadReader, New2022Reader
<1>1. IsReader(reader)
    BY DEF IsReader, ReaderFields
<1>2. BeforeTheCheck
    BY DEF BeforeTheCheck, Is2022
<1> QED
    BY <1>1, <1>2 DEF AuthInv, OnlyAuthentic, OnlyAuthenticSalts, RefusedSilently

\* A refused connection has a cipher; and of the AEAD-2022 ones, either the
\* response is another request's or the header is refused.
LEMMA RefusedCases ==
    ASSUME conn \in Connections, Refused
    PROVE  \/ conn.method \in {"stream", "aead"} /\ Rejected /\ conn.matched
           \/ Is2022 /\ ~conn.matched
           \/ Is2022 /\ conn.matched /\ (conn.header # "good" \/ (FromClient /\ Rejected))
BY MethodsAssumption DEF Connections, Refused, Rejected, Is2022, FromClient

\* Steps that leave the receiving side alone, and steps that only end it.
LEMMA AuthFrame ==
    ASSUME AuthInv, UNCHANGED <<conn, reader, out, filter>>, end' = end \/ end' # "running"
    PROVE  AuthInv'
<1>1. Refused' <=> Refused
    BY DEF Refused, Rejected, FromClient, Is2022
<1> QED
    BY <1>1
       DEF AuthInv, OnlyAuthentic, OnlyAuthenticSalts, RefusedSilently, BeforeTheCheck, IsReader, Chunked, Is2022

\* What a reader's new state has to satisfy while nothing is handed out.
LEMMA AuthReads ==
    ASSUME AuthInv, UNCHANGED <<conn, out>>, IsReader(reader'),
           Chunked /\ filter' => reader'.decrypted,
           end' = "running" /\ Refused =>
               /\ conn.method = "stream" => reader'.state = "WaitSalt"
               /\ conn.method = "aead" => reader'.unchecked /\ reader'.state # "BufferedData"
               /\ Is2022 /\ conn.matched => reader'.state = "ReadHeader"
    PROVE  AuthInv'
<1>1. (Refused' <=> Refused) /\ (Chunked' <=> Chunked) /\ (Is2022' <=> Is2022)
    BY DEF Refused, Rejected, FromClient, Is2022, Chunked
<1> QED
    BY <1>1 DEF AuthInv, OnlyAuthentic, OnlyAuthenticSalts, RefusedSilently, BeforeTheCheck

\* What one poll of the socket may do, by the reader's method and state.
LEMMA ReadCases ==
    ASSUME PollRead
    PROVE  /\ end = "running" /\ reader.state # "BufferedData" /\ UNCHANGED conn
           /\ \E buf :
                 \/ reader' = [reader EXCEPT !.buf = buf] /\ UNCHANGED <<out, end, filter>>
                 \/ conn.method = "aead" /\ reader.state = "WaitSalt" /\ GotSalt(buf)
                 \/ Chunked /\ reader.state = "ReadLength" /\ GotLength(buf)
                 \/ conn.method = "aead" /\ GotAeadData(buf)
                 \/ Is2022 /\ reader.state = "ReadHeader" /\ GotHeader(buf)
                 \/ Is2022 /\ reader.state # "ReadHeader" /\ Got2022Data(buf)
                 \/ ~Chunked /\ reader.state = "WaitSalt" /\ GotIv(buf)
                 \/ ~Chunked /\ reader.state # "WaitSalt" /\ GotPlain(buf)
<1>1. end = "running" /\ reader.state # "BufferedData" /\ UNCHANGED conn
    BY Zenon DEF PollRead
<1>2. PICK buf : \/ reader' = [reader EXCEPT !.buf = buf] /\ UNCHANGED <<out, end, filter>>
                 \/ CASE conn.method = "aead"      -> AeadRead(buf)
                      [] conn.method = "aead2022"  -> Aead2022Read(buf)
                      [] OTHER                     -> StreamRead(buf)
    BY Zenon DEF PollRead
<1> QED
    BY <1>1, <1>2, Zenon DEF AeadRead, Aead2022Read, StreamRead, Chunked, Is2022

LEMMA AuthSalt ==
    ASSUME AuthInv, NEW buf, UNCHANGED conn, end = "running", conn.method = "aead", GotSalt(buf)
    PROVE  AuthInv'
<1> DEFINE r == [reader EXCEPT !.key = Bad \notin Range(buf), !.state = "ReadLength"]
<1>0. IsReader(reader)
    BY DEF AuthInv
<1>1. IsReader(r) /\ r.state = "ReadLength" /\ r.unchecked = reader.unchecked /\ r.decrypted = reader.decrypted
    BY <1>0 DEF IsReader, ReaderFields
<1>2. reader' = [r EXCEPT !.buf = <<>>] /\ UNCHANGED <<out, end, filter>>
    BY DEF GotSalt, Goto
<1> HIDE DEF r
<1>3. /\ IsReader(reader') /\ reader'.state = "ReadLength"
      /\ reader'.unchecked = reader.unchecked /\ reader'.decrypted = reader.decrypted
    BY <1>1, <1>2 DEF IsReader, ReaderFields
<1> QED
    BY <1>2, <1>3, AuthReads
       DEF AuthInv, OnlyAuthentic, OnlyAuthenticSalts, BeforeTheCheck, Is2022

\* A read that fails hands out nothing, and what it leaves of the reader is of
\* no account any more.
LEMMA AuthFails ==
    ASSUME AuthInv, UNCHANGED conn, NEW r, IsReader(r), r.decrypted = reader.decrypted, FailRead(r)
    PROVE  AuthInv'
BY AuthReads DEF FailRead, AuthInv, OnlyAuthentic, OnlyAuthenticSalts

LEMMA AuthPartial ==
    ASSUME AuthInv, NEW buf, UNCHANGED conn,
           reader' = [reader EXCEPT !.buf = buf], UNCHANGED <<out, end, filter>>
    PROVE  AuthInv'
<1>1. /\ IsReader(reader') /\ reader'.state = reader.state
      /\ reader'.unchecked = reader.unchecked /\ reader'.decrypted = reader.decrypted
    BY DEF AuthInv, IsReader, ReaderFields
<1> QED
    BY <1>1, AuthReads DEF AuthInv, OnlyAuthentic, OnlyAuthenticSalts, BeforeTheCheck

LEMMA AuthLength ==
    ASSUME AuthInv, NEW buf, UNCHANGED conn, end = "running", Chunked, reader.state = "ReadLength",
           GotLength(buf)
    PROVE  AuthInv'
<1>0. IsReader(reader)
    BY DEF AuthInv
<1>1. CASE ~Intact(buf)
    BY <1>0, <1>1, AuthFails DEF GotLength
<1>2. CASE Intact(buf)
    <2> DEFINE r == [reader EXCEPT !.state = "ReadData", !.plen = buf[1][2]]
    <2>1. IsReader(r) /\ r.state = "ReadData" /\ r.unchecked = reader.unchecked /\ r.decrypted = reader.decrypted
        BY <1>0 DEF IsReader, ReaderFields
    <2>2. reader' = [r EXCEPT !.buf = <<>>] /\ UNCHANGED <<out, end, filter>>
        BY <1>2 DEF GotLength, Goto
    <2> HIDE DEF r
    <2>3. /\ IsReader(reader') /\ reader'.state = "ReadData"
          /\ reader'.unchecked = reader.unchecked /\ reader'.decrypted = reader.decrypted
        BY <2>1, <2>2 DEF IsReader, ReaderFields
    <2> QED
        BY <2>2, <2>3, AuthReads
           DEF AuthInv, OnlyAuthentic, OnlyAuthenticSalts, BeforeTheCheck, Is2022, Chunked
<1> QED
    BY <1>1, <1>2

LEMMA BufferedFacts ==
    ASSUME IsReader(reader), NEW buf
    PROVE  IsReader(Buffered(buf)) /\ Buffered(buf).decrypted /\ Buffered(buf).state = "BufferedData"
BY DEF Buffered, IsReader, ReaderFields

\* The salt of an AEAD connection is checked behind its first chunk (#442): by
\* then it is authentic, and nothing of it has been handed out.
LEMMA AuthAeadData ==
    ASSUME AuthInv, NEW buf, UNCHANGED conn, end = "running", conn.method = "aead", GotAeadData(buf)
    PROVE  AuthInv'
<1>0. IsReader(reader)
    BY DEF AuthInv
<1>1. CASE ~Intact(buf) \/ (reader.unchecked /\ Rejected)
    <2>1. IsReader([reader EXCEPT !.buf = <<>>]) /\ [reader EXCEPT !.buf = <<>>].decrypted = reader.decrypted
        BY <1>0 DEF IsReader, ReaderFields
    <2> QED
        BY <1>1, <2>1, AuthFails DEF GotAeadData
<1>2. CASE ~(~Intact(buf) \/ (reader.unchecked /\ Rejected))
    <2>1. reader' = Buffered(buf) /\ UNCHANGED <<out, end>>
        BY <1>2 DEF GotAeadData
    <2>2. ~Refused
        BY <1>2, RefusedCases DEF AuthInv, BeforeTheCheck, Is2022
    <2> QED
        BY <1>0, <2>1, <2>2, BufferedFacts, AuthReads
<1> QED
    BY <1>1, <1>2

LEMMA Auth2022Data ==
    ASSUME AuthInv, NEW buf, UNCHANGED conn, end = "running", Is2022, reader.state # "ReadHeader",
           Got2022Data(buf)
    PROVE  AuthInv'
<1>0. IsReader(reader)
    BY DEF AuthInv
<1>1. CASE ~Intact(buf)
    <2>1. IsReader([reader EXCEPT !.buf = <<>>]) /\ [reader EXCEPT !.buf = <<>>].decrypted = reader.decrypted
        BY <1>0 DEF IsReader, ReaderFields
    <2> QED
        BY <1>1, <2>1, AuthFails DEF Got2022Data
<1>2. CASE Intact(buf)
    <2>1. reader' = Buffered(buf) /\ UNCHANGED <<out, end, filter>>
        BY <1>2 DEF Got2022Data
    <2>2. Refused => ~conn.matched
        BY DEF AuthInv, BeforeTheCheck
    <2> QED
        BY <1>0, <2>1, <2>2, BufferedFacts, AuthReads DEF Is2022
<1> QED
    BY <1>1, <1>2

\* The header of an AEAD-2022 connection is decrypted before its salt is
\* checked, and a server checks it before anything else is read.
LEMMA AuthHeader ==
    ASSUME AuthInv, NEW buf, UNCHANGED conn, end = "running", Is2022, GotHeader(buf)
    PROVE  AuthInv'
<1> DEFINE whole == Len(buf) = HeaderLen
           fails == ~whole \/ ~Intact(buf) \/ conn.header # "good" \/ (FromClient /\ Rejected)
<1>0. IsReader(reader)
    BY DEF AuthInv
<1>1. CASE fails
    <2>1. /\ IsReader([reader EXCEPT !.short = ~whole])
          /\ [reader EXCEPT !.short = ~whole].decrypted = reader.decrypted
        BY <1>0 DEF IsReader, ReaderFields
    <2> QED
        BY <1>1, <2>1, AuthFails DEF GotHeader
<1>2. CASE ~fails
    <2> DEFINE r == [reader EXCEPT !.state = "ReadData", !.short = ~whole, !.decrypted = whole,
                        !.plen = IF whole THEN buf[Len(buf)][2] ELSE 0]
    <2>1. IsReader(r) /\ r.decrypted = whole
        BY <1>0 DEF IsReader, ReaderFields
    <2>2. reader' = [r EXCEPT !.buf = <<>>] /\ UNCHANGED <<out, end>>
        BY <1>2 DEF GotHeader, Goto
    <2> HIDE DEF r
    <2>3. IsReader(reader') /\ reader'.decrypted = whole
        BY <2>1, <2>2 DEF IsReader, ReaderFields
    <2>4. Refused => ~conn.matched
        BY <1>2, RefusedCases DEF AuthInv, Is2022
    <2> QED
        BY <1>2, <2>2, <2>3, <2>4, AuthReads DEF Is2022
<1> QED
    BY <1>1, <1>2

\* A stream cipher checks its IV at once.
LEMMA AuthIv ==
    ASSUME AuthInv, NEW buf, UNCHANGED conn, ~Chunked, GotIv(buf)
    PROVE  AuthInv'
<1> DEFINE r == [reader EXCEPT !.buf = <<>>, !.key = Bad \notin Range(buf), !.state = "Read"]
<1>1. IsReader(r) /\ r.decrypted = reader.decrypted
    BY DEF AuthInv, IsReader, ReaderFields
<1>2. CASE Rejected
    BY <1>1, <1>2, AuthFails DEF GotIv
<1>3. CASE ~Rejected
    <2>1. reader' = [r EXCEPT !.buf = <<>>] /\ UNCHANGED <<out, end>>
        BY <1>3 DEF GotIv, Goto
    <2> HIDE DEF r
    <2>2. IsReader(reader')
        BY <1>1, <2>1 DEF IsReader, ReaderFields
    <2>3. ~Refused
        BY <1>3, RefusedCases DEF AuthInv, Chunked, Is2022
    <2> QED
        BY <2>1, <2>2, <2>3, AuthReads
<1> QED
    BY <1>2, <1>3

\* Bytes leave by two ways only, and a refused connection is on neither.
LEMMA AuthPlain ==
    ASSUME AuthInv, NEW buf, UNCHANGED conn, end = "running", ~Chunked, reader.state # "WaitSalt",
           GotPlain(buf)
    PROVE  AuthInv'
<1>1. ~Refused
    BY RefusedCases DEF AuthInv, BeforeTheCheck, Chunked, Is2022
<1>2. ~Refused'
    BY <1>1 DEF Refused, Rejected, FromClient, Is2022
<1> QED
    BY <1>2
       DEF GotPlain, AuthInv, OnlyAuthentic, OnlyAuthenticSalts, RefusedSilently, BeforeTheCheck, Chunked

LEMMA AuthDeliver == AuthInv /\ Deliver => AuthInv'
<1> SUFFICES ASSUME AuthInv, Deliver PROVE AuthInv'
    OBVIOUS
<1> DEFINE n == IF Len(reader.buf) < SinkMax THEN Len(reader.buf) ELSE SinkMax
           rest == SubSeq(reader.buf, n + 1, Len(reader.buf))
           next == [reader EXCEPT !.buf = rest, !.state = IF rest = <<>> THEN "ReadLength" ELSE @]
<1>0. UNCHANGED conn /\ end = "running" /\ reader.state = "BufferedData"
    BY Zenon DEF Deliver
<1>1. IsReader(next) /\ next.decrypted = reader.decrypted
    BY DEF AuthInv, IsReader, ReaderFields
<1>2. IF ~conn.matched THEN FailRead(next) ELSE reader' = next /\ UNCHANGED <<end, filter>>
    BY Zenon DEF Deliver
<1> HIDE DEF next
<1>3. CASE ~conn.matched
    BY <1>0, <1>1, <1>2, <1>3, AuthFails
<1>4. CASE conn.matched
    <2>1. ~Refused
        BY <1>0, <1>4, RefusedCases DEF AuthInv, BeforeTheCheck, Chunked, Is2022
    <2>2. ~Refused' /\ (Chunked' <=> Chunked)
        BY <1>0, <2>1 DEF Refused, Rejected, FromClient, Is2022, Chunked
    <2> QED
        BY <1>0, <1>1, <1>2, <1>4, <2>2
           DEF AuthInv, OnlyAuthentic, OnlyAuthenticSalts, RefusedSilently, BeforeTheCheck
<1> QED
    BY <1>3, <1>4

LEMMA AuthStep == AuthInv /\ [CipherNext]_cipherVars => AuthInv'
<1> SUFFICES ASSUME AuthInv, [CipherNext]_cipherVars PROVE AuthInv'
    OBVIOUS
<1>1. CASE FirstRead \/ CopyRead \/ PollWrite \/ Shutdown
    <2>1. UNCHANGED <<conn, reader, out, end, filter>>
        BY <1>1, Zenon DEF FirstRead, CopyRead, PollWrite, Shutdown
    <2> QED
        BY <2>1, AuthFrame
<1>2. CASE Cut \/ Damage
    <2>1. UNCHANGED <<conn, reader, out, end, filter>>
        BY <1>2, Zenon DEF Cut, Damage
    <2> QED
        BY <2>1, AuthFrame
<1>3. CASE PollRead
    BY <1>3, ReadCases, AuthPartial, AuthSalt, AuthLength, AuthAeadData, AuthHeader, Auth2022Data, AuthIv,
       AuthPlain, Zenon
<1>4. CASE Deliver
    BY <1>4, AuthDeliver
<1>5. CASE ReadEof
    <2>1. UNCHANGED <<conn, reader, out, filter>> /\ end' # "running"
        BY <1>5 DEF ReadEof
    <2> QED
        BY <2>1, AuthFrame
<1>6. CASE UNCHANGED cipherVars
    BY <1>6, AuthFrame DEF cipherVars
<1> QED
    BY <1>1, <1>2, <1>3, <1>4, <1>5, <1>6 DEF CipherNext

\* Of a connection that is refused, for a repeated salt, a response to another
\* request or a bad header, no byte is handed out; and a chunked cipher puts
\* only salts into the filter whose owner has shown to know the key.
THEOREM RefusalsAreSilent == CipherSpec => []OnlyAuthentic
<1>1. AuthInv => OnlyAuthentic
    BY DEF AuthInv
<1> QED
    BY <1>1, AuthStarts, AuthStep, PTL DEF CipherSpec

-----------------------------------------------------------------------------
(***************************************************************************)
(* How a connection ends.  The wire is known by where its packets end:     *)
(* behind the salt, and behind each packet, stands the next length, and a  *)
(* length leads to the end of its packet.  Of the tokens nothing else      *)
(* matters, and neither do the sizes of packets, reads and writes.         *)
(***************************************************************************)

\* The tokens of the wire; where on it, for a connection c, the first length or
\* header stands.
Kinds == {"salt", "length", "header", "data", "eih", "tag", "bad"}
Tokens == Kinds \X Nat
Announces(t) == t[1] \in {"length", "header"}
LeadOf(c) ==
    CASE c.method = "aead"     -> 3
      [] c.method = "aead2022" -> IF c.eih THEN 4 ELSE 3
      [] OTHER                 -> 2

\* What place x of the wire may carry when packets end at E and d says whether
\* a token was damaged: behind the salt and behind a packet stands the next
\* length, and a length leads to the end of its packet.
TokenOK(c, t, x, E, d) ==
    /\ t = Bad => d
    /\ t # Bad /\ c.method \in {"aead", "aead2022"} /\ (x = LeadOf(c) \/ (x > 1 /\ x - 1 \in E)) => Announces(t)
    /\ Announces(t) => x + t[2] + 1 \in E

Layout(c, T, r, E, d) == \A i \in 1..Len(T) : TokenOK(c, T[i], r + i, E, d)

\* Where what the reader holds began; how much there is, with what is not yet sent.
UnitStart == wire.read - Len(reader.buf)
Assembled == wire.read + Len(wire.q) + Len(writer.buf)

Copies == [pos : Nat, cap : Nat, readDone : BOOLEAN]
Writers == [state : {"First", "Assemble", "Writing", "Closed"}, greeted : BOOLEAN, first : BOOLEAN,
            buf : Seq(Tokens), ends : SUBSET Nat]
Wires == [q : Seq(Tokens), state : {"open", "fin", "cut"}, damaged : BOOLEAN, read : Nat]

CipherTypes ==
    /\ conn \in Connections
    /\ copy \in Copies
    /\ writer \in Writers
    /\ wire \in Wires
    /\ IsReader(reader)
    /\ reader.state \in {"WaitSalt", "ReadHeader", "ReadLength", "ReadData", "BufferedData", "Read"}
    /\ end \in {"running", "eof", "error"}
    /\ filter \in BOOLEAN

\* CopyBuffer: the bytes of a write that is pending stay where they are.
CopyInOrder ==
    /\ copy.pos <= copy.cap /\ copy.cap <= MaxBytes
    /\ conn.method = "none" /\ ~writer.first /\ writer.state = "Writing" => Len(writer.buf) = copy.cap - copy.pos

\* The packets end at the places the writer counts, the last behind all that
\* was assembled.
PacketsInOrder ==
    /\ Assembled \in writer.ends /\ \A e \in writer.ends : e <= Assembled
    /\ IF writer.greeted THEN Assembled >= LeadOf(conn) ELSE writer.ends = {0}
    /\ Layout(conn, writer.buf, wire.read + Len(wire.q), writer.ends, wire.damaged)

WriterInOrder ==
    /\ IF writer.state = "Writing" THEN writer.greeted ELSE writer.buf = <<>>
    /\ wire.state = "fin" => writer.state = "Closed"
    /\ 0 \in writer.ends
    /\ \E m \in writer.ends : \A e \in writer.ends : e <= m
    /\ wire.state # "cut" /\ conn.method # "none" => PacketsInOrder

WireInOrder == conn.method # "none" => Layout(conn, wire.q, wire.read, writer.ends, wire.damaged)

\* Each state of the reader and the place of the wire it is at.
Held ==
    reader.state # "BufferedData" =>
        /\ reader.buf \in Seq(Tokens) /\ Len(reader.buf) <= wire.read
        /\ conn.method # "none" => Layout(conn, reader.buf, UnitStart, writer.ends, wire.damaged)

AtItsPlace ==
    CASE reader.state = "WaitSalt" ->
            conn.method \in {"stream", "aead"} /\ UnitStart = 0 /\ Len(reader.buf) < 2
      [] reader.state = "ReadHeader" ->
            Is2022 /\ wire.read = 0 /\ reader.buf = <<>>
      [] reader.state = "ReadLength" ->
            /\ Chunked /\ reader.buf = <<>>
            /\ (conn.method = "aead" /\ wire.read = 2) \/ (wire.read > 0 /\ wire.read \in writer.ends)
      [] reader.state = "ReadData" ->
            /\ Chunked /\ reader.plen \in Nat /\ Len(reader.buf) < reader.plen + 1
            /\ UnitStart + reader.plen + 1 \in writer.ends
      [] reader.state = "BufferedData" ->
            /\ Chunked /\ reader.buf \in Seq(Nat)
            /\ wire.read > 0 /\ wire.read \in writer.ends
      [] OTHER ->
            ~Chunked /\ reader.buf = <<>>

ReaderInOrder == end = "running" => Held /\ AtItsPlace /\ (~reader.key => wire.damaged)

\* An error that only the missing of everything explains is one behind a FIN,
\* so that nothing can still be sent.
Caused ==
    /\ end = "error" => \/ wire.damaged \/ wire.state = "cut" \/ Refused \/ reader.short
                        \/ (writer.ends = {0} /\ wire.state # "open")
    /\ end = "eof" /\ Chunked => wire.read \in writer.ends \cup {2}

CausesInv == CipherTypes /\ CopyInOrder /\ WriterInOrder /\ WireInOrder /\ ReaderInOrder /\ Caused

LEMMA SaltLength == Len(Salt) = 2
BY DEF Salt

LEMMA HeaderLength == conn \in Connections => HeaderLen \in 3..4 /\ (Is2022 => HeaderLen = LeadOf(conn))
<1> SUFFICES ASSUME conn \in Connections PROVE HeaderLen \in 3..4 /\ (Is2022 => HeaderLen = LeadOf(conn))
    OBVIOUS
<1>1. Len(Identity) = IF conn.eih THEN 1 ELSE 0
    BY DEF Identity
<1> QED
    BY <1>1, SaltLength DEF HeaderLen, LeadOf, Is2022

LEMMA LeadBounds == ASSUME NEW c PROVE LeadOf(c) \in 2..4
BY DEF LeadOf

\* Layouts of parts and of the whole.
LEMMA LayoutJoins ==
    ASSUME NEW c, NEW a \in Seq(Tokens), NEW b \in Seq(Tokens), NEW r \in Nat, NEW E, NEW d,
           Layout(c, a, r, E, d), Layout(c, b, r + Len(a), E, d)
    PROVE  Layout(c, a \o b, r, E, d)
<1> SUFFICES ASSUME NEW i \in 1..Len(a \o b) PROVE TokenOK(c, (a \o b)[i], r + i, E, d)
    BY DEF Layout
<1>0. Len(a \o b) = Len(a) + Len(b) /\ Len(a) \in Nat /\ Len(b) \in Nat
    OBVIOUS
<1>1. CASE i <= Len(a)
    BY <1>0, <1>1 DEF Layout
<1>2. CASE i > Len(a)
    <2> DEFINE j == i - Len(a)
    <2>1. j \in 1..Len(b) /\ r + Len(a) + j = r + i /\ (a \o b)[i] = b[j]
        BY <1>0, <1>2
    <2> HIDE DEF j
    <2> QED
        BY <2>1 DEF Layout
<1> QED
    BY <1>0, <1>1, <1>2

LEMMA LayoutBegins ==
    ASSUME NEW c, NEW a \in Seq(Tokens), NEW r \in Nat, NEW E, NEW d, Layout(c, a, r, E, d), NEW k \in 0..Len(a)
    PROVE  /\ SubSeq(a, 1, k) \in Seq(Tokens) /\ Len(SubSeq(a, 1, k)) = k
           /\ Layout(c, SubSeq(a, 1, k), r, E, d)
<1>1. SubSeq(a, 1, k) \in Seq(Tokens) /\ Len(SubSeq(a, 1, k)) = k
    OBVIOUS
<1>2. \A i \in 1..k : SubSeq(a, 1, k)[i] = a[i] /\ i \in 1..Len(a)
    OBVIOUS
<1> QED
    BY <1>1, <1>2 DEF Layout

LEMMA LayoutGoesOn ==
    ASSUME NEW c, NEW a \in Seq(Tokens), NEW r \in Nat, NEW E, NEW d, Layout(c, a, r, E, d), NEW k \in 0..Len(a)
    PROVE  /\ SubSeq(a, k + 1, Len(a)) \in Seq(Tokens) /\ Len(SubSeq(a, k + 1, Len(a))) = Len(a) - k
           /\ Layout(c, SubSeq(a, k + 1, Len(a)), r + k, E, d)
<1> DEFINE b == SubSeq(a, k + 1, Len(a))
<1>1. b \in Seq(Tokens) /\ Len(b) = Len(a) - k
    OBVIOUS
<1>2. ASSUME NEW i \in 1..Len(b) PROVE TokenOK(c, b[i], r + k + i, E, d)
    <2> DEFINE j == k + i
    <2>1. b[i] = a[j] /\ j \in 1..Len(a) /\ r + k + i = r + j
        BY <1>1
    <2> HIDE DEF j, b
    <2> QED
        BY <2>1 DEF Layout
<1> HIDE DEF b
<1>3. Layout(c, b, r + k, E, d)
    BY <1>2 DEF Layout
<1> QED
    BY <1>1, <1>3 DEF b

\* A packet more, behind everything, changes nothing; nor does damage elsewhere.
LEMMA LayoutGrows ==
    ASSUME NEW c, NEW a \in Seq(Tokens), NEW r \in Nat, NEW E \in SUBSET Nat, NEW d, Layout(c, a, r, E, d),
           NEW e \in Nat, e >= r + Len(a)
    PROVE  Layout(c, a, r, E \cup {e}, d)
<1> SUFFICES ASSUME NEW i \in 1..Len(a) PROVE TokenOK(c, a[i], r + i, E \cup {e}, d)
    BY DEF Layout
<1>1. TokenOK(c, a[i], r + i, E, d)
    BY DEF Layout
<1>2. r + i - 1 # e
    OBVIOUS
<1> QED
    BY <1>1, <1>2 DEF TokenOK

LEMMA LayoutDamaged ==
    ASSUME NEW c, NEW a, NEW r, NEW E, NEW d, Layout(c, a, r, E, d)
    PROVE  Layout(c, a, r, E, TRUE)
BY DEF Layout, TokenOK

LEMMA LayoutEmpty ==
    ASSUME NEW c, NEW a, a = <<>>, NEW r, NEW E, NEW d
    PROVE  Layout(c, a, r, E, d)
BY DEF Layout

\* Damage shows.
LEMMA BadMeansDamage ==
    ASSUME NEW c, NEW a \in Seq(Tokens), NEW r, NEW E, NEW d, Layout(c, a, r, E, d), Bad \in Range(a)
    PROVE  d
<1>1. PICK i \in DOMAIN a : a[i] = Bad
    BY DEF Range
<1> QED
    BY <1>1 DEF Layout, TokenOK

\* The kinds of tokens.
LEMMA TokenFacts ==
    ASSUME NEW n \in Nat
    PROVE  /\ Length(n) \in Tokens /\ Announces(Length(n)) /\ Length(n)[2] = n /\ Length(n) # Bad
           /\ Header(n) \in Tokens /\ Announces(Header(n)) /\ Header(n)[2] = n /\ Header(n) # Bad
           /\ Data(n) \in Tokens /\ ~Announces(Data(n)) /\ Data(n) # Bad
           /\ Tag \in Tokens /\ ~Announces(Tag) /\ Tag # Bad
           /\ Eih \in Tokens /\ ~Announces(Eih) /\ Eih # Bad
           /\ Bad \in Tokens /\ ~Announces(Bad)
<1>1. \A s \in Kinds, k \in Nat : <<s, k>> \in Tokens
    BY DEF Tokens
<1>2. \A s, k : <<s, k>>[1] = s /\ <<s, k>>[2] = k
    OBVIOUS
<1>3. Length(n) \in Tokens /\ Header(n) \in Tokens /\ Data(n) \in Tokens
    BY <1>1 DEF Length, Header, Data, Kinds
<1>4. Tag \in Tokens /\ Eih \in Tokens /\ Bad \in Tokens
    BY <1>1 DEF Tag, Eih, Bad, Kinds
<1>5. Announces(Length(n)) /\ Length(n)[2] = n /\ Length(n) # Bad
    BY DEF Announces, Length, Bad
<1>6. Announces(Header(n)) /\ Header(n)[2] = n /\ Header(n) # Bad
    BY DEF Announces, Header, Bad
<1>7. ~Announces(Data(n)) /\ Data(n) # Bad /\ ~Announces(Bad)
    BY DEF Announces, Data, Bad
<1>8. ~Announces(Tag) /\ Tag # Bad /\ ~Announces(Eih) /\ Eih # Bad
    BY DEF Announces, Tag, Eih, Bad
<1> QED
    BY <1>3, <1>4, <1>5, <1>6, <1>7, <1>8

\* Tokens that are sound and announce nothing.
Silent(s) == s \in Seq(Tokens) /\ \A i \in 1..Len(s) : ~Announces(s[i]) /\ s[i] # Bad

LEMMA SilentParts ==
    /\ Silent(Salt) /\ Silent(<<>>) /\ Silent(<<Eih>>) /\ Silent(<<Tag>>)
    /\ \A a, b : Silent(a) /\ Silent(b) => Silent(a \o b)
    /\ \A p \in Seq(Nat) : Silent(Body(p)) /\ Len(Body(p)) = Len(p)
<1>1. Silent(<<>>) /\ Silent(<<Eih>>) /\ Silent(<<Tag>>)
    BY TokenFacts DEF Silent
<1>2. Silent(Salt)
    <2>1. Salt \in Seq(Tokens)
        <3>1. <<"salt", 1>> \in Tokens /\ <<"salt", 2>> \in Tokens
            BY DEF Tokens, Kinds
        <3> QED
            BY <3>1 DEF Salt
    <2>2. Salt[1] = <<"salt", 1>> /\ Salt[2] = <<"salt", 2>>
        BY DEF Salt
    <2>3. ~Announces(<<"salt", 1>>) /\ ~Announces(<<"salt", 2>>) /\ <<"salt", 1>> # Bad /\ <<"salt", 2>> # Bad
        BY DEF Announces, Bad
    <2>4. \A i \in 1..Len(Salt) : i = 1 \/ i = 2
        BY SaltLength
    <2> QED
        BY <2>1, <2>2, <2>3, <2>4 DEF Silent
<1>3. ASSUME NEW a, NEW b, Silent(a), Silent(b) PROVE Silent(a \o b)
    <2>1. a \in Seq(Tokens) /\ b \in Seq(Tokens)
        BY <1>3 DEF Silent
    <2>2. ASSUME NEW i \in 1..Len(a \o b) PROVE ~Announces((a \o b)[i]) /\ (a \o b)[i] # Bad
        <3>1. CASE i <= Len(a)
            BY <1>3, <2>1, <3>1 DEF Silent
        <3>2. CASE i > Len(a)
            <4> DEFINE j == i - Len(a)
            <4>1. j \in 1..Len(b) /\ (a \o b)[i] = b[j]
                BY <2>1, <3>2
            <4> HIDE DEF j
            <4> QED
                BY <1>3, <4>1 DEF Silent
        <3> QED
            BY <2>1, <3>1, <3>2
    <2> QED
        BY <2>1, <2>2 DEF Silent
<1>4. ASSUME NEW p \in Seq(Nat) PROVE Silent(Body(p)) /\ Len(Body(p)) = Len(p)
    <2>1. DOMAIN p = 1..Len(p) /\ \A i \in 1..Len(p) : p[i] \in Nat
        OBVIOUS
    <2>2. \A i \in 1..Len(p) : Data(p[i]) \in Tokens /\ ~Announces(Data(p[i])) /\ Data(p[i]) # Bad
        BY <2>1, TokenFacts
    <2>3. Body(p) = [i \in 1..Len(p) |-> Data(p[i])]
        BY <2>1 DEF Body
    <2>4. Body(p) \in Seq(Tokens) /\ Len(Body(p)) = Len(p)
        BY <2>2, <2>3
    <2> QED
        BY <2>2, <2>3, <2>4 DEF Silent
<1> QED
    BY <1>1, <1>2, <1>3, <1>4

\* A packet of a chunked cipher, with its greeting, and one of a stream cipher,
\* behind everything that was assembled before.
LEMMA ChunkPlaces ==
    ASSUME NEW c, NEW p, NEW l \in Nat, NEW n \in Nat, Len(p) = l + n + 2,
           Announces(p[l + 1]), p[l + 1] # Bad, p[l + 1][2] = n,
           \A i \in 1..Len(p) : i # l + 1 => ~Announces(p[i]) /\ p[i] # Bad,
           NEW m \in Nat, NEW E \in SUBSET Nat, \A e \in E : e <= m, NEW d,
           (m = 0 /\ l + 1 = LeadOf(c)) \/ (m >= LeadOf(c) /\ l = 0)
    PROVE  Layout(c, p, m, E \cup {m + Len(p)}, d)
<1> SUFFICES ASSUME NEW i \in 1..(l + n + 2) PROVE TokenOK(c, p[i], m + i, E \cup {m + l + n + 2}, d)
    <2>1. m + Len(p) = m + l + n + 2
        OBVIOUS
    <2> QED
        BY <2>1 DEF Layout
<1>0. LeadOf(c) \in 2..4
    BY LeadBounds
<1>1. CASE i = l + 1
    <2>1. m + i + n + 1 = m + l + n + 2
        BY <1>1
    <2> QED
        BY <1>1, <2>1 DEF TokenOK
<1>2. CASE i # l + 1
    <2>1. m + i # LeadOf(c)
        BY <1>0, <1>2
    <2>2. m + i - 1 # m + l + n + 2
        OBVIOUS
    <2>3. m + i > 1 => m + i - 1 > m
        BY <1>0, <1>2
    <2>4. m + i > 1 => m + i - 1 \notin E
        BY <2>3
    <2> QED
        BY <1>2, <2>1, <2>2, <2>4 DEF TokenOK
<1> QED
    BY <1>1, <1>2

LEMMA AroundOne ==
    ASSUME NEW g \in Seq(Tokens), NEW t \in Tokens, NEW b \in Seq(Tokens)
    PROVE  g \o <<t>> \o b \in Seq(Tokens) /\ Len(g \o <<t>> \o b) = Len(g) + 1 + Len(b)
OBVIOUS

LEMMA ChunkLayout ==
    ASSUME NEW c, NEW g, NEW t, NEW b, Silent(g), Silent(b), t \in Tokens, Announces(t), t # Bad,
           NEW n \in Nat, t[2] = n, Len(b) = n + 1,
           NEW m \in Nat, NEW E \in SUBSET Nat, \A e \in E : e <= m, NEW d,
           (m = 0 /\ Len(g) + 1 = LeadOf(c)) \/ (m >= LeadOf(c) /\ g = <<>>),
           NEW p, p = g \o <<t>> \o b
    PROVE  /\ p \in Seq(Tokens) /\ m + Len(p) >= LeadOf(c)
           /\ Layout(c, p, m, E \cup {m + Len(p)}, d)
<1>0. /\ g \in Seq(Tokens) /\ b \in Seq(Tokens) /\ Len(g) \in Nat /\ Len(b) \in Nat
    BY DEF Silent
<1>1. p \in Seq(Tokens) /\ Len(p) = Len(g) + n + 2
    <2>1. p \in Seq(Tokens) /\ Len(p) = Len(g) + 1 + Len(b)
        BY <1>0, AroundOne, Zenon
    <2>2. Len(g) + 1 + Len(b) = Len(g) + n + 2
        BY <1>0
    <2> QED
        BY <2>1, <2>2
<1>2. p[Len(g) + 1] = t
    BY <1>0
<1>3. ASSUME NEW i \in 1..Len(p), i # Len(g) + 1 PROVE ~Announces(p[i]) /\ p[i] # Bad
    <2>1. CASE i <= Len(g)
        <3>1. p[i] = g[i]
            BY <1>0, <2>1
        <3> QED
            BY <3>1, <2>1, <1>0 DEF Silent
    <2>2. CASE i > Len(g) + 1
        <3> DEFINE j == i - (Len(g) + 1)
        <3>1. j \in 1..Len(b) /\ p[i] = b[j]
            BY <1>0, <1>1, <2>2
        <3> HIDE DEF j
        <3> QED
            BY <3>1 DEF Silent
    <2> QED
        BY <1>0, <1>1, <1>3, <2>1, <2>2
<1>4. (m = 0 /\ Len(g) + 1 = LeadOf(c)) \/ (m >= LeadOf(c) /\ Len(g) = 0)
    OBVIOUS
<1>5. Layout(c, p, m, E \cup {m + Len(p)}, d)
    BY <1>0, <1>1, <1>2, <1>3, <1>4, ChunkPlaces, Zenon
<1>6. m + Len(p) >= LeadOf(c)
    <2>1. LeadOf(c) \in 2..4
        BY LeadBounds
    <2> QED
        BY <1>0, <1>1, <1>4, <2>1
<1> QED
    BY <1>1, <1>5, <1>6

LEMMA SilentLayout ==
    ASSUME NEW c, c.method \notin {"aead", "aead2022"}, NEW s, Silent(s), NEW m, NEW E, NEW d
    PROVE  Layout(c, s, m, E, d)
BY DEF Silent, Layout, TokenOK

\* Every packet poll_write_encrypted assembles is laid out so, salted or not.
LEMMA PacketLayout ==
    ASSUME conn \in Connections, conn.method # "none", writer.greeted \in BOOLEAN, NEW payload \in Seq(Nat),
           NEW m \in Nat, NEW E \in SUBSET Nat, \A e \in E : e <= m, NEW d,
           writer.greeted => m >= LeadOf(conn), ~writer.greeted => m = 0,
           NEW p, p = Packet(payload)
    PROVE  /\ p \in Seq(Tokens) /\ m + Len(p) >= LeadOf(conn)
           /\ Layout(conn, p, m, E \cup {m + Len(p)}, d)
<1> DEFINE n == Len(payload)
           b == Body(payload) \o <<Tag>>
<1>0. n \in Nat /\ LeadOf(conn) \in 2..4
    BY LeadBounds
<1>1. /\ Silent(Body(payload)) /\ Len(Body(payload)) = n /\ Body(payload) \in Seq(Tokens) /\ <<Tag>> \in Seq(Tokens)
      /\ Silent(b)
    BY SilentParts DEF Silent
<1>2. Len(b) = n + 1 /\ b \in Seq(Tokens)
    BY <1>1
<1>3. Silent(Salt) /\ Silent(<<>>) /\ Len(Salt) = 2
    BY SilentParts, SaltLength
<1>4. CASE conn.method = "stream"
    <2> DEFINE g == IF writer.greeted THEN <<>> ELSE Salt
    <2>1. p = g \o Body(payload) /\ LeadOf(conn) = 2
        BY <1>4 DEF Packet, StreamPacket, LeadOf
    <2>2. Silent(g) /\ g \in Seq(Tokens)
        BY <1>3 DEF Silent
    <2>3. Silent(p)
        BY <1>1, <2>1, <2>2, SilentParts
    <2>6. g = <<>> \/ Len(g) = 2
        BY <1>3
    <2>7. ~writer.greeted => Len(g) = 2
        BY <1>3
    <2> HIDE DEF g
    <2>4. p \in Seq(Tokens) /\ Len(p) = Len(g) + n
        <3> HIDE DEF n
        <3> QED
            BY <1>1, <2>1, <2>2, ConcatProperties, Zenon
    <2>5. m + Len(p) >= 2
        <3>1. CASE writer.greeted
            BY <2>1, <2>4, <3>1
        <3>2. CASE ~writer.greeted
            <4>1. m = 0 /\ Len(g) = 2
                BY <2>7, <3>2, Zenon
            <4> HIDE DEF n
            <4> QED
                BY <1>0, <2>4, <4>1
        <3> QED
            BY <3>1, <3>2
    <2> QED
        BY <1>4, <2>1, <2>3, <2>4, <2>5, SilentLayout
<1>5. ASSUME NEW g, Silent(g), NEW t \in Tokens, Announces(t), t # Bad, t[2] = n, p = g \o <<t>> \o b,
             (m = 0 /\ Len(g) + 1 = LeadOf(conn)) \/ (m >= LeadOf(conn) /\ g = <<>>)
      PROVE  /\ p \in Seq(Tokens) /\ m + Len(p) >= LeadOf(conn)
             /\ Layout(conn, p, m, E \cup {m + Len(p)}, d)
    <2>1. n \in Nat /\ Silent(b) /\ Len(b) = n + 1
        BY <1>0, <1>1, <1>2
    <2> HIDE DEF n, b
    <2>2. PICK c : c = conn
        OBVIOUS
    <2>3. (m = 0 /\ Len(g) + 1 = LeadOf(c)) \/ (m >= LeadOf(c) /\ g = <<>>)
        BY <1>5, <2>2, Zenon
    <2>4. /\ g \o <<t>> \o b \in Seq(Tokens) /\ m + Len(g \o <<t>> \o b) >= LeadOf(c)
          /\ Layout(c, g \o <<t>> \o b, m, E \cup {m + Len(g \o <<t>> \o b)}, d)
        BY <1>5, <2>1, <2>3, ChunkLayout
    <2> QED
        BY <1>5, <2>2, <2>4, Zenon
<1>6. ASSUME NEW g \in Seq(Tokens), NEW t \in Tokens
      PROVE  g \o <<t>> \o Body(payload) \o <<Tag>> = g \o <<t>> \o b
    <2>1. g \o <<t>> \in Seq(Tokens)
        OBVIOUS
    <2> QED
        BY <1>1, <2>1, ConcatAssociative
<1>7. /\ Length(n) \in Tokens /\ Announces(Length(n)) /\ Length(n)[2] = n /\ Length(n) # Bad
      /\ Header(n) \in Tokens /\ Announces(Header(n)) /\ Header(n)[2] = n /\ Header(n) # Bad
    BY <1>0, TokenFacts
<1>8. CASE conn.method = "aead"
    <2> DEFINE g == IF writer.greeted THEN <<>> ELSE Salt
    <2>1. Silent(g) /\ g \in Seq(Tokens)
        BY <1>3 DEF Silent
    <2>2. p = g \o <<Length(n)>> \o Body(payload) \o <<Tag>>
        BY <1>8 DEF Packet, AeadPacket
    <2>3. p = g \o <<Length(n)>> \o b
        BY <1>6, <1>7, <2>1, <2>2, Zenon
    <2>4. (m = 0 /\ Len(g) + 1 = LeadOf(conn)) \/ (m >= LeadOf(conn) /\ g = <<>>)
        <3>1. LeadOf(conn) = 3
            BY <1>8 DEF LeadOf
        <3>2. writer.greeted => g = <<>>
            OBVIOUS
        <3>3. ~writer.greeted => Len(g) = 2
            BY <1>3
        <3> HIDE DEF g, n, b
        <3>4. Len(g) = 2 => Len(g) + 1 = 3
            OBVIOUS
        <3> QED
            BY <3>1, <3>2, <3>3, <3>4, Zenon
    <2> HIDE DEF g, b, n
    <2> QED
        BY <1>5, <1>7, <2>1, <2>3, <2>4
<1>9. CASE conn.method = "aead2022"
    <2>1. CASE writer.greeted
        <3>1. p = <<Length(n)>> \o Body(payload) \o <<Tag>>
            BY <1>9, <2>1 DEF Packet, Aead2022Packet
        <3>2. <<>> \o <<Length(n)>> = <<Length(n)>> /\ <<>> \in Seq(Tokens)
            BY <1>7
        <3>3. p = <<>> \o <<Length(n)>> \o b
            BY <1>6, <1>7, <3>1, <3>2, Zenon
        <3> HIDE DEF b, n
        <3> QED
            BY <1>3, <1>5, <1>7, <2>1, <3>3
    <2>2. CASE ~writer.greeted
        <3> DEFINE g == Salt \o Identity
        <3>1. Silent(Identity) /\ Len(Identity) = IF conn.eih THEN 1 ELSE 0
            BY SilentParts DEF Identity
        <3>2. Silent(g) /\ g \in Seq(Tokens) /\ Len(g) = 2 + Len(Identity)
            <4>1. Silent(g)
                BY <1>3, <3>1, SilentParts
            <4>2. Salt \in Seq(Tokens) /\ Identity \in Seq(Tokens)
                BY <1>3, <3>1 DEF Silent
            <4>3. g \in Seq(Tokens) /\ Len(g) = Len(Salt) + Len(Identity)
                BY <4>2, ConcatProperties, Zenon
            <4> QED
                BY <1>3, <4>1, <4>3, Zenon
        <3>3. p = g \o <<Header(n)>> \o Body(payload) \o <<Tag>>
            BY <1>9, <2>2 DEF Packet, Aead2022Packet
        <3>4. p = g \o <<Header(n)>> \o b
            BY <1>6, <1>7, <3>2, <3>3, Zenon
        <3>5. m = 0 /\ Len(g) + 1 = LeadOf(conn)
            BY <1>9, <2>2, <3>1, <3>2 DEF LeadOf
        <3> HIDE DEF g, b, n
        <3> QED
            BY <1>5, <1>7, <3>2, <3>4, <3>5
    <2> QED
        BY <2>1, <2>2
<1> QED
    BY <1>4, <1>8, <1>9, MethodsAssumption DEF Connections

LEMMA CausesStarts == CipherInit => CausesInv
<1> SUFFICES ASSUME CipherInit PROVE CausesInv
    OBVIOUS
<1> USE DEF CipherInit
<1>1. reader.buf = <<>> /\ reader.key /\ IsReader(reader)
    BY DEF IsReader, ReaderFields, NewReader, NewStreamReader, NewAeadReader, New2022Reader
<1>2. /\ conn.method \in {"stream", "aead"} => reader.state = "WaitSalt"
      /\ conn.method = "aead2022" => reader.state = "ReadHeader"
      /\ conn.method = "none" => reader.state = "Read"
    BY DEF NewReader, NewStreamReader, NewAeadReader, New2022Reader
<1>3. conn \in Connections /\ conn.method \in {"none", "stream", "aead", "aead2022"}
    BY MethodsAssumption DEF Connections
<1>4. <<>> \in Seq(Tokens) /\ Len(<<>>) = 0
    OBVIOUS
<1>5. copy \in Copies /\ writer \in Writers /\ wire \in Wires
    <2>1. writer.state \in {"First", "Assemble", "Writing", "Closed"} /\ FromClient \in BOOLEAN
        BY DEF FromClient
    <2> QED
        BY <1>4, <2>1 DEF Copies, Writers, Wires
<1>6. CipherTypes
    BY <1>1, <1>2, <1>3, <1>5 DEF CipherTypes
<1>7. CopyInOrder
    BY SizesAssumption DEF CopyInOrder
<1>8. /\ writer.state # "Writing" /\ writer.buf = <<>> /\ writer.ends = {0} /\ ~writer.greeted
      /\ wire.q = <<>> /\ wire.read = 0 /\ wire.state = "open"
    BY DEF FromClient
<1> HIDE DEF CipherInit
<1>9. WriterInOrder /\ WireInOrder
    <2>1. Assembled = 0
        BY <1>4, <1>8 DEF Assembled
    <2>2. Layout(conn, writer.buf, wire.read + Len(wire.q), writer.ends, wire.damaged)
        BY <1>8, LayoutEmpty
    <2>3. Layout(conn, wire.q, wire.read, writer.ends, wire.damaged)
        BY <1>8, LayoutEmpty
    <2> QED
        BY <1>8, <2>1, <2>2, <2>3 DEF WriterInOrder, WireInOrder, PacketsInOrder
<1>10. ReaderInOrder
    <2>1. Held
        <3>1. Layout(conn, reader.buf, UnitStart, writer.ends, wire.damaged)
            BY <1>1, LayoutEmpty, Zenon
        <3> QED
            BY <1>1, <1>4, <1>8, <3>1 DEF Held
    <2>2. UnitStart = 0
        <3>1. Len(reader.buf) = 0
            BY <1>1
        <3> QED
            BY <1>8, <3>1 DEF UnitStart
    <2>3. AtItsPlace
        BY <1>1, <1>2, <1>3, <1>4, <1>8, <2>2 DEF AtItsPlace, Is2022, Chunked
    <2> QED
        BY <1>1, <2>1, <2>3 DEF ReaderInOrder
<1>11. Caused
    BY DEF Caused, CipherInit
<1> QED
    BY <1>6, <1>7, <1>9, <1>10, <1>11 DEF CausesInv

LEMMA RefusedSame == UNCHANGED conn => (Refused' <=> Refused) /\ (Chunked' <=> Chunked) /\ (Is2022' <=> Is2022)
BY DEF Refused, Rejected, FromClient, Is2022, Chunked

\* The receiving side, while the other adds packets behind what it has read.
LEMMA ReaderFrame ==
    ASSUME CausesInv, UNCHANGED <<conn, reader, end>>, wire'.read = wire.read, wire'.damaged = wire.damaged,
           \/ writer'.ends = writer.ends
           \/ \E e \in Nat : (conn.method # "none" => e >= wire.read) /\ writer'.ends = writer.ends \cup {e}
    PROVE  ReaderInOrder'
<1> SUFFICES ASSUME end = "running" PROVE (Held /\ AtItsPlace /\ (~reader.key => wire.damaged))'
    BY DEF ReaderInOrder
<1>0. Held /\ AtItsPlace /\ (~reader.key => wire.damaged) /\ wire.read \in Nat /\ writer.ends \in SUBSET Nat
    BY DEF CausesInv, ReaderInOrder, CipherTypes, Wires, Writers
<1>1. UnitStart' = UnitStart /\ writer.ends \subseteq writer'.ends
    BY DEF UnitStart
<1>2. Held'
    <2> SUFFICES ASSUME reader.state # "BufferedData", conn.method # "none"
                 PROVE  Layout(conn, reader.buf, UnitStart, writer'.ends, wire.damaged)
        BY <1>0, <1>1 DEF Held
    <2>1. /\ reader.buf \in Seq(Tokens) /\ Len(reader.buf) <= wire.read
          /\ Layout(conn, reader.buf, UnitStart, writer.ends, wire.damaged)
        BY <1>0 DEF Held
    <2>2. UnitStart \in Nat /\ UnitStart + Len(reader.buf) = wire.read
        BY <1>0, <2>1 DEF UnitStart
    <2>3. CASE writer'.ends = writer.ends
        BY <2>1, <2>3
    <2>4. ASSUME NEW e \in Nat, e >= wire.read, writer'.ends = writer.ends \cup {e}
          PROVE  Layout(conn, reader.buf, UnitStart, writer'.ends, wire.damaged)
        BY <1>0, <2>1, <2>2, <2>4, LayoutGrows
    <2> QED
        BY <2>3, <2>4
<1>3. AtItsPlace'
    BY <1>0, <1>1, RefusedSame DEF AtItsPlace
<1> QED
    BY <1>0, <1>2, <1>3

\* What the sending side does between two packets.
LEMMA BetweenPackets ==
    ASSUME CausesInv, UNCHANGED <<conn, reader, end, filter>>,
           copy' \in Copies, copy'.pos <= copy'.cap, copy'.cap <= MaxBytes,
           writer' \in Writers, writer.buf = <<>>, writer'.buf = <<>>, writer'.state # "Writing",
           writer'.greeted = writer.greeted, writer'.ends = writer.ends,
           wire' \in Wires, wire'.q = wire.q, wire'.read = wire.read, wire'.damaged = wire.damaged,
           wire'.state = wire.state \/ (wire.state = "open" /\ wire'.state = "fin"),
           wire'.state = "fin" => writer'.state = "Closed"
    PROVE  CausesInv'
<1>1. CipherTypes'
    BY DEF CausesInv, CipherTypes
<1>2. CopyInOrder'
    BY DEF CopyInOrder
<1>3. WireInOrder'
    BY DEF CausesInv, WireInOrder
<1>4. WriterInOrder'
    <2>1. Assembled' = Assembled /\ (wire'.state # "cut" => wire.state # "cut")
        BY DEF Assembled
    <2>2. PacketsInOrder => PacketsInOrder'
        BY <2>1 DEF PacketsInOrder
    <2> QED
        BY <2>1, <2>2 DEF CausesInv, WriterInOrder
<1>5. ReaderInOrder'
    BY ReaderFrame
<1>6. Caused'
    BY RefusedSame DEF CausesInv, Caused
<1> QED
    BY <1>1, <1>2, <1>3, <1>4, <1>5, <1>6 DEF CausesInv

LEMMA SendsBetween == CausesInv /\ (FirstRead \/ CopyRead \/ Shutdown) => CausesInv'
<1> SUFFICES ASSUME CausesInv, FirstRead \/ CopyRead \/ Shutdown PROVE CausesInv'
    OBVIOUS
<1>0. /\ copy \in Copies /\ copy.pos <= copy.cap /\ copy.cap <= MaxBytes /\ writer \in Writers /\ wire \in Wires
      /\ writer.state # "Writing" => writer.buf = <<>>
      /\ wire.state = "fin" => writer.state = "Closed"
    BY DEF CausesInv, CipherTypes, CopyInOrder, WriterInOrder
<1>1. CASE FirstRead
    <2>0. writer.state = "First" /\ UNCHANGED <<conn, reader, end, filter>> /\ writer.buf = <<>>
        BY <1>0, <1>1 DEF FirstRead
    <2>1. ASSUME NEW n \in 0..FirstMax, copy.cap = 0, n <= MaxBytes, copy' = [copy EXCEPT !.cap = n],
                 writer' = [writer EXCEPT !.state = "Assemble"], UNCHANGED wire
          PROVE  CausesInv'
        <3>1. copy' \in Copies /\ copy'.pos <= copy'.cap /\ copy'.cap <= MaxBytes
            BY <1>0, <2>1, SizesAssumption DEF Copies
        <3>2. /\ writer' \in Writers /\ writer'.buf = <<>> /\ writer'.state = "Assemble"
              /\ writer'.greeted = writer.greeted /\ writer'.ends = writer.ends
            BY <1>0, <2>0, <2>1 DEF Writers
        <3>3. wire.state # "fin"
            BY <1>0, <2>0
        <3> QED
            BY <1>0, <2>0, <2>1, <3>1, <3>2, <3>3, BetweenPackets
    <2>2. ASSUME copy' = [copy EXCEPT !.readDone = TRUE], writer' = [writer EXCEPT !.state = "Closed"],
                 wire' = [wire EXCEPT !.state = IF @ = "open" THEN "fin" ELSE @]
          PROVE  CausesInv'
        <3>1. copy' \in Copies /\ copy'.pos <= copy'.cap /\ copy'.cap <= MaxBytes
            BY <1>0, <2>2 DEF Copies
        <3>2. /\ writer' \in Writers /\ writer'.buf = <<>> /\ writer'.state = "Closed"
              /\ writer'.greeted = writer.greeted /\ writer'.ends = writer.ends
            BY <1>0, <2>0, <2>2 DEF Writers
        <3>3. /\ wire' \in Wires /\ wire'.q = wire.q /\ wire'.read = wire.read /\ wire'.damaged = wire.damaged
              /\ wire'.state = IF wire.state = "open" THEN "fin" ELSE wire.state
            BY <1>0, <2>2 DEF Wires
        <3> QED
            BY <2>0, <3>1, <3>2, <3>3, BetweenPackets
    <2> QED
        BY <1>1, <2>1, <2>2 DEF FirstRead
<1>2. CASE CopyRead
    <2>0. /\ writer.state = "Assemble" /\ UNCHANGED <<conn, writer, wire, reader, end, filter>> /\ writer.buf = <<>>
          /\ wire.state # "fin"
        BY <1>0, <1>2 DEF CopyRead
    <2>1. copy' \in Copies /\ copy'.pos <= copy'.cap /\ copy'.cap <= MaxBytes
        <3>1. ASSUME NEW n \in 1..CopyMax, copy.cap + n <= MaxBytes, copy' = [copy EXCEPT !.cap = @ + n]
              PROVE  copy' \in Copies /\ copy'.pos <= copy'.cap /\ copy'.cap <= MaxBytes
            BY <1>0, <3>1, SizesAssumption DEF Copies
        <3>2. ASSUME copy' = [copy EXCEPT !.readDone = TRUE]
              PROVE  copy' \in Copies /\ copy'.pos <= copy'.cap /\ copy'.cap <= MaxBytes
            BY <1>0, <3>2 DEF Copies
        <3> QED
            BY <1>2, <3>1, <3>2 DEF CopyRead
    <2> QED
        BY <1>0, <2>0, <2>1, BetweenPackets
<1>3. CASE Shutdown
    <2>0. /\ writer.state = "Assemble" /\ UNCHANGED <<conn, copy, reader, end, filter>> /\ writer.buf = <<>>
          /\ writer' = [writer EXCEPT !.state = "Closed"]
          /\ wire' = [wire EXCEPT !.state = IF @ = "open" THEN "fin" ELSE @]
        BY <1>0, <1>3 DEF Shutdown
    <2>2. /\ writer' \in Writers /\ writer'.buf = <<>> /\ writer'.state = "Closed"
          /\ writer'.greeted = writer.greeted /\ writer'.ends = writer.ends
        BY <1>0, <2>0 DEF Writers
    <2>3. /\ wire' \in Wires /\ wire'.q = wire.q /\ wire'.read = wire.read /\ wire'.damaged = wire.damaged
          /\ wire'.state = IF wire.state = "open" THEN "fin" ELSE wire.state
        BY <1>0, <2>0 DEF Wires
    <2> QED
        BY <1>0, <2>0, <2>2, <2>3, BetweenPackets
<1> QED
    BY <1>1, <1>2, <1>3

\* What poll_write is given, and what it takes of it.
LEMMA PendingFacts ==
    ASSUME copy \in Copies, copy.pos <= copy.cap
    PROVE  Pending \in Seq(Nat) /\ Len(Pending) = copy.cap - copy.pos
BY DEF Pending, Copies

LEMMA TakenFacts ==
    ASSUME NEW s \in Seq(Nat)
    PROVE  Taken(s) \in Seq(Nat) /\ Len(Taken(s)) <= Len(s) /\ (~Chunked => Taken(s) = s)
<1> DEFINE n == IF Len(s) < MaxPacket THEN Len(s) ELSE MaxPacket
<1>1. n \in 0..Len(s)
    BY SizesAssumption
<1>2. SubSeq(s, 1, n) \in Seq(Nat) /\ Len(SubSeq(s, 1, n)) = n
    BY <1>1
<1> QED
    BY <1>1, <1>2 DEF Taken

LEMMA FirstPacketFacts ==
    ASSUME NEW s \in Seq(Nat)
    PROVE  FirstPacket(s) \in Seq(Nat)
<1>1. <<Addr>> \in Seq(Nat) /\ <<Pad>> \in Seq(Nat) /\ <<>> \in Seq(Nat)
    BY SizesAssumption DEF Addr, Pad
<1> DEFINE p == IF Is2022 /\ s = <<>> THEN <<Pad>> ELSE <<>>
<1>2. p \in Seq(Nat)
    BY <1>1
<1> HIDE DEF p
<1>3. <<Addr>> \o p \o s \in Seq(Nat)
    BY <1>1, <1>2
<1> QED
    BY <1>3 DEF FirstPacket, p

LEMMA MaxIs ==
    ASSUME NEW S \in SUBSET Nat, NEW m \in S, \A e \in S : e <= m
    PROVE  Max(S) = m
<1>1. \A y \in S : m >= y
    OBVIOUS
<1>2. Max(S) \in S /\ \A y \in S : Max(S) >= y
    BY <1>1 DEF Max
<1>3. Max(S) \in Nat /\ m \in Nat /\ Max(S) <= m /\ Max(S) >= m
    BY <1>2
<1> HIDE DEF Max
<1> QED
    BY <1>3

\* Some or all of a packet goes out, with what is to follow from it.
SendsSome(packet, k) ==
    /\ wire.state = "open" /\ UNCHANGED <<conn, reader, end, filter>>
    /\ wire' = [wire EXCEPT !.q = @ \o SubSeq(packet, 1, k)]
    /\ writer' \in Writers /\ writer'.greeted /\ (writer'.state # "Writing" => writer'.buf = <<>>)
    /\ copy' \in Copies /\ CopyInOrder'
    /\ writer'.ends = writer.ends \/ (\E e \in Nat : /\ conn.method # "none" => e >= wire.read
                                                     /\ writer'.ends = writer.ends \cup {e})
    /\ \E m \in writer'.ends : \A e \in writer'.ends : e <= m

PacketGoesOn(packet, k) ==
    /\ writer'.buf = SubSeq(packet, k + 1, Len(packet))
    /\ Layout(conn, packet, wire.read + Len(wire.q), writer'.ends, wire.damaged)
    /\ Layout(conn, wire.q, wire.read, writer'.ends, wire.damaged)
    /\ wire.read + Len(wire.q) + Len(packet) \in writer'.ends
    /\ \A e \in writer'.ends : e <= wire.read + Len(wire.q) + Len(packet)
    /\ wire.read + Len(wire.q) + Len(packet) >= LeadOf(conn)

LEMMA SomeIsSent ==
    ASSUME CausesInv, NEW packet \in Seq(Tokens), NEW k \in 0..Len(packet), SendsSome(packet, k),
           conn.method # "none" => PacketGoesOn(packet, k)
    PROVE  CausesInv'
<1> DEFINE a == SubSeq(packet, 1, k)
           b == SubSeq(packet, k + 1, Len(packet))
<1>0. /\ wire \in Wires /\ wire.q \in Seq(Tokens) /\ wire.read \in Nat /\ Len(wire.q) \in Nat
      /\ writer.ends \in SUBSET Nat /\ 0 \in writer.ends /\ Len(packet) \in Nat
    BY DEF CausesInv, CipherTypes, Wires, Writers, WriterInOrder
<1>1. a \in Seq(Tokens) /\ Len(a) = k /\ b \in Seq(Tokens) /\ Len(b) = Len(packet) - k
    OBVIOUS
<1> HIDE DEF a, b
<1>2. wire.q \o a \in Seq(Tokens) /\ Len(wire.q \o a) = Len(wire.q) + k
    <2>1. wire.q \in Seq(Tokens)
        BY <1>0
    <2>2. a \in Seq(Tokens) /\ Len(a) = k
        BY <1>1
    <2>3. \A u, v : u \in Seq(Tokens) /\ v \in Seq(Tokens) => u \o v \in Seq(Tokens) /\ Len(u \o v) = Len(u) + Len(v)
        OBVIOUS
    <2> QED
        BY <2>1, <2>2, <2>3, Zenon
<1>3. /\ wire' \in Wires /\ wire'.q = wire.q \o a /\ wire'.read = wire.read /\ wire'.damaged = wire.damaged
      /\ wire'.state = "open"
    BY <1>0, <1>2 DEF SendsSome, Wires, a
<1>4. CipherTypes'
    BY <1>3 DEF CausesInv, CipherTypes, SendsSome
<1>5. ReaderInOrder'
    BY <1>3, ReaderFrame DEF SendsSome
<1>6. Caused'
    <2>1. writer.ends \subseteq writer'.ends
        BY DEF SendsSome
    <2> QED
        BY <1>3, <2>1, RefusedSame DEF CausesInv, Caused, SendsSome
<1>7. ASSUME conn.method # "none" PROVE WireInOrder' /\ PacketsInOrder'
    <2> DEFINE r == wire.read + Len(wire.q)
    <2>1. r \in Nat /\ Layout(conn, packet, r, writer'.ends, wire.damaged)
        BY <1>0, <1>7 DEF PacketGoesOn
    <2>5. writer'.buf = b /\ wire'.read + Len(wire'.q) = r + k /\ Assembled' = r + Len(packet)
        <3>1. writer'.buf = b
            BY <1>7 DEF b, PacketGoesOn
        <3>2. wire'.read + Len(wire'.q) = wire.read + (Len(wire.q) + k)
            BY <1>2, <1>3
        <3>3. Len(writer'.buf) = Len(packet) - k
            BY <1>1, <3>1
        <3>4. Assembled' = wire'.read + Len(wire'.q) + Len(writer'.buf)
            BY DEF Assembled
        <3> QED
            BY <1>0, <3>1, <3>2, <3>3, <3>4
    <2> HIDE DEF r
    <2>2. Layout(conn, a, r, writer'.ends, wire.damaged)
        BY <2>1, LayoutBegins DEF a
    <2>3. Layout(conn, b, r + k, writer'.ends, wire.damaged)
        BY <2>1, LayoutGoesOn DEF b
    <2>4. Layout(conn, wire.q \o a, wire.read, writer'.ends, wire.damaged)
        BY <1>0, <1>1, <1>7, <2>2, LayoutJoins DEF r, PacketGoesOn
    <2>6. WireInOrder'
        BY <1>3, <2>4 DEF WireInOrder, SendsSome
    <2>7. PacketsInOrder'
        <3>1. Layout(conn, writer.buf, wire.read + Len(wire.q), writer.ends, wire.damaged)'
            BY <1>3, <2>3, <2>5 DEF SendsSome
        <3> QED
            BY <1>7, <2>5, <3>1 DEF PacketsInOrder, PacketGoesOn, SendsSome, r
    <2> QED
        BY <2>6, <2>7
<1>8. WireInOrder' /\ (wire'.state # "cut" /\ conn'.method # "none" => PacketsInOrder')
    BY <1>7 DEF WireInOrder, SendsSome
<1>9. WriterInOrder'
    BY <1>0, <1>3, <1>8 DEF WriterInOrder, SendsSome
<1> QED
    BY <1>4, <1>5, <1>6, <1>8, <1>9 DEF CausesInv, SendsSome

\* The packet poll_write works at: the half written one, or a fresh one behind
\* everything; and where packets end with it.
Fresh == writer.state = "Assemble"
NextPayload == Taken(IF writer.first THEN FirstPacket(Pending) ELSE Pending)
NextPacket == IF Fresh THEN Packet(NextPayload) ELSE writer.buf
NextEnds == IF Fresh THEN writer.ends \cup {Max(writer.ends) + Len(NextPacket)} ELSE writer.ends

LEMMA NextPacketFacts ==
    ASSUME CausesInv, wire.state = "open", writer.state \in {"Assemble", "Writing"}
    PROVE  /\ NextPacket \in Seq(Tokens) /\ NextEnds \in SUBSET Nat
           /\ NextEnds = writer.ends \/ (\E e \in Nat : /\ conn.method # "none" => e >= wire.read
                                                        /\ NextEnds = writer.ends \cup {e})
           /\ \E m \in NextEnds : \A e \in NextEnds : e <= m
           /\ conn.method = "none" /\ ~writer.first => Len(NextPacket) = copy.cap - copy.pos
           /\ conn.method # "none" =>
                 /\ Layout(conn, NextPacket, wire.read + Len(wire.q), NextEnds, wire.damaged)
                 /\ Layout(conn, wire.q, wire.read, NextEnds, wire.damaged)
                 /\ wire.read + Len(wire.q) + Len(NextPacket) \in NextEnds
                 /\ \A e \in NextEnds : e <= wire.read + Len(wire.q) + Len(NextPacket)
                 /\ wire.read + Len(wire.q) + Len(NextPacket) >= LeadOf(conn)
<1>0. /\ conn \in Connections /\ copy \in Copies /\ copy.pos <= copy.cap
      /\ wire.q \in Seq(Tokens) /\ wire.read \in Nat /\ Len(wire.q) \in Nat
      /\ writer.ends \in SUBSET Nat /\ writer.buf \in Seq(Tokens) /\ writer.greeted \in BOOLEAN
    BY DEF CausesInv, CipherTypes, CopyInOrder, Wires, Writers
<1>1. Pending \in Seq(Nat) /\ Len(Pending) = copy.cap - copy.pos
    BY <1>0, PendingFacts
<1>2. NextPayload \in Seq(Nat)
    BY <1>1, FirstPacketFacts, TakenFacts DEF NextPayload
<1>3. PICK m \in writer.ends : \A e \in writer.ends : e <= m
    BY DEF CausesInv, WriterInOrder
<1>4. m \in Nat /\ Max(writer.ends) = m
    BY <1>0, <1>3, MaxIs
<1>5. conn.method # "none" => PacketsInOrder /\ WireInOrder /\ Layout(conn, wire.q, wire.read, writer.ends, wire.damaged)
    BY DEF CausesInv, WriterInOrder, WireInOrder
<1>6. CASE ~Fresh
    <2>1. NextPacket = writer.buf /\ NextEnds = writer.ends
        BY <1>6 DEF NextPacket, NextEnds
    <2>2. conn.method = "none" /\ ~writer.first => Len(writer.buf) = copy.cap - copy.pos
        BY <1>6 DEF CausesInv, CopyInOrder, Fresh
    <2>3. writer.greeted
        BY <1>6 DEF CausesInv, WriterInOrder, Fresh
    <2>4. ASSUME conn.method # "none"
          PROVE  /\ Layout(conn, writer.buf, wire.read + Len(wire.q), writer.ends, wire.damaged)
                 /\ Layout(conn, wire.q, wire.read, writer.ends, wire.damaged)
                 /\ wire.read + Len(wire.q) + Len(writer.buf) \in writer.ends
                 /\ \A e \in writer.ends : e <= wire.read + Len(wire.q) + Len(writer.buf)
                 /\ wire.read + Len(wire.q) + Len(writer.buf) >= LeadOf(conn)
        BY <1>5, <2>3, <2>4 DEF PacketsInOrder, Assembled
    <2> QED
        BY <1>0, <1>3, <2>1, <2>2, <2>4
<1>7. CASE Fresh /\ conn.method = "none"
    <2>1. NextPacket = Body(NextPayload)
        BY <1>7 DEF NextPacket, Packet
    <2>2. NextPacket \in Seq(Tokens) /\ Len(NextPacket) = Len(NextPayload) /\ Len(NextPacket) \in Nat
        BY <1>2, <2>1, SilentParts DEF Silent
    <2>3. ~writer.first => NextPayload = Pending
        BY <1>1, <1>7, TakenFacts DEF NextPayload, Chunked
    <2>4. NextEnds = writer.ends \cup {m + Len(NextPacket)} /\ m + Len(NextPacket) \in Nat
        BY <1>4, <1>7, <2>2 DEF NextEnds
    <2>5. \A e \in NextEnds : e <= m + Len(NextPacket)
        BY <1>0, <1>3, <1>4, <2>2, <2>4
    <2> QED
        BY <1>0, <1>1, <1>7, <2>2, <2>3, <2>4, <2>5
<1>8. CASE Fresh /\ conn.method # "none"
    <2>1. NextPacket = Packet(NextPayload)
        BY <1>8 DEF NextPacket
    <2>2. writer.buf = <<>> /\ PacketsInOrder
        BY <1>5, <1>8 DEF CausesInv, WriterInOrder, Fresh
    <2>3. m = wire.read + Len(wire.q)
        <3>1. Assembled = wire.read + Len(wire.q)
            BY <1>0, <2>2 DEF Assembled
        <3>2. Assembled \in writer.ends /\ \A e \in writer.ends : e <= Assembled
            BY <2>2 DEF PacketsInOrder
        <3> QED
            BY <1>0, <1>3, <1>4, <3>1, <3>2
    <2>4. IF writer.greeted THEN m >= LeadOf(conn) ELSE m = 0
        <3>1. Assembled = m
            BY <1>0, <2>2, <2>3 DEF Assembled
        <3> QED
            BY <1>3, <2>2, <3>1 DEF PacketsInOrder
    <2>5. /\ NextPacket \in Seq(Tokens) /\ m + Len(NextPacket) >= LeadOf(conn)
          /\ Layout(conn, NextPacket, m, writer.ends \cup {m + Len(NextPacket)}, wire.damaged)
        BY <1>0, <1>2, <1>3, <1>4, <1>8, <2>1, <2>4, PacketLayout
    <2>6. NextEnds = writer.ends \cup {m + Len(NextPacket)} /\ m + Len(NextPacket) \in Nat /\ Len(NextPacket) \in Nat
        BY <1>4, <1>8, <2>5 DEF NextEnds
    <2>7. Layout(conn, wire.q, wire.read, NextEnds, wire.damaged)
        <3>1. PICK e \in Nat : e = m + Len(NextPacket)
            BY <2>6
        <3>2. e >= wire.read + Len(wire.q) /\ NextEnds = writer.ends \cup {e}
            BY <1>4, <2>3, <2>6, <3>1
        <3>3. Layout(conn, wire.q, wire.read, writer.ends, wire.damaged)
            BY <1>5, <1>8
        <3>4. Layout(conn, wire.q, wire.read, writer.ends \cup {e}, wire.damaged)
            BY <1>0, <3>2, <3>3, LayoutGrows
        <3> QED
            BY <3>2, <3>4, Zenon
    <2>8. \A e \in NextEnds : e <= m + Len(NextPacket)
        BY <1>0, <1>3, <1>4, <2>6
    <2>9. m + Len(NextPacket) >= wire.read
        BY <1>0, <2>3, <2>6
    <2> HIDE DEF NextPacket, NextEnds
    <2> QED
        BY <1>0, <1>8, <2>3, <2>5, <2>6, <2>7, <2>8, <2>9
<1> QED
    BY <1>6, <1>7, <1>8

LEMMA WritesKeep == CausesInv /\ PollWrite => CausesInv'
<1> SUFFICES ASSUME CausesInv, PollWrite PROVE CausesInv'
    OBVIOUS
<1>0. /\ wire.state = "open" /\ writer.state \in {"Assemble", "Writing"} /\ UNCHANGED <<conn, reader, out, end, filter>>
      /\ Fresh \/ writer.state = "Writing"
    BY DEF PollWrite, Fresh
<1>1. PICK k \in 0..Len(NextPacket) :
          /\ k > 0 \/ Fresh
          /\ wire' = [wire EXCEPT !.q = @ \o SubSeq(NextPacket, 1, k)]
          /\ IF k = Len(NextPacket) \/ (conn.method = "none" /\ k > 0)
             THEN /\ writer' = [writer EXCEPT
                                  !.state = "Assemble", !.first = FALSE, !.greeted = TRUE, !.buf = <<>>,
                                  !.ends = IF Fresh THEN @ \cup {Max(@) + Len(NextPacket)} ELSE @]
                  /\ copy' = [copy EXCEPT !.pos = @ + IF conn.method = "none" /\ ~writer.first
                                                      THEN k ELSE Written]
             ELSE /\ writer' = [writer EXCEPT
                                  !.state = "Writing", !.greeted = TRUE,
                                  !.buf = SubSeq(NextPacket, k + 1, Len(NextPacket)),
                                  !.ends = IF Fresh THEN @ \cup {Max(@) + Len(NextPacket)} ELSE @]
                  /\ UNCHANGED copy
    BY Zenon DEF PollWrite, Fresh, NextPayload, NextPacket
<1>2. /\ NextPacket \in Seq(Tokens) /\ NextEnds \in SUBSET Nat
      /\ NextEnds = writer.ends \/ (\E e \in Nat : /\ conn.method # "none" => e >= wire.read
                                                   /\ NextEnds = writer.ends \cup {e})
      /\ \E m \in NextEnds : \A e \in NextEnds : e <= m
      /\ conn.method = "none" /\ ~writer.first => Len(NextPacket) = copy.cap - copy.pos
    BY <1>0, NextPacketFacts
<1>3. conn.method # "none" =>
         /\ Layout(conn, NextPacket, wire.read + Len(wire.q), NextEnds, wire.damaged)
         /\ Layout(conn, wire.q, wire.read, NextEnds, wire.damaged)
         /\ wire.read + Len(wire.q) + Len(NextPacket) \in NextEnds
         /\ \A e \in NextEnds : e <= wire.read + Len(wire.q) + Len(NextPacket)
         /\ wire.read + Len(wire.q) + Len(NextPacket) >= LeadOf(conn)
    BY <1>0, NextPacketFacts
<1>4. copy \in Copies /\ copy.pos <= copy.cap /\ copy.cap <= MaxBytes /\ writer \in Writers /\ conn \in Connections
    BY DEF CausesInv, CipherTypes, CopyInOrder
<1>5. NextEnds = IF Fresh THEN writer.ends \cup {Max(writer.ends) + Len(NextPacket)} ELSE writer.ends
    BY DEF NextEnds
<1> HIDE DEF NextPacket, NextEnds, Fresh
<1> DEFINE rest == SubSeq(NextPacket, k + 1, Len(NextPacket))
<1>6. rest \in Seq(Tokens) /\ (k = Len(NextPacket) => rest = <<>>) /\ Len(rest) = Len(NextPacket) - k
    BY <1>2
<1> HIDE DEF rest
<1>7. CASE k = Len(NextPacket) \/ (conn.method = "none" /\ k > 0)
    <2>1. /\ writer' = [writer EXCEPT !.state = "Assemble", !.first = FALSE, !.greeted = TRUE, !.buf = <<>>,
                                      !.ends = IF Fresh THEN @ \cup {Max(@) + Len(NextPacket)} ELSE @]
          /\ copy' = [copy EXCEPT !.pos = @ + IF conn.method = "none" /\ ~writer.first THEN k ELSE Written]
        BY <1>1, <1>7, Zenon
    <2>2. /\ writer' \in Writers /\ writer'.state = "Assemble" /\ writer'.buf = <<>> /\ writer'.greeted
          /\ writer'.ends = NextEnds
        <3>1. writer'.ends = NextEnds
            BY <1>4, <1>5, <2>1 DEF Writers
        <3>2. writer'.greeted /\ writer'.buf = <<>> /\ writer'.state = "Assemble"
            BY <1>4, <2>1 DEF Writers
        <3>3. writer' = [state |-> "Assemble", greeted |-> TRUE, first |-> FALSE, buf |-> <<>>, ends |-> NextEnds]
            BY <1>4, <1>5, <2>1 DEF Writers
        <3>4. writer' \in Writers
            BY <1>2, <3>3 DEF Writers
        <3> QED
            BY <3>1, <3>2, <3>4
    <2>3. Written \in 0..(copy.cap - copy.pos)
        <3>1. Pending \in Seq(Nat) /\ Len(Pending) = copy.cap - copy.pos
            BY <1>4, PendingFacts
        <3>2. Taken(Pending) \in Seq(Nat) /\ Len(Taken(Pending)) <= Len(Pending)
            BY <3>1, TakenFacts
        <3> QED
            BY <3>1, <3>2 DEF Written
    <2>4. (IF conn.method = "none" /\ ~writer.first THEN k ELSE Written) \in 0..(copy.cap - copy.pos)
        BY <1>2, <2>3
    <2>5. copy' \in Copies /\ copy'.pos <= copy'.cap /\ copy'.cap <= MaxBytes
        BY <1>4, <2>1, <2>4 DEF Copies
    <2>6. CopyInOrder'
        BY <2>2, <2>5 DEF CopyInOrder
    <2>7. SendsSome(NextPacket, k)
        BY <1>0, <1>1, <1>2, <2>2, <2>5, <2>6 DEF SendsSome
    <2>8. conn.method # "none" => PacketGoesOn(NextPacket, k)
        BY <1>3, <1>6, <1>7, <2>2 DEF PacketGoesOn, rest
    <2> QED
        BY <1>2, <2>7, <2>8, SomeIsSent
<1>8. CASE ~(k = Len(NextPacket) \/ (conn.method = "none" /\ k > 0))
    <2>1. /\ writer' = [writer EXCEPT !.state = "Writing", !.greeted = TRUE, !.buf = rest,
                                      !.ends = IF Fresh THEN @ \cup {Max(@) + Len(NextPacket)} ELSE @]
          /\ UNCHANGED copy
        BY <1>1, <1>8, Zenon DEF rest
    <2>2. /\ writer' \in Writers /\ writer'.state = "Writing" /\ writer'.buf = rest /\ writer'.greeted
          /\ writer'.ends = NextEnds /\ writer'.first = writer.first
        BY <1>2, <1>4, <1>5, <1>6, <2>1 DEF Writers
    <2>3. CopyInOrder'
        <3>1. conn.method = "none" => k = 0
            BY <1>8
        <3>2. conn.method = "none" /\ ~writer.first => Len(rest) = copy.cap - copy.pos
            BY <1>2, <1>4, <1>6, <3>1 DEF Copies
        <3> QED
            BY <1>0, <1>4, <2>1, <2>2, <3>2 DEF CopyInOrder
    <2>4. SendsSome(NextPacket, k)
        BY <1>0, <1>1, <1>2, <1>4, <2>1, <2>2, <2>3 DEF SendsSome
    <2>5. conn.method # "none" => PacketGoesOn(NextPacket, k)
        BY <1>3, <2>2 DEF PacketGoesOn, rest
    <2> QED
        BY <1>2, <2>4, <2>5, SomeIsSent
<1> QED
    BY <1>7, <1>8

\* The network.
LEMMA CutKeeps == CausesInv /\ Cut => CausesInv'
<1> SUFFICES ASSUME CausesInv, Cut PROVE CausesInv'
    OBVIOUS
<1>0. /\ wire \in Wires /\ wire.q \in Seq(Tokens) /\ wire.read \in Nat
      /\ UNCHANGED <<conn, copy, writer, reader, out, end, filter>>
    BY DEF CausesInv, CipherTypes, Wires, Cut
<1>1. PICK n \in 0..Len(wire.q) : wire' = [wire EXCEPT !.q = SubSeq(@, 1, n), !.state = "cut"]
    BY DEF Cut
<1>2. SubSeq(wire.q, 1, n) \in Seq(Tokens)
    BY <1>0
<1>3. /\ wire' \in Wires /\ wire'.q = SubSeq(wire.q, 1, n) /\ wire'.state = "cut"
      /\ wire'.damaged = wire.damaged /\ wire'.read = wire.read
    BY <1>0, <1>1, <1>2 DEF Wires
<1>4. CipherTypes' /\ CopyInOrder'
    BY <1>0, <1>3 DEF CausesInv, CipherTypes, CopyInOrder
<1>5. WriterInOrder'
    BY <1>0, <1>3 DEF CausesInv, WriterInOrder
<1>6. WireInOrder'
    BY <1>0, <1>3, LayoutBegins DEF CausesInv, WireInOrder
<1>7. ReaderInOrder'
    BY <1>0, <1>3, ReaderFrame
<1>8. Caused'
    BY <1>0, <1>3, RefusedSame DEF CausesInv, Caused
<1> QED
    BY <1>4, <1>5, <1>6, <1>7, <1>8 DEF CausesInv

LEMMA DamageKeeps == CausesInv /\ Damage => CausesInv'
<1> SUFFICES ASSUME CausesInv, Damage PROVE CausesInv'
    OBVIOUS
<1>0. /\ wire \in Wires /\ wire.q \in Seq(Tokens) /\ wire.read \in Nat
      /\ UNCHANGED <<conn, copy, writer, reader, out, end, filter>>
    BY DEF CausesInv, CipherTypes, Wires, Damage
<1>1. PICK i \in DOMAIN wire.q : wire' = [wire EXCEPT !.q[i] = Bad, !.damaged = TRUE]
    BY DEF Damage
<1>2. Bad \in Tokens
    BY TokenFacts
<1>3. DOMAIN wire.q = 1..Len(wire.q)
    BY <1>0
<1>4. /\ [wire.q EXCEPT ![i] = Bad] \in Seq(Tokens) /\ Len([wire.q EXCEPT ![i] = Bad]) = Len(wire.q)
      /\ \A j \in 1..Len(wire.q) : [wire.q EXCEPT ![i] = Bad][j] = IF j = i THEN Bad ELSE wire.q[j]
    BY <1>0, <1>2, <1>3
<1>5. /\ wire' \in Wires /\ wire'.q = [wire.q EXCEPT ![i] = Bad] /\ wire'.state = wire.state
      /\ wire'.damaged = TRUE /\ wire'.read = wire.read
    BY <1>0, <1>1, <1>4 DEF Wires
<1>6. CipherTypes' /\ CopyInOrder'
    BY <1>0, <1>5 DEF CausesInv, CipherTypes, CopyInOrder
<1>7. WriterInOrder'
    <2>1. Len(wire'.q) = Len(wire.q)
        BY <1>4, <1>5
    <2>2. PacketsInOrder => PacketsInOrder'
        BY <1>0, <1>5, <2>1, LayoutDamaged DEF PacketsInOrder, Assembled
    <2> QED
        BY <1>0, <1>5, <2>2 DEF CausesInv, WriterInOrder
<1>8. WireInOrder'
    <2> SUFFICES ASSUME conn.method # "none"
                 PROVE  Layout(conn, [wire.q EXCEPT ![i] = Bad], wire.read, writer.ends, TRUE)
        BY <1>0, <1>5 DEF WireInOrder
    <2>1. Layout(conn, wire.q, wire.read, writer.ends, TRUE)
        BY LayoutDamaged DEF CausesInv, WireInOrder
    <2>2. TokenOK(conn, Bad, wire.read + i, writer.ends, TRUE)
        BY TokenFacts DEF TokenOK
    <2>3. ASSUME NEW j \in 1..Len(wire.q)
          PROVE  TokenOK(conn, [wire.q EXCEPT ![i] = Bad][j], wire.read + j, writer.ends, TRUE)
        BY <1>4, <2>1, <2>2 DEF Layout
    <2> QED
        BY <1>4, <2>3 DEF Layout
<1>9. ReaderInOrder'
    <2>1. UnitStart' = UnitStart
        BY <1>0, <1>5 DEF UnitStart
    <2>2. Held => Held'
        BY <1>0, <1>5, <2>1, LayoutDamaged DEF Held
    <2>3. AtItsPlace => AtItsPlace'
        BY <1>0, <1>5, <2>1, RefusedSame DEF AtItsPlace
    <2> QED
        BY <1>0, <1>5, <2>2, <2>3 DEF CausesInv, ReaderInOrder
<1>10. Caused'
    BY <1>0, <1>5, RefusedSame DEF CausesInv, Caused
<1> QED
    BY <1>6, <1>7, <1>8, <1>9, <1>10 DEF CausesInv

\* How a connection ends: behind a whole chunk, or inside something that was
\* cut off; a sender that closes has sent whole packets, if any.
LEMMA EofKeeps == CausesInv /\ ReadEof => CausesInv'
<1> SUFFICES ASSUME CausesInv, ReadEof PROVE CausesInv'
    OBVIOUS
<1>0. /\ UNCHANGED <<conn, copy, writer, wire, reader, out, filter>> /\ end = "running"
      /\ wire.q = <<>> /\ wire.state # "open" /\ reader.state # "BufferedData"
      /\ end' = IF reader.buf = <<>> /\ reader.state \in {"ReadHeader", "ReadLength", "Read"}
                THEN "eof" ELSE "error"
    BY DEF ReadEof
<1>1. CipherTypes' /\ CopyInOrder' /\ WireInOrder'
    BY <1>0 DEF CausesInv, CipherTypes, CopyInOrder, WireInOrder
<1>2. WriterInOrder'
    BY <1>0 DEF CausesInv, WriterInOrder, PacketsInOrder, Assembled
<1>3. ReaderInOrder'
    BY <1>0 DEF ReaderInOrder
<1>4. Held /\ AtItsPlace /\ wire \in Wires /\ 0 \in writer.ends /\ writer.ends \in SUBSET Nat
    BY <1>0 DEF CausesInv, ReaderInOrder, CipherTypes, WriterInOrder, Writers
<1>5. ASSUME end' = "eof", Chunked PROVE wire.read \in writer.ends \cup {2}
    BY <1>0, <1>4, <1>5 DEF AtItsPlace
<1>6. ASSUME end' = "error", wire.state # "cut" PROVE writer.ends = {0}
    <2>1. ~(reader.buf = <<>> /\ reader.state \in {"ReadHeader", "ReadLength", "Read"})
        BY <1>0, <1>6
    <2>2. reader.state \in {"WaitSalt", "ReadData"} /\ conn.method # "none"
        BY <1>0, <1>4, <2>1 DEF CausesInv, CipherTypes, AtItsPlace, Chunked
    <2>3. writer.buf = <<>> /\ PacketsInOrder
        BY <1>0, <1>4, <1>6, <2>2 DEF CausesInv, WriterInOrder, Wires
    <2>4. wire.read \in Nat /\ Assembled = wire.read
        <3>1. Len(wire.q) = 0 /\ Len(writer.buf) = 0
            BY <1>0, <2>3
        <3> QED
            BY <1>4, <3>1 DEF Assembled, Wires
    <2>5. reader.buf \in Seq(Tokens) /\ Len(reader.buf) \in Nat /\ UnitStart + Len(reader.buf) = wire.read
        BY <1>0, <1>4, <2>4 DEF Held, UnitStart
    <2>6. CASE reader.state = "ReadData"
        <3>1. /\ reader.plen \in Nat /\ Len(reader.buf) < reader.plen + 1
              /\ UnitStart + reader.plen + 1 \in writer.ends
            BY <1>4, <2>6 DEF AtItsPlace
        <3>2. UnitStart + reader.plen + 1 <= wire.read
            BY <2>3, <2>4, <3>1 DEF PacketsInOrder
        <3>3. UnitStart \in Int
            BY <2>4, <2>5 DEF UnitStart
        <3> QED
            BY <2>4, <2>5, <3>1, <3>2, <3>3
    <2>7. CASE reader.state = "WaitSalt"
        <3>1. wire.read < 2
            BY <1>4, <2>4, <2>5, <2>7 DEF AtItsPlace
        <3> QED
            BY <2>3, <2>4, <3>1, LeadBounds DEF PacketsInOrder
    <2> QED
        BY <2>2, <2>6, <2>7
<1>7. Caused'
    BY <1>0, <1>5, <1>6, RefusedSame DEF Caused
<1> QED
    BY <1>1, <1>2, <1>3, <1>7 DEF CausesInv

ReaderStates == {"WaitSalt", "ReadHeader", "ReadLength", "ReadData", "BufferedData", "Read"}

\* Whatever the receiving side does: a reader in its place, or an error with a
\* cause.
LEMMA ReceiverKeeps ==
    ASSUME CausesInv, end = "running", UNCHANGED <<conn, copy, writer>>,
           wire' \in Wires, wire'.state = wire.state, wire'.damaged = wire.damaged, WireInOrder', WriterInOrder',
           IsReader(reader'), reader'.state \in ReaderStates, filter' \in BOOLEAN,
           \/ end' = "running" /\ Held' /\ AtItsPlace' /\ (~reader'.key => wire.damaged)
           \/ end' = "error" /\ (wire.damaged \/ Refused \/ reader'.short)
    PROVE  CausesInv'
<1>1. CipherTypes'
    BY DEF CausesInv, CipherTypes, ReaderStates
<1>2. CopyInOrder'
    BY DEF CausesInv, CopyInOrder
<1>3. ReaderInOrder'
    BY DEF ReaderInOrder
<1>4. Caused'
    BY RefusedSame DEF Caused
<1> QED
    BY <1>1, <1>2, <1>3, <1>4 DEF CausesInv

LEMMA HeldNothing ==
    ASSUME reader'.buf = <<>>, wire' \in Wires
    PROVE  Held'
<1>1. Layout(conn, reader.buf, UnitStart, writer.ends, wire.damaged)'
    BY LayoutEmpty
<1>2. reader'.buf \in Seq(Tokens) /\ Len(reader'.buf) <= wire'.read
    BY DEF Wires
<1> QED
    BY <1>1, <1>2 DEF Held

LEMMA DeliverKeeps == CausesInv /\ Deliver => CausesInv'
<1> SUFFICES ASSUME CausesInv, Deliver PROVE CausesInv'
    OBVIOUS
<1> DEFINE n == IF Len(reader.buf) < SinkMax THEN Len(reader.buf) ELSE SinkMax
           rest == SubSeq(reader.buf, n + 1, Len(reader.buf))
           next == [reader EXCEPT !.buf = rest, !.state = IF rest = <<>> THEN "ReadLength" ELSE @]
<1>0. UNCHANGED <<conn, copy, writer, wire>> /\ end = "running" /\ reader.state = "BufferedData"
    BY Zenon DEF Deliver
<1>1. IF ~conn.matched THEN FailRead(next) ELSE reader' = next /\ UNCHANGED <<end, filter>>
    BY Zenon DEF Deliver
<1>2. /\ AtItsPlace /\ (~reader.key => wire.damaged) /\ IsReader(reader) /\ wire \in Wires
      /\ writer.ends \in SUBSET Nat /\ filter \in BOOLEAN
    BY <1>0 DEF CausesInv, CipherTypes, ReaderInOrder, Writers
<1>3. /\ Chunked /\ reader.buf \in Seq(Nat)
      /\ wire.read > 0 /\ wire.read \in writer.ends
    BY <1>0, <1>2 DEF AtItsPlace
<1>4. rest \in Seq(Nat)
    <2>1. n \in 0..Len(reader.buf)
        BY <1>3, SizesAssumption
    <2> HIDE DEF n
    <2> QED
        BY <1>3, <2>1
<1> HIDE DEF rest
<1>5. /\ IsReader(next) /\ next.buf = rest /\ next.key = reader.key
      /\ next.state = IF rest = <<>> THEN "ReadLength" ELSE "BufferedData"
    BY <1>0, <1>2 DEF IsReader, ReaderFields
<1> HIDE DEF next
<1>6. wire' \in Wires /\ WireInOrder' /\ WriterInOrder'
    BY <1>0 DEF CausesInv, CipherTypes, WireInOrder, WriterInOrder, PacketsInOrder, Assembled
<1>7. CASE ~conn.matched
    <2>1. reader' = next /\ end' = "error" /\ filter' = filter /\ Refused
        BY <1>1, <1>7 DEF FailRead, Refused
    <2> QED
        BY <1>0, <1>2, <1>5, <1>6, <2>1, ReceiverKeeps DEF ReaderStates
<1>8. CASE conn.matched
    <2>1. reader' = next /\ end' = "running" /\ filter' = filter
        BY <1>0, <1>1, <1>8
    <2>2. Held'
        <3>1. CASE rest = <<>>
            BY <1>5, <1>6, <2>1, <3>1, HeldNothing
        <3>2. CASE rest # <<>>
            BY <1>5, <2>1, <3>2 DEF Held
        <3> QED
            BY <3>1, <3>2
    <2>3. AtItsPlace'
        BY <1>0, <1>3, <1>4, <1>5, <2>1, RefusedSame DEF AtItsPlace
    <2> QED
        BY <1>0, <1>2, <1>5, <1>6, <2>1, <2>2, <2>3, ReceiverKeeps DEF ReaderStates
<1> QED
    BY <1>7, <1>8

\* What one poll of the socket has read, from where its unit starts.
UnitRead(buf) ==
    /\ UNCHANGED <<conn, copy, writer>>
    /\ wire' \in Wires /\ wire'.state = wire.state /\ wire'.damaged = wire.damaged
    /\ WireInOrder' /\ WriterInOrder'
    /\ buf \in Seq(Tokens) /\ Len(buf) >= 1
    /\ UnitStart \in Nat /\ wire'.read = UnitStart + Len(buf)
    /\ conn.method # "none" => Layout(conn, buf, UnitStart, writer.ends, wire.damaged)

Polls(k, buf) ==
    /\ k <= Len(wire.q) /\ buf = reader.buf \o SubSeq(wire.q, 1, k)
    /\ wire' = [wire EXCEPT !.q = SubSeq(@, k + 1, Len(@)), !.read = @ + k]

LEMMA ReadSum ==
    ASSUME NEW x \in Nat, NEW l \in Nat, NEW u \in Nat, u + l = x, NEW k \in Nat
    PROVE  x + k = u + (l + k) /\ \A n \in Nat : x + k + (n - k) = x + n
OBVIOUS

LEMMA UnitIsRead ==
    ASSUME CausesInv, end = "running", reader.state # "BufferedData", UNCHANGED <<conn, copy, writer>>,
           NEW k \in Nat, 1 <= k, NEW buf, Polls(k, buf)
    PROVE  UnitRead(buf) /\ Len(buf) = Len(reader.buf) + k
<1> DEFINE a == SubSeq(wire.q, 1, k)
           b == SubSeq(wire.q, k + 1, Len(wire.q))
<1>0. /\ wire \in Wires /\ wire.q \in Seq(Tokens) /\ wire.read \in Nat /\ Len(wire.q) \in Nat /\ k \in 0..Len(wire.q)
      /\ Held
    BY DEF CausesInv, CipherTypes, Wires, ReaderInOrder, Polls
<1>1. /\ reader.buf \in Seq(Tokens) /\ Len(reader.buf) \in Nat /\ Len(reader.buf) <= wire.read
      /\ UnitStart \in Nat /\ UnitStart + Len(reader.buf) = wire.read
    BY <1>0 DEF Held, UnitStart
<1>2. a \in Seq(Tokens) /\ Len(a) = k /\ b \in Seq(Tokens) /\ Len(b) = Len(wire.q) - k
    BY <1>0
<1> HIDE DEF a, b
<1>3. /\ wire' \in Wires /\ wire'.q = b /\ wire'.read = wire.read + k
      /\ wire'.state = wire.state /\ wire'.damaged = wire.damaged
    <2>1. wire' = [wire EXCEPT !.q = b, !.read = wire.read + k]
        BY DEF b, Polls
    <2>2. wire \in Wires /\ b \in Seq(Tokens) /\ wire.read + k \in Nat
        BY <1>0, <1>2
    <2> QED
        BY <2>1, <2>2 DEF Wires
<1>4. buf = reader.buf \o a
    BY DEF a, Polls
<1>5. buf \in Seq(Tokens) /\ Len(buf) = Len(reader.buf) + k
    <2>1. \A u, v : u \in Seq(Tokens) /\ v \in Seq(Tokens) => u \o v \in Seq(Tokens) /\ Len(u \o v) = Len(u) + Len(v)
        OBVIOUS
    <2> QED
        BY <1>1, <1>2, <1>4, <2>1, Zenon
<1>6. Len(buf) >= 1 /\ wire'.read = UnitStart + Len(buf)
    <2>1. wire.read + k = UnitStart + (Len(reader.buf) + k)
        BY <1>0, <1>1, ReadSum
    <2>2. Len(reader.buf) + k >= 1
        BY <1>1
    <2> QED
        BY <1>3, <1>5, <2>1, <2>2, Zenon
<1>7. conn.method # "none" => Layout(conn, buf, UnitStart, writer.ends, wire.damaged) /\ WireInOrder'
    <2> SUFFICES ASSUME conn.method # "none"
                 PROVE  Layout(conn, buf, UnitStart, writer.ends, wire.damaged) /\ WireInOrder'
        OBVIOUS
    <2>1. /\ Layout(conn, wire.q, wire.read, writer.ends, wire.damaged)
          /\ Layout(conn, reader.buf, UnitStart, writer.ends, wire.damaged)
        BY <1>0 DEF CausesInv, WireInOrder, Held
    <2>2. Layout(conn, a, wire.read, writer.ends, wire.damaged)
        BY <1>0, <2>1, LayoutBegins DEF a
    <2>3. Layout(conn, b, wire.read + k, writer.ends, wire.damaged)
        BY <1>0, <2>1, LayoutGoesOn DEF b
    <2>4. Layout(conn, reader.buf \o a, UnitStart, writer.ends, wire.damaged)
        BY <1>1, <1>2, <2>1, <2>2, LayoutJoins
    <2> QED
        BY <1>3, <1>4, <2>3, <2>4 DEF WireInOrder
<1>8. WireInOrder'
    BY <1>7 DEF WireInOrder
<1>9. WriterInOrder'
    <2>1. wire'.read + Len(wire'.q) = wire.read + Len(wire.q)
        <3>1. wire.read + k + (Len(wire.q) - k) = wire.read + Len(wire.q)
            BY <1>0, <1>1, ReadSum
        <3> QED
            BY <1>2, <1>3, <3>1, Zenon
    <2>2. Assembled' = Assembled
        BY <2>1 DEF Assembled
    <2>3. PacketsInOrder => PacketsInOrder'
        BY <1>3, <2>1, <2>2 DEF PacketsInOrder
    <2> QED
        BY <1>3, <2>3 DEF CausesInv, WriterInOrder
<1> QED
    BY <1>1, <1>3, <1>5, <1>6, <1>7, <1>8, <1>9 DEF UnitRead

\* A reader whose unit is complete goes on to the next with nothing held.
LEMMA GoesOn ==
    ASSUME CausesInv, end = "running", NEW buf, UnitRead(buf), IsReader(reader'), reader'.buf = <<>>,
           reader'.state \in ReaderStates, filter' \in BOOLEAN, end' = "running",
           AtItsPlace', ~reader'.key => wire.damaged
    PROVE  CausesInv'
<1>1. Held'
    BY HeldNothing DEF UnitRead
<1> QED
    BY <1>1, ReceiverKeeps DEF UnitRead

LEMMA Fails ==
    ASSUME CausesInv, end = "running", NEW buf, UnitRead(buf), NEW r, IsReader(r), r.state \in ReaderStates,
           FailRead(r), wire.damaged \/ Refused \/ r.short
    PROVE  CausesInv'
<1>1. reader' = r /\ end' = "error" /\ filter' = filter
    BY DEF FailRead
<1>2. filter \in BOOLEAN
    BY DEF CausesInv, CipherTypes
<1> QED
    BY <1>1, <1>2, ReceiverKeeps DEF UnitRead

\* What is known while a unit is read, and that what does not decrypt was damaged.
LEMMA WhileReading ==
    ASSUME CausesInv, end = "running", NEW buf, UnitRead(buf)
    PROVE  /\ IsReader(reader) /\ reader.state \in ReaderStates /\ filter \in BOOLEAN /\ conn \in Connections
           /\ Held /\ AtItsPlace /\ writer.ends \in SUBSET Nat /\ wire.read \in Nat /\ wire'.read \in Nat
           /\ buf \in Seq(Tokens) /\ Len(buf) >= 1 /\ UnitStart \in Nat /\ wire'.read = UnitStart + Len(buf)
           /\ ~reader.key => wire.damaged
           /\ conn.method # "none" /\ Bad \in Range(buf) => wire.damaged
           /\ conn.method # "none" /\ ~Intact(buf) => wire.damaged
<1>1. /\ IsReader(reader) /\ reader.state \in ReaderStates /\ filter \in BOOLEAN /\ conn \in Connections
      /\ Held /\ AtItsPlace /\ writer.ends \in SUBSET Nat /\ wire.read \in Nat /\ wire'.read \in Nat
      /\ ~reader.key => wire.damaged
    BY DEF CausesInv, CipherTypes, ReaderInOrder, Wires, Writers, ReaderStates, UnitRead
<1>2. buf \in Seq(Tokens) /\ Len(buf) >= 1 /\ UnitStart \in Nat /\ wire'.read = UnitStart + Len(buf)
    BY DEF UnitRead
<1>3. conn.method # "none" /\ Bad \in Range(buf) => wire.damaged
    BY <1>2, BadMeansDamage DEF UnitRead
<1>4. conn.method # "none" /\ ~Intact(buf) => wire.damaged
    BY <1>1, <1>3, Zenon DEF Intact
<1> QED
    BY <1>1, <1>2, <1>3, <1>4

LEMMA KeepsPartial ==
    ASSUME CausesInv, end = "running", NEW buf, UnitRead(buf), Partial(buf),
           reader' = [reader EXCEPT !.buf = buf], UNCHANGED <<end, filter>>, reader.state # "BufferedData"
    PROVE  CausesInv'
<1>0. /\ IsReader(reader) /\ reader.state \in ReaderStates /\ filter \in BOOLEAN /\ conn \in Connections
      /\ AtItsPlace /\ writer.ends \in SUBSET Nat
      /\ buf \in Seq(Tokens) /\ Len(buf) >= 1 /\ UnitStart \in Nat /\ wire'.read = UnitStart + Len(buf)
      /\ ~reader.key => wire.damaged
    BY WhileReading
<1>1. /\ IsReader(reader') /\ reader'.buf = buf /\ reader'.state = reader.state
      /\ reader'.key = reader.key /\ reader'.plen = reader.plen
    BY <1>0 DEF IsReader, ReaderFields
<1>2. UnitStart' = UnitStart /\ Len(buf) <= wire'.read
    BY <1>0, <1>1 DEF UnitStart
<1>3. Held'
    BY <1>0, <1>1, <1>2 DEF Held, UnitRead
<1>4. Len(buf) < Need /\ reader.state \in {"WaitSalt", "ReadLength", "ReadData"}
    BY <1>0 DEF Partial, ReaderStates
<1>5. UNCHANGED <<conn, writer>>
    BY DEF UnitRead
<1>6. AtItsPlace'
    <2>1. CASE reader.state = "WaitSalt"
        <3>1. conn.method \in {"stream", "aead"} /\ UnitStart = 0
            BY <1>0, <2>1 DEF AtItsPlace
        <3>2. Need = 2
            BY <2>1, <3>1, SaltLength DEF Need, AeadNeed, StreamNeed
        <3> QED
            BY <1>1, <1>2, <1>4, <1>5, <2>1, <3>1, <3>2 DEF AtItsPlace
    <2>2. CASE reader.state = "ReadLength"
        <3>1. Chunked
            BY <1>0, <2>2 DEF AtItsPlace
        <3>2. Need = 1
            BY <2>2, <3>1 DEF Need, AeadNeed, Aead2022Need, Chunked
        <3> QED
            BY <1>0, <1>4, <3>2
    <2>3. CASE reader.state = "ReadData"
        <3>1. Chunked /\ reader.plen \in Nat /\ UnitStart + reader.plen + 1 \in writer.ends
            BY <1>0, <2>3 DEF AtItsPlace
        <3>2. Need = reader.plen + 1
            BY <2>3, <3>1 DEF Need, AeadNeed, Aead2022Need, Chunked
        <3> QED
            BY <1>1, <1>2, <1>4, <1>5, <2>3, <3>1, <3>2, RefusedSame DEF AtItsPlace
    <2> QED
        BY <1>4, <2>1, <2>2, <2>3
<1>7. wire' \in Wires /\ wire'.state = wire.state /\ wire'.damaged = wire.damaged /\ WireInOrder' /\ WriterInOrder'
      /\ UNCHANGED <<conn, copy, writer>>
    BY DEF UnitRead
<1> QED
    BY <1>0, <1>1, <1>3, <1>6, <1>7, ReceiverKeeps

\* Where a length has to stand, an intact token is one.
LEMMA LengthTells ==
    ASSUME NEW c, c.method \in {"aead", "aead2022"}, NEW t \in Tokens, t # Bad, NEW x, NEW E, NEW d,
           TokenOK(c, t, x, E, d), x = LeadOf(c) \/ (x > 1 /\ x - 1 \in E)
    PROVE  t[2] \in Nat /\ x + t[2] + 1 \in E
<1>1. Announces(t)
    BY DEF TokenOK
<1> QED
    BY <1>1 DEF TokenOK, Tokens

LEMMA Intactly ==
    ASSUME NEW s \in Seq(Tokens), Bad \notin Range(s), NEW i \in 1..Len(s)
    PROVE  s[i] \in Tokens /\ s[i] # Bad
BY DEF Range

LEMMA Complete ==
    ASSUME NEW buf, UnitRead(buf), ~Partial(buf), Len(buf) <= Need, NEW n \in Nat, Need = n,
           reader.state \notin {"ReadHeader", "Read"}
    PROVE  Len(buf) = n /\ buf \in Seq(Tokens) /\ wire'.read = UnitStart + n /\ UnitStart \in Nat
<1>1. buf \in Seq(Tokens) /\ wire'.read = UnitStart + Len(buf) /\ UnitStart \in Nat
    BY DEF UnitRead
<1>2. Len(buf) \in Nat
    BY <1>1
<1>3. Len(buf) = n
    BY <1>2 DEF Partial
<1> QED
    BY <1>1, <1>3

\* Each unit a reader completes, with the state it reads it in.
LEMMA KeepsSalt ==
    ASSUME CausesInv, end = "running", NEW buf, UnitRead(buf), ~Partial(buf), Len(buf) <= Need,
           conn.method = "aead", reader.state = "WaitSalt", GotSalt(buf)
    PROVE  CausesInv'
<1> DEFINE r == [reader EXCEPT !.key = Bad \notin Range(buf), !.state = "ReadLength"]
<1>0. /\ IsReader(reader) /\ filter \in BOOLEAN /\ AtItsPlace
      /\ Len(buf) >= 1 /\ buf \in Seq(Tokens) /\ wire'.read = UnitStart + Len(buf)
      /\ Bad \in Range(buf) => wire.damaged
    BY WhileReading
<1>1. IsReader(r) /\ r.state = "ReadLength" /\ r.key = (Bad \notin Range(buf))
    BY <1>0 DEF IsReader, ReaderFields
<1>2. reader' = [r EXCEPT !.buf = <<>>] /\ UNCHANGED <<end, filter>>
    BY DEF GotSalt, Goto
<1> HIDE DEF r
<1>3. IsReader(reader') /\ reader'.state = "ReadLength" /\ reader'.buf = <<>> /\ reader'.key = r.key
    BY <1>1, <1>2 DEF IsReader, ReaderFields
<1>4. ~reader'.key => wire.damaged
    BY <1>0, <1>1, <1>3, Zenon
<1>5. wire'.read = 2
    <2>1. UnitStart = 0
        BY <1>0 DEF AtItsPlace
    <2>2. Need = 2
        BY SaltLength DEF Need, AeadNeed
    <2>3. wire'.read = UnitStart + 2
        BY <2>2, Complete
    <2> QED
        BY <2>1, <2>3
<1>6. AtItsPlace'
    BY <1>3, <1>5 DEF AtItsPlace, Chunked, UnitRead
<1> QED
    BY <1>0, <1>2, <1>3, <1>4, <1>6, GoesOn DEF ReaderStates

LEMMA KeepsLength ==
    ASSUME CausesInv, end = "running", NEW buf, UnitRead(buf), ~Partial(buf), Len(buf) <= Need,
           Chunked, reader.state = "ReadLength", GotLength(buf)
    PROVE  CausesInv'
<1>0. /\ IsReader(reader) /\ filter \in BOOLEAN /\ AtItsPlace /\ wire.read \in Nat /\ conn.method # "none"
      /\ Len(buf) >= 1 /\ buf \in Seq(Tokens) /\ wire'.read = UnitStart + Len(buf)
      /\ ~reader.key => wire.damaged
    BY WhileReading DEF Chunked
<1>1. CASE ~Intact(buf)
    <2>1. wire.damaged
        BY <1>0, <1>1, WhileReading
    <2>2. FailRead(reader)
        BY <1>1 DEF GotLength
    <2> QED
        BY <1>0, <2>1, <2>2, Fails DEF ReaderStates
<1>2. CASE Intact(buf)
    <2> DEFINE r == [reader EXCEPT !.state = "ReadData", !.plen = buf[1][2]]
    <2>1. IsReader(r) /\ r.state = "ReadData" /\ r.key = reader.key /\ r.plen = buf[1][2]
        BY <1>0 DEF IsReader, ReaderFields
    <2>2. reader' = [r EXCEPT !.buf = <<>>] /\ UNCHANGED <<end, filter>>
        BY <1>2 DEF GotLength, Goto
    <2> HIDE DEF r
    <2>3. /\ IsReader(reader') /\ reader'.state = "ReadData" /\ reader'.buf = <<>>
          /\ reader'.key = reader.key /\ reader'.plen = buf[1][2]
        BY <2>1, <2>2 DEF IsReader, ReaderFields
    <2>4. Need = 1 /\ Len(buf) = 1
        <3>1. Need = 1
            BY DEF Need, AeadNeed, Aead2022Need, Chunked
        <3> QED
            BY <3>1, Complete
    <2>5. UnitStart = wire.read /\ wire'.read = wire.read + 1
        <3>1. reader.buf = <<>>
            BY <1>0 DEF AtItsPlace
        <3>2. Len(reader.buf) = 0
            BY <3>1
        <3> QED
            BY <1>0, <2>4, <3>2 DEF UnitStart
    <2>8. wire.read + 1 = LeadOf(conn) \/ (wire.read + 1 > 1 /\ (wire.read + 1) - 1 \in writer.ends)
        <3>1. (conn.method = "aead" /\ wire.read = 2) \/ (wire.read > 0 /\ wire.read \in writer.ends)
            BY <1>0 DEF AtItsPlace
        <3>2. conn.method = "aead" => LeadOf(conn) = 3
            BY DEF LeadOf
        <3>3. (wire.read + 1) - 1 = wire.read
            BY <1>0
        <3> QED
            BY <1>0, <3>1, <3>2, <3>3
    <2>9. buf[1][2] \in Nat /\ wire.read + 1 + buf[1][2] + 1 \in writer.ends
        <3>1. TokenOK(conn, buf[1], wire.read + 1, writer.ends, wire.damaged)
            <4>1. Layout(conn, buf, wire.read, writer.ends, wire.damaged) /\ 1 \in 1..Len(buf)
                BY <1>0, <2>4, <2>5 DEF UnitRead
            <4> QED
                BY <4>1, Zenon DEF Layout
        <3>2. Bad \notin Range(buf) /\ conn.method \in {"aead", "aead2022"}
            BY <1>2, Zenon DEF Intact, Chunked
        <3>3. buf[1] \in Tokens /\ buf[1] # Bad
            <4>1. buf \in Seq(Tokens) /\ 1 \in 1..Len(buf)
                BY <1>0, <2>4
            <4> QED
                BY <3>2, <4>1, Intactly, Zenon
        <3> QED
            <4>1. PICK x, t : x = wire.read + 1 /\ t = buf[1]
                OBVIOUS
            <4>2. TokenOK(conn, t, x, writer.ends, wire.damaged) /\ t \in Tokens /\ t # Bad
                BY <3>1, <3>3, <4>1, Zenon
            <4>3. x = LeadOf(conn) \/ (x > 1 /\ x - 1 \in writer.ends)
                BY <2>8, <4>1, Zenon
            <4>4. t[2] \in Nat /\ x + t[2] + 1 \in writer.ends
                BY <3>2, <4>2, <4>3, LengthTells
            <4> QED
                BY <4>1, <4>4, Zenon
    <2>10. AtItsPlace'
        <3>1. Len(reader'.buf) = 0 /\ UnitStart' = wire.read + 1
            <4>1. Len(reader'.buf) = 0
                BY <2>3
            <4> QED
                BY <1>0, <2>5, <4>1 DEF UnitStart
        <3>2. Chunked' /\ writer' = writer
            BY DEF UnitRead, Chunked
        <3>3. PICK n \in Nat : n = buf[1][2]
            BY <2>9
        <3>4. reader'.plen = n /\ 0 < n + 1 /\ wire.read + 1 + n + 1 \in writer.ends
            BY <2>3, <2>9, <3>3
        <3> QED
            BY <2>3, <3>1, <3>2, <3>4 DEF AtItsPlace
    <2>11. ~reader'.key => wire.damaged
        BY <1>0, <2>3
    <2> QED
        BY <1>0, <2>2, <2>3, <2>10, <2>11, GoesOn DEF ReaderStates
<1> QED
    BY <1>1, <1>2

LEMMA KeepsHeader ==
    ASSUME CausesInv, end = "running", NEW buf, UnitRead(buf),
           Is2022, reader.state = "ReadHeader", GotHeader(buf)
    PROVE  CausesInv'
<1> DEFINE whole == Len(buf) = HeaderLen
           fails == ~whole \/ ~Intact(buf) \/ conn.header # "good" \/ (FromClient /\ Rejected)
<1>0. /\ IsReader(reader) /\ filter \in BOOLEAN /\ AtItsPlace /\ conn.method # "none" /\ conn \in Connections
      /\ Len(buf) >= 1 /\ buf \in Seq(Tokens) /\ wire'.read = UnitStart + Len(buf)
      /\ ~reader.key => wire.damaged
    BY WhileReading DEF Is2022
<1>1. CASE fails
    <2> DEFINE r == [reader EXCEPT !.short = ~whole]
    <2>1. FailRead(r)
        BY <1>1 DEF GotHeader
    <2>2. IsReader(r) /\ r.state = "ReadHeader" /\ r.short = ~whole
        BY <1>0 DEF IsReader, ReaderFields
    <2> HIDE DEF r
    <2>3. wire.damaged \/ Refused \/ r.short
        <3>1. CASE ~whole
            BY <2>2, <3>1, Zenon
        <3>2. CASE ~Intact(buf)
            BY <1>0, <3>2, WhileReading
        <3>3. CASE conn.header # "good" \/ (FromClient /\ Rejected)
            BY <3>3 DEF Refused
        <3> QED
            BY <1>1, <3>1, <3>2, <3>3
    <2> QED
        BY <2>1, <2>2, <2>3, Fails DEF ReaderStates
<1>2. CASE ~fails
    <2> DEFINE r == [reader EXCEPT !.state = "ReadData", !.short = ~whole, !.decrypted = whole,
                        !.plen = IF whole THEN buf[Len(buf)][2] ELSE 0]
    <2>1. IsReader(r) /\ r.state = "ReadData" /\ r.key = reader.key /\ r.plen = buf[Len(buf)][2]
        BY <1>0, <1>2 DEF IsReader, ReaderFields
    <2>2. /\ reader' = [r EXCEPT !.buf = <<>>] /\ UNCHANGED end
          /\ filter' = (filter \/ (FromClient /\ Checked))
        BY <1>2 DEF GotHeader, Goto
    <2> HIDE DEF r
    <2>3. /\ IsReader(reader') /\ reader'.state = "ReadData" /\ reader'.buf = <<>>
          /\ reader'.key = reader.key /\ reader'.plen = buf[Len(buf)][2]
        BY <2>1, <2>2 DEF IsReader, ReaderFields
    <2>4. filter' \in BOOLEAN
        BY <2>2, Zenon
    <2>5. PICK n \in Nat : n = HeaderLen
        BY <1>0, HeaderLength
    <2>6. Len(buf) = n /\ n = LeadOf(conn) /\ n >= 1 /\ n \in 1..Len(buf)
        BY <1>0, <1>2, <2>5, HeaderLength
    <2>7. UnitStart = 0 /\ wire'.read = n
        <3>1. wire.read = 0 /\ reader.buf = <<>>
            BY <1>0 DEF AtItsPlace
        <3>2. Len(reader.buf) = 0
            BY <3>1
        <3> QED
            <4>1. UnitStart = 0
                <5>1. wire.read = 0
                    BY <3>1
                <5>2. 0 - 0 = 0
                    OBVIOUS
                <5> QED
                    BY <3>2, <5>1, <5>2, Zenon DEF UnitStart
            <4>2. wire'.read = 0 + n
                BY <1>0, <2>6, <4>1, Zenon
            <4> QED
                BY <4>1, <4>2
    <2>8. TokenOK(conn, buf[n], n, writer.ends, wire.damaged)
        <3>1. Layout(conn, buf, 0, writer.ends, wire.damaged)
            BY <1>0, <2>7 DEF UnitRead
        <3>2. TokenOK(conn, buf[n], 0 + n, writer.ends, wire.damaged)
            BY <2>6, <3>1, Zenon DEF Layout
        <3>3. 0 + n = n
            OBVIOUS
        <3> QED
            BY <3>2, <3>3, Zenon
    <2>9. Bad \notin Range(buf) /\ conn.method \in {"aead", "aead2022"}
        BY <1>2, Zenon DEF Intact, Is2022
    <2>10. buf[n] \in Tokens /\ buf[n] # Bad
        BY <1>0, <2>6, <2>9, Intactly
    <2>11. PICK t : t = buf[n]
        OBVIOUS
    <2>12. t[2] \in Nat /\ n + t[2] + 1 \in writer.ends
        BY <2>6, <2>8, <2>9, <2>10, <2>11, LengthTells
    <2>13. AtItsPlace'
        <3>1. Len(reader'.buf) = 0 /\ UnitStart' = n
            <4>1. Len(reader'.buf) = 0
                BY <2>3
            <4> QED
                BY <2>7, <4>1 DEF UnitStart
        <3>2. Chunked' /\ writer' = writer
            BY DEF UnitRead, Chunked, Is2022
        <3>3. PICK p \in Nat : p = t[2]
            BY <2>12
        <3>4. reader'.plen = p /\ 0 < p + 1 /\ n + p + 1 \in writer.ends
            BY <2>3, <2>6, <2>11, <2>12, <3>3
        <3> QED
            BY <2>3, <3>1, <3>2, <3>4 DEF AtItsPlace
    <2>14. ~reader'.key => wire.damaged
        BY <1>0, <2>3
    <2> QED
        BY <2>2, <2>3, <2>4, <2>13, <2>14, GoesOn DEF ReaderStates
<1> QED
    BY <1>1, <1>2

LEMMA CarriesNumber ==
    ASSUME NEW s \in Seq(Tokens), NEW i \in 1..Len(s)
    PROVE  s[i][2] \in Nat
BY DEF Tokens

\* The chunk's data, of both chunked ciphers.
LEMMA DataRead ==
    ASSUME CausesInv, end = "running", NEW buf, UnitRead(buf), ~Partial(buf), Len(buf) <= Need,
           Chunked, reader.state = "ReadData", reader' = Buffered(buf), UNCHANGED end, filter' \in BOOLEAN
    PROVE  CausesInv'
<1>0. /\ IsReader(reader) /\ AtItsPlace /\ writer.ends \in SUBSET Nat
      /\ buf \in Seq(Tokens) /\ UnitStart \in Nat
      /\ ~reader.key => wire.damaged
    BY WhileReading
<1>1. PICK n \in Nat : n = reader.plen
    BY <1>0 DEF AtItsPlace
<1>2. UnitStart + n + 1 \in writer.ends
    BY <1>0, <1>1 DEF AtItsPlace
<1>3. Need = n + 1
    BY <1>1 DEF Need, AeadNeed, Aead2022Need, Chunked
<1>4. Len(buf) = n + 1 /\ wire'.read = UnitStart + (n + 1)
    <2>1. n + 1 \in Nat
        OBVIOUS
    <2> QED
        BY <1>3, <2>1, Complete
<1>5. wire'.read > 0 /\ wire'.read \in writer.ends
    <2>1. PICK u \in Nat : u = UnitStart
        BY <1>0
    <2>2. u + n + 1 \in writer.ends /\ wire'.read = u + (n + 1)
        BY <1>2, <1>4, <2>1, Zenon
    <2>3. u + n + 1 = u + (n + 1) /\ u + (n + 1) > 0
        OBVIOUS
    <2> QED
        BY <2>2, <2>3, Zenon
<1> DEFINE b == [i \in 1..n |-> buf[i][2]]
<1>6. b \in Seq(Nat)
    <2>1. ASSUME NEW i \in 1..n PROVE buf[i][2] \in Nat
        <3>1. i \in 1..Len(buf)
            BY <1>4
        <3> QED
            BY <1>0, <3>1, CarriesNumber, Zenon
    <2> QED
        BY <2>1
<1>7. reader' = [reader EXCEPT !.buf = b, !.state = "BufferedData", !.unchecked = FALSE, !.decrypted = TRUE]
    BY <1>1 DEF Buffered
<1> HIDE DEF b
<1>8. IsReader(reader') /\ reader'.state = "BufferedData" /\ reader'.buf = b /\ reader'.key = reader.key
    BY <1>0, <1>7 DEF IsReader, ReaderFields
<1>9. Held'
    BY <1>8 DEF Held
<1>10. AtItsPlace'
    BY <1>5, <1>6, <1>8 DEF AtItsPlace, UnitRead, Chunked
<1>11. ~reader'.key => wire.damaged
    BY <1>0, <1>8, Zenon
<1> QED
    BY <1>8, <1>9, <1>10, <1>11, ReceiverKeeps DEF UnitRead, ReaderStates

LEMMA KeepsData ==
    ASSUME CausesInv, end = "running", NEW buf, UnitRead(buf), ~Partial(buf), Len(buf) <= Need,
           Chunked, reader.state = "ReadData",
           \/ conn.method = "aead" /\ GotAeadData(buf)
           \/ Is2022 /\ Got2022Data(buf)
    PROVE  CausesInv'
<1> DEFINE refused == conn.method = "aead" /\ reader.unchecked /\ Rejected
           r == [reader EXCEPT !.buf = <<>>]
<1>0. IsReader(reader) /\ filter \in BOOLEAN /\ conn.method # "none"
    BY WhileReading DEF Chunked
<1>1. CASE ~Intact(buf) \/ refused
    <2>1. FailRead(r)
        BY <1>1 DEF GotAeadData, Got2022Data, Is2022
    <2>2. IsReader(r) /\ r.state = "ReadData"
        BY <1>0 DEF IsReader, ReaderFields
    <2> HIDE DEF r
    <2>3. wire.damaged \/ Refused
        <3>1. CASE ~Intact(buf)
            BY <1>0, <3>1, WhileReading
        <3>2. CASE refused
            BY <3>2 DEF Refused, Is2022
        <3> QED
            BY <1>1, <3>1, <3>2
    <2> QED
        BY <2>1, <2>2, <2>3, Fails DEF ReaderStates
<1>2. CASE ~(~Intact(buf) \/ refused)
    <2>1. reader' = Buffered(buf) /\ UNCHANGED end
        BY <1>2 DEF GotAeadData, Got2022Data
    <2>2. filter' = (filter \/ (reader.unchecked /\ Checked)) \/ filter' = filter
        BY <1>2 DEF GotAeadData, Got2022Data
    <2>3. filter' \in BOOLEAN
        BY <1>0, <2>2, Zenon
    <2> QED
        BY <2>1, <2>3, DataRead
<1> QED
    BY <1>1, <1>2

\* The stream cipher, and none.
LEMMA KeepsIv ==
    ASSUME CausesInv, end = "running", NEW buf, UnitRead(buf), ~Chunked, reader.state = "WaitSalt", GotIv(buf)
    PROVE  CausesInv'
<1> DEFINE r == [reader EXCEPT !.buf = <<>>, !.key = Bad \notin Range(buf), !.state = "Read"]
<1>0. /\ IsReader(reader) /\ filter \in BOOLEAN /\ conn.method = "stream"
      /\ Bad \in Range(buf) => wire.damaged
    BY WhileReading DEF AtItsPlace, Chunked
<1>1. IsReader(r) /\ r.state = "Read" /\ r.buf = <<>> /\ r.key = (Bad \notin Range(buf))
    BY <1>0 DEF IsReader, ReaderFields
<1>2. IF Rejected THEN FailRead(r) ELSE Goto(r) /\ filter' = (filter \/ Checked)
    BY Zenon DEF GotIv
<1> HIDE DEF r
<1>3. CASE Rejected
    <2>1. Refused
        BY <1>0, <1>3 DEF Refused, Is2022
    <2> QED
        BY <1>1, <1>2, <1>3, <2>1, Fails DEF ReaderStates
<1>4. CASE ~Rejected
    <2>1. reader' = [r EXCEPT !.buf = <<>>] /\ UNCHANGED end /\ filter' = (filter \/ Checked)
        BY <1>2, <1>4 DEF Goto
    <2>2. IsReader(reader') /\ reader'.state = "Read" /\ reader'.buf = <<>> /\ reader'.key = r.key
        BY <1>1, <2>1 DEF IsReader, ReaderFields
    <2>3. filter' \in BOOLEAN
        BY <2>1, Zenon
    <2>4. ~reader'.key => wire.damaged
        BY <1>0, <1>1, <2>2, Zenon
    <2>5. AtItsPlace'
        BY <2>2 DEF AtItsPlace, Chunked, UnitRead
    <2> QED
        BY <2>1, <2>2, <2>3, <2>4, <2>5, GoesOn DEF ReaderStates
<1> QED
    BY <1>3, <1>4

LEMMA KeepsPlain ==
    ASSUME CausesInv, end = "running", NEW buf, UnitRead(buf), ~Chunked, reader.state # "WaitSalt", GotPlain(buf)
    PROVE  CausesInv'
<1>0. /\ IsReader(reader) /\ filter \in BOOLEAN /\ AtItsPlace /\ reader.state \in ReaderStates
      /\ ~reader.key => wire.damaged
    BY WhileReading
<1>1. reader.state = "Read" /\ reader.buf = <<>>
    BY <1>0 DEF AtItsPlace, ReaderStates, Chunked, Is2022
<1>2. UNCHANGED <<reader, end, filter>>
    BY DEF GotPlain
<1>3. AtItsPlace'
    BY <1>1, <1>2 DEF AtItsPlace, Chunked, UnitRead
<1> QED
    BY <1>0, <1>1, <1>2, <1>3, GoesOn DEF ReaderStates

LEMMA ReadsKeep == CausesInv /\ PollRead => CausesInv'
<1> SUFFICES ASSUME CausesInv, PollRead PROVE CausesInv'
    OBVIOUS
<1>0. end = "running" /\ reader.state # "BufferedData" /\ UNCHANGED <<conn, copy, writer>>
    BY Zenon DEF PollRead
<1>1. PICK k \in 1..(Need - Len(reader.buf)) :
          LET buf == reader.buf \o SubSeq(wire.q, 1, k)
          IN  /\ k <= Len(wire.q)
              /\ wire' = [wire EXCEPT !.q = SubSeq(@, k + 1, Len(@)), !.read = @ + k]
              /\ \/ Partial(buf) /\ reader' = [reader EXCEPT !.buf = buf] /\ UNCHANGED <<out, end, filter>>
                 \/ ~Partial(buf) /\ CASE conn.method = "aead"      -> AeadRead(buf)
                                       [] conn.method = "aead2022"  -> Aead2022Read(buf)
                                       [] OTHER                     -> StreamRead(buf)
    BY Zenon DEF PollRead
<1>2. PICK buf : buf = reader.buf \o SubSeq(wire.q, 1, k)
    OBVIOUS
<1>3. Polls(k, buf)
    BY <1>1, <1>2, Zenon DEF Polls
<1>4. \/ Partial(buf) /\ reader' = [reader EXCEPT !.buf = buf] /\ UNCHANGED <<out, end, filter>>
      \/ ~Partial(buf) /\ CASE conn.method = "aead"      -> AeadRead(buf)
                            [] conn.method = "aead2022"  -> Aead2022Read(buf)
                            [] OTHER                     -> StreamRead(buf)
    BY <1>1, <1>2, Zenon
<1>5. k \in Nat /\ 1 <= k
    OBVIOUS
<1>6. UnitRead(buf) /\ Len(buf) = Len(reader.buf) + k
    BY <1>0, <1>3, <1>5, UnitIsRead
<1>7. AtItsPlace /\ Held /\ reader.state \in ReaderStates
    BY <1>0, <1>6, WhileReading
<1>8. Chunked => Len(buf) <= Need
    <2> SUFFICES ASSUME Chunked PROVE Len(buf) <= Need
        OBVIOUS
    <2>1. Need \in Int
        <3>1. reader.state = "ReadData" => reader.plen \in Nat
            BY <1>7 DEF AtItsPlace
        <3>2. reader.state \in {"WaitSalt", "ReadHeader", "ReadLength", "ReadData"}
            BY <1>0, <1>7 DEF AtItsPlace, ReaderStates
        <3>3. HeaderLen \in Int
            BY <1>0, <1>6, WhileReading, HeaderLength
        <3>4. reader.state = "WaitSalt" => conn.method = "aead"
            BY <1>7 DEF AtItsPlace, Chunked
        <3>5. reader.state = "ReadHeader" => conn.method = "aead2022"
            BY <1>7 DEF AtItsPlace, Is2022
        <3>6. CASE conn.method = "aead"
            BY <3>1, <3>2, <3>5, <3>6, SaltLength DEF Need, AeadNeed
        <3>7. CASE conn.method = "aead2022"
            BY <3>1, <3>2, <3>3, <3>4, <3>7 DEF Need, Aead2022Need
        <3> QED
            BY <3>6, <3>7 DEF Chunked
    <2>2. Len(reader.buf) \in Nat
        BY <1>0, <1>7 DEF Held
    <2> QED
        BY <1>6, <2>1, <2>2
<1>9. CASE Partial(buf) /\ reader' = [reader EXCEPT !.buf = buf] /\ UNCHANGED <<out, end, filter>>
    BY <1>0, <1>6, <1>9, KeepsPartial
<1>10. CASE ~Partial(buf) /\ CASE conn.method = "aead"      -> AeadRead(buf)
                               [] conn.method = "aead2022"  -> Aead2022Read(buf)
                               [] OTHER                     -> StreamRead(buf)
    <2>1. CASE conn.method = "aead"
        <3>1. Chunked /\ AeadRead(buf)
            BY <1>10, <2>1 DEF Chunked
        <3>2. reader.state \in {"WaitSalt", "ReadLength", "ReadData"}
            BY <1>0, <1>7, <2>1 DEF AtItsPlace, ReaderStates, Chunked, Is2022
        <3>3. CASE reader.state = "WaitSalt"
            BY <1>0, <1>6, <1>8, <1>10, <2>1, <3>1, <3>3, KeepsSalt DEF AeadRead
        <3>4. CASE reader.state = "ReadLength"
            BY <1>0, <1>6, <1>8, <1>10, <3>1, <3>4, KeepsLength DEF AeadRead
        <3>5. CASE reader.state = "ReadData"
            BY <1>0, <1>6, <1>8, <1>10, <2>1, <3>1, <3>5, KeepsData DEF AeadRead
        <3> QED
            BY <3>2, <3>3, <3>4, <3>5
    <2>2. CASE conn.method = "aead2022"
        <3>1. Chunked /\ Is2022 /\ Aead2022Read(buf)
            BY <1>10, <2>2 DEF Chunked, Is2022
        <3>2. reader.state \in {"ReadHeader", "ReadLength", "ReadData"}
            BY <1>0, <1>7, <2>2 DEF AtItsPlace, ReaderStates, Chunked
        <3>3. CASE reader.state = "ReadHeader"
            BY <1>0, <1>6, <3>1, <3>3, KeepsHeader DEF Aead2022Read
        <3>4. CASE reader.state = "ReadLength"
            BY <1>0, <1>6, <1>8, <1>10, <3>1, <3>4, KeepsLength DEF Aead2022Read
        <3>5. CASE reader.state = "ReadData"
            BY <1>0, <1>6, <1>8, <1>10, <3>1, <3>5, KeepsData DEF Aead2022Read
        <3> QED
            BY <3>2, <3>3, <3>4, <3>5
    <2>3. CASE ~Chunked
        <3>1. StreamRead(buf)
            BY <1>10, <2>3 DEF Chunked
        <3> QED
            BY <1>0, <1>6, <2>3, <3>1, KeepsIv, KeepsPlain DEF StreamRead
    <2> QED
        BY <2>1, <2>2, <2>3 DEF Chunked
<1> QED
    BY <1>4, <1>9, <1>10

LEMMA CausesStep == CausesInv /\ [CipherNext]_cipherVars => CausesInv'
<1> SUFFICES ASSUME CausesInv, [CipherNext]_cipherVars PROVE CausesInv'
    OBVIOUS
<1>1. CASE UNCHANGED cipherVars
    BY <1>1
       DEF cipherVars, CausesInv, CipherTypes, CopyInOrder, WriterInOrder, PacketsInOrder, Assembled, WireInOrder,
           ReaderInOrder, Held, AtItsPlace, UnitStart, Chunked, Is2022, Caused, Refused, Rejected, FromClient
<1> QED
    BY <1>1, SendsBetween, WritesKeep, CutKeeps, DamageKeeps, ReadsKeep, DeliverKeeps, EofKeeps DEF CipherNext

\* However a connection ends, it has its cause, for packets, buffers and reads
\* of any size: a clean end of a chunked cipher is behind a whole chunk, and an
\* error behind a fault, a refusal, a header in pieces or an early close.
THEOREM ConnectionsEndForACause == CipherSpec => []EndsHaveCauses
<1>1. CausesInv => EndsHaveCauses
    <2> SUFFICES ASSUME CausesInv PROVE EndsHaveCauses
        OBVIOUS
    <2>1. CipherTypeOK
        BY SizesAssumption DEF CausesInv, CipherTypes, CopyInOrder, CipherTypeOK, Copies, Writers, Wires
    <2>2. OnlyWholeChunks
        BY SaltLength DEF CausesInv, Caused, OnlyWholeChunks
    <2>3. ErrorsHaveCauses
        BY DEF CausesInv, Caused, ErrorsHaveCauses
    <2> QED
        BY <2>1, <2>2, <2>3 DEF EndsHaveCauses
<1> QED
    BY <1>1, CausesStarts, CausesStep, PTL DEF CipherSpec

-----------------------------------------------------------------------------
(***************************************************************************)
(* The byte stream.  The places of the wire are numbered by how many units *)
(* of plain text stand up to each of them; each token carries the unit of  *)
(* its place, each length announces the places behind it, and what was     *)
(* handed out is the first units up to where the reader stands.  A packet  *)
(* that is assembled adds its numbers; no other step changes any.          *)
(***************************************************************************)

\* The units of a connection c are the request's header, of one unit or, with
\* padding (p = 1), two, and then the bytes: what the i-th of them is.
HeadOf(c, p) == IF c.from = "client" THEN 1 + p ELSE 0
Unit(c, p, i) == IF i > HeadOf(c, p) THEN i - HeadOf(c, p) ELSE IF i = 1 THEN Addr ELSE Pad

\* N[x] is how many units the first x places of the wire carry.  A chunk of n
\* units begins behind x.
Spans(N, x, n) == (\A i \in 0..n : N[x + i] = N[x] + i) /\ N[x + n + 1] = N[x] + n

\* A token at x that was not damaged carries the unit that place has, or
\* announces the chunk that follows.
Places(c, N, p, t, x) ==
    t # Bad => /\ N[x] # N[x - 1] => t[2] = Unit(c, p, N[x])
               /\ Announces(t) => N[x] = N[x - 1] /\ Spans(N, x, t[2])

Carries(c, N, p, T, r) == \A i \in 1..Len(T) : Places(c, N, p, T[i], r + i)

Numberings == [Nat -> Nat]

LEMMA CarriesJoins ==
    ASSUME NEW c, NEW N, NEW p, NEW a \in Seq(Tokens), NEW b \in Seq(Tokens), NEW r \in Nat,
           Carries(c, N, p, a, r), Carries(c, N, p, b, r + Len(a))
    PROVE  Carries(c, N, p, a \o b, r)
<1> SUFFICES ASSUME NEW i \in 1..Len(a \o b) PROVE Places(c, N, p, (a \o b)[i], r + i)
    BY DEF Carries
<1>0. Len(a \o b) = Len(a) + Len(b) /\ Len(a) \in Nat /\ Len(b) \in Nat
    OBVIOUS
<1>1. CASE i <= Len(a)
    BY <1>0, <1>1 DEF Carries
<1>2. CASE i > Len(a)
    <2> DEFINE j == i - Len(a)
    <2>1. j \in 1..Len(b) /\ r + Len(a) + j = r + i /\ (a \o b)[i] = b[j]
        BY <1>0, <1>2
    <2> HIDE DEF j
    <2> QED
        BY <2>1 DEF Carries
<1> QED
    BY <1>0, <1>1, <1>2

LEMMA CarriesBegins ==
    ASSUME NEW c, NEW N, NEW p, NEW a \in Seq(Tokens), NEW r \in Nat, Carries(c, N, p, a, r), NEW k \in 0..Len(a)
    PROVE  Carries(c, N, p, SubSeq(a, 1, k), r)
<1>1. Len(SubSeq(a, 1, k)) = k /\ \A i \in 1..k : SubSeq(a, 1, k)[i] = a[i] /\ i \in 1..Len(a)
    OBVIOUS
<1> QED
    BY <1>1 DEF Carries

LEMMA CarriesGoesOn ==
    ASSUME NEW c, NEW N, NEW p, NEW a \in Seq(Tokens), NEW r \in Nat, Carries(c, N, p, a, r), NEW k \in 0..Len(a)
    PROVE  Carries(c, N, p, SubSeq(a, k + 1, Len(a)), r + k)
<1> DEFINE b == SubSeq(a, k + 1, Len(a))
<1>1. b \in Seq(Tokens) /\ Len(b) = Len(a) - k
    OBVIOUS
<1>2. ASSUME NEW i \in 1..Len(b) PROVE Places(c, N, p, b[i], r + k + i)
    <2> DEFINE j == k + i
    <2>1. b[i] = a[j] /\ j \in 1..Len(a) /\ r + k + i = r + j
        BY <1>1
    <2> HIDE DEF j, b
    <2> QED
        BY <2>1 DEF Carries
<1> HIDE DEF b
<1>3. Carries(c, N, p, b, r + k)
    BY <1>2 DEF Carries
<1> QED
    BY <1>3 DEF b

LEMMA CarriesNothing ==
    ASSUME NEW c, NEW N, NEW p, NEW a, a = <<>>, NEW r
    PROVE  Carries(c, N, p, a, r)
BY DEF Carries

\* Numbers that agree up to m carry what ends there.
LEMMA CarriesAlike ==
    ASSUME NEW c, NEW N, NEW M, NEW p, NEW a \in Seq(Tokens), NEW r \in Nat, NEW m \in Nat,
           \A x \in 0..m : M[x] = N[x], r + Len(a) <= m,
           \A i \in 1..Len(a) : Announces(a[i]) => r + i + a[i][2] + 1 <= m,
           Carries(c, N, p, a, r)
    PROVE  Carries(c, M, p, a, r)
<1> SUFFICES ASSUME NEW i \in 1..Len(a), a[i] # Bad PROVE Places(c, M, p, a[i], r + i)
    BY DEF Carries, Places
<1>1. Places(c, N, p, a[i], r + i)
    BY DEF Carries
<1>2. PICK x \in Nat : x = r + i
    OBVIOUS
<1>3. x \in 0..m /\ x - 1 \in 0..m
    BY <1>2
<1>4. M[x] = N[x] /\ M[x - 1] = N[x - 1]
    BY <1>3
<1>5. ASSUME Announces(a[i]) PROVE M[x] = M[x - 1] /\ Spans(M, x, a[i][2])
    <2>1. PICK n \in Nat : n = a[i][2]
        BY CarriesNumber
    <2>2. x + n + 1 <= m
        BY <1>2, <1>5, <2>1
    <2>3. N[x] = N[x - 1] /\ Spans(N, x, n)
        BY <1>1, <1>2, <1>5, <2>1 DEF Places
    <2>4. \A j \in 0..n : x + j \in 0..m
        BY <2>2
    <2>5. x + n + 1 \in 0..m
        BY <2>2
    <2> QED
        BY <1>4, <2>1, <2>3, <2>4, <2>5 DEF Spans
<1> QED
    BY <1>1, <1>2, <1>4, <1>5 DEF Places

\* A token that is damaged carries nothing.
LEMMA BadPlaces == \A c, N, p, x : Places(c, N, p, Bad, x)
BY DEF Places

-----------------------------------------------------------------------------
\* The tokens of a packet: l before its n units, at most one behind them.
Shape(pk, l, payload) ==
    /\ Len(pk) \in {l + Len(payload), l + Len(payload) + 1}
    /\ \A i \in 1..l : Announces(pk[i]) => i = l /\ pk[i][2] = Len(payload) /\ Len(pk) = l + Len(payload) + 1
    /\ \A i \in 1..Len(payload) : pk[l + i] = Data(payload[i])
    /\ Len(pk) = l + Len(payload) + 1 => ~Announces(pk[Len(pk)])

\* The numbers with such a packet behind place m.
Extended(N, m, l, n) ==
    [x \in Nat |-> IF x <= m THEN N[x]
                   ELSE IF x <= m + l THEN N[m]
                   ELSE IF x <= m + l + n THEN N[m] + (x - (m + l))
                   ELSE N[m] + n]

Extends(M, N, m, l, n) ==
    /\ M \in Numberings
    /\ \A x \in 0..m : M[x] = N[x]
    /\ \A x \in Nat : m <= x /\ x <= m + l => M[x] = N[m]
    /\ \A x \in Nat : m + l <= x /\ x <= m + l + n => M[x] = N[m] + (x - (m + l))
    /\ \A x \in Nat : x >= m + l + n => M[x] = N[m] + n
    /\ \A x \in Nat : M[x] <= N[m] + n \/ (x <= m /\ M[x] = N[x])

LEMMA ExtendedFacts ==
    ASSUME NEW N \in Numberings, NEW m \in Nat, NEW l \in Nat, NEW n \in Nat, NEW M, M = Extended(N, m, l, n)
    PROVE  Extends(M, N, m, l, n)
<1>1. N[m] \in Nat /\ \A x \in Nat : N[x] \in Nat
    BY DEF Numberings
<1>2. M \in Numberings
    BY <1>1 DEF Extended, Numberings
<1>3. \A x \in Nat : M[x] = IF x <= m THEN N[x]
                            ELSE IF x <= m + l THEN N[m]
                            ELSE IF x <= m + l + n THEN N[m] + (x - (m + l))
                            ELSE N[m] + n
    BY DEF Extended
<1>4. \A x \in 0..m : M[x] = N[x]
    BY <1>3
<1>5. \A x \in Nat : m <= x /\ x <= m + l => M[x] = N[m]
    BY <1>1, <1>3
<1>6. ASSUME NEW x \in Nat, m + l <= x, x <= m + l + n PROVE M[x] = N[m] + (x - (m + l))
    <2>1. CASE x = m + l
        BY <1>1, <1>5, <2>1
    <2>2. CASE x > m + l
        <3>1. ~(x <= m) /\ ~(x <= m + l)
            BY <2>2
        <3> QED
            BY <1>3, <1>6, <3>1
    <2> QED
        BY <1>6, <2>1, <2>2
<1>7. \A x \in Nat : x >= m + l + n => M[x] = N[m] + n
    BY <1>1, <1>3
<1>8. \A x \in Nat : M[x] <= N[m] + n \/ (x <= m /\ M[x] = N[x])
    BY <1>1, <1>3
<1> QED
    BY <1>2, <1>4, <1>5, <1>6, <1>7, <1>8 DEF Extends

LEMMA ShapeCarries ==
    ASSUME NEW c, NEW p, NEW N \in Numberings, NEW m \in Nat, NEW l \in Nat, NEW payload \in Seq(Nat),
           NEW pk, Shape(pk, l, payload), NEW M, Extends(M, N, m, l, Len(payload)),
           \A i \in 1..Len(payload) : payload[i] = Unit(c, p, N[m] + i)
    PROVE  Carries(c, M, p, pk, m)
<1> DEFINE n == Len(payload)
<1>0. n \in Nat /\ N[m] \in Nat /\ Extends(M, N, m, l, n)
    BY DEF Numberings
<1> HIDE DEF n
<1>1. /\ \A x \in Nat : m <= x /\ x <= m + l => M[x] = N[m]
      /\ \A x \in Nat : m + l <= x /\ x <= m + l + n => M[x] = N[m] + (x - (m + l))
      /\ \A x \in Nat : x >= m + l + n => M[x] = N[m] + n
    BY <1>0 DEF Extends
<1>2. Len(pk) \in {l + n, l + n + 1}
    BY DEF Shape, n
<1>3. ASSUME NEW i \in 1..l PROVE Places(c, M, p, pk[i], m + i)
    <2>1. PICK x \in Nat : x = m + i
        OBVIOUS
    <2>2. x - 1 \in Nat /\ M[x] = N[m] /\ M[x - 1] = N[m]
        <3>1. x - 1 \in Nat /\ m <= x - 1 /\ x - 1 <= m + l /\ m <= x /\ x <= m + l
            BY <2>1
        <3> QED
            BY <1>1, <3>1
    <2>3. ASSUME Announces(pk[i]) PROVE Spans(M, x, pk[i][2])
        <3>1. i = l /\ pk[i][2] = n
            BY <2>3 DEF Shape, n
        <3>2. x = m + l
            BY <2>1, <3>1
        <3>3. ASSUME NEW j \in 0..n PROVE M[x + j] = M[x] + j
            <4>1. x + j \in Nat /\ m + l <= x + j /\ x + j <= m + l + n /\ (x + j) - (m + l) = j
                BY <1>0, <3>2
            <4>2. M[x + j] = N[m] + ((x + j) - (m + l))
                BY <1>1, <4>1
            <4> QED
                BY <2>2, <4>1, <4>2
        <3>4. M[x + n + 1] = M[x] + n
            <4>1. x + n + 1 \in Nat /\ x + n + 1 >= m + l + n
                BY <1>0, <3>2
            <4> QED
                BY <1>1, <2>2, <4>1
        <3> QED
            BY <3>1, <3>3, <3>4 DEF Spans
    <2> QED
        BY <2>1, <2>2, <2>3 DEF Places
<1>4. ASSUME NEW j \in 1..n PROVE Places(c, M, p, pk[l + j], m + (l + j))
    <2>1. pk[l + j] = Data(payload[j]) /\ j \in 1..Len(payload)
        BY DEF Shape, n
    <2>2. payload[j] \in Nat /\ payload[j] = Unit(c, p, N[m] + j)
        BY <2>1
    <2>3. ~Announces(pk[l + j]) /\ pk[l + j][2] = payload[j]
        <3>1. \A u : Data(u)[1] = "data" /\ Data(u)[2] = u
            BY DEF Data
        <3> QED
            BY <2>1, <3>1 DEF Announces
    <2>4. M[m + (l + j)] = N[m] + j
        <3>1. /\ m + (l + j) \in Nat /\ m + l <= m + (l + j) /\ m + (l + j) <= m + l + n
              /\ (m + (l + j)) - (m + l) = j
            BY <1>0
        <3> QED
            BY <1>1, <3>1
    <2>5. PICK x, t : x = m + (l + j) /\ t = pk[l + j]
        OBVIOUS
    <2>6. ~Announces(t) /\ t[2] = Unit(c, p, M[x])
        BY <2>2, <2>3, <2>4, <2>5
    <2>7. Places(c, M, p, t, x)
        BY <2>6, Zenon DEF Places
    <2> QED
        BY <2>5, <2>7
<1>5. ASSUME Len(pk) = l + n + 1 PROVE Places(c, M, p, pk[l + n + 1], m + (l + n + 1))
    <2>1. ~Announces(pk[l + n + 1])
        BY <1>5 DEF Shape, n
    <2>2. M[m + (l + n + 1)] = N[m] + n
        <3>1. m + (l + n + 1) \in Nat /\ m + (l + n + 1) >= m + l + n
            BY <1>0
        <3> QED
            BY <1>1, <3>1
    <2>3. M[m + (l + n + 1) - 1] = N[m] + n
        <3>1. /\ m + (l + n + 1) - 1 \in Nat /\ m + (l + n + 1) - 1 >= m + l + n
            BY <1>0
        <3> QED
            BY <1>1, <3>1
    <2>4. PICK x, t : x = m + (l + n + 1) /\ t = pk[l + n + 1]
        OBVIOUS
    <2>5. ~Announces(t) /\ M[x] = M[x - 1]
        BY <1>0, <2>1, <2>2, <2>3, <2>4
    <2>6. Places(c, M, p, t, x)
        BY <2>5, Zenon DEF Places
    <2> QED
        BY <2>4, <2>6
<1>6. ASSUME NEW i \in 1..Len(pk) PROVE Places(c, M, p, pk[i], m + i)
    <2>1. CASE i <= l
        BY <1>3, <2>1
    <2>2. CASE i > l /\ i <= l + n
        <3> DEFINE j == i - l
        <3>1. j \in 1..n /\ i = l + j
            BY <1>0, <2>2
        <3> HIDE DEF j
        <3> QED
            BY <1>4, <3>1
    <2>3. CASE i > l + n
        <3>1. i = l + n + 1 /\ Len(pk) = l + n + 1
            BY <1>0, <1>2, <2>3
        <3> QED
            BY <1>5, <3>1
    <2> QED
        BY <1>0, <2>1, <2>2, <2>3
<1> QED
    BY <1>6 DEF Carries

Parts(pk, a, b, d) ==
    /\ Len(pk) = Len(a) + Len(b) + Len(d)
    /\ \A i \in 1..Len(a) : pk[i] = a[i]
    /\ \A i \in 1..Len(b) : pk[Len(a) + i] = b[i]
    /\ \A i \in 1..Len(d) : pk[Len(a) + Len(b) + i] = d[i]

LEMMA ThreeParts ==
    ASSUME NEW a \in Seq(Tokens), NEW b \in Seq(Tokens), NEW d \in Seq(Tokens), NEW pk, pk = a \o b \o d
    PROVE  Parts(pk, a, b, d)
<1>1. a \o b \in Seq(Tokens) /\ Len(a \o b) = Len(a) + Len(b)
    OBVIOUS
<1>2. /\ \A i \in 1..Len(a) : (a \o b)[i] = a[i]
      /\ \A i \in 1..Len(b) : (a \o b)[Len(a) + i] = b[i]
    OBVIOUS
<1>3. PICK e \in Seq(Tokens) : e = a \o b
    BY <1>1
<1>4. Len(pk) = Len(e) + Len(d) /\ (\A i \in 1..Len(e) : pk[i] = e[i]) /\ \A i \in 1..Len(d) : pk[Len(e) + i] = d[i]
    BY <1>3
<1> QED
    BY <1>1, <1>2, <1>3, <1>4 DEF Parts

\* A packet: what is silent before the length, the length, the units, the tag.
LEMMA ChunkShape ==
    ASSUME NEW g, Silent(g), NEW t \in Tokens, NEW payload \in Seq(Nat), t[2] = Len(payload),
           NEW pk, pk = g \o <<t>> \o Body(payload) \o <<Tag>>
    PROVE  Shape(pk, Len(g) + 1, payload) /\ Len(pk) = Len(g) + 1 + Len(payload) + 1
<1> DEFINE a == g \o <<t>>
<1>0. g \in Seq(Tokens) /\ (\A i \in 1..Len(g) : ~Announces(g[i])) /\ Len(g) \in Nat
    BY DEF Silent
<1>1. a \in Seq(Tokens) /\ Len(a) = Len(g) + 1 /\ a[Len(g) + 1] = t /\ \A i \in 1..Len(g) : a[i] = g[i]
    BY <1>0
<1>2. Body(payload) \in Seq(Tokens) /\ Len(Body(payload)) = Len(payload)
    BY SilentParts DEF Silent
<1>3. <<Tag>> \in Seq(Tokens) /\ Len(<<Tag>>) = 1 /\ <<Tag>>[1] = Tag /\ ~Announces(Tag)
    BY TokenFacts
<1>4. pk = a \o Body(payload) \o <<Tag>>
    OBVIOUS
<1>5. \A i \in 1..Len(payload) : Body(payload)[i] = Data(payload[i])
    BY DEF Body
<1>6. PICK n \in Nat : n = Len(payload)
    OBVIOUS
<1> HIDE DEF a
<1>7. /\ Len(pk) = Len(a) + n + 1
      /\ \A i \in 1..Len(a) : pk[i] = a[i]
      /\ \A i \in 1..n : pk[Len(a) + i] = Body(payload)[i]
      /\ pk[Len(a) + n + 1] = Tag
    <2>0. PICK b, d : b = Body(payload) /\ d = <<Tag>>
        OBVIOUS
    <2>1. b \in Seq(Tokens) /\ d \in Seq(Tokens) /\ pk = a \o b \o d
        BY <1>2, <1>3, <1>4, <2>0
    <2>2. Parts(pk, a, b, d)
        BY <1>1, <2>1, ThreeParts
    <2>3. Len(b) = n /\ Len(d) = 1 /\ d[1] = Tag /\ b = Body(payload)
        BY <1>2, <1>3, <1>6, <2>0
    <2> QED
        BY <2>2, <2>3 DEF Parts
<1>8. PICK l \in Nat : l = Len(g) + 1
    BY <1>0
<1>9. \A i \in 1..l : Announces(pk[i]) => i = l /\ pk[i][2] = n
    <2>1. \A i \in 1..l : i = l \/ i \in 1..Len(g)
        BY <1>0, <1>8
    <2>2. \A i \in 1..Len(g) : i \in 1..l
        BY <1>0, <1>8
    <2> QED
        BY <1>0, <1>1, <1>6, <1>7, <1>8, <2>1, <2>2
<1>10. Len(pk) = l + n + 1 /\ ~Announces(pk[Len(pk)])
    BY <1>1, <1>3, <1>7, <1>8
<1>11. \A i \in 1..n : pk[l + i] = Data(payload[i])
    BY <1>1, <1>5, <1>6, <1>7, <1>8
<1> QED
    BY <1>6, <1>8, <1>9, <1>10, <1>11 DEF Shape

LEMMA PlainShape ==
    ASSUME NEW g, Silent(g), NEW payload \in Seq(Nat), NEW pk, pk = g \o Body(payload)
    PROVE  Shape(pk, Len(g), payload) /\ Len(pk) = Len(g) + Len(payload)
<1>0. g \in Seq(Tokens) /\ (\A i \in 1..Len(g) : ~Announces(g[i])) /\ Len(g) \in Nat
    BY DEF Silent
<1>1. Body(payload) \in Seq(Tokens) /\ Len(Body(payload)) = Len(payload)
    BY SilentParts DEF Silent
<1>2. \A i \in 1..Len(payload) : Body(payload)[i] = Data(payload[i])
    BY DEF Body
<1>3. PICK b \in Seq(Tokens) : b = Body(payload)
    BY <1>1
<1>4. /\ Len(pk) = Len(g) + Len(b)
      /\ \A i \in 1..Len(g) : pk[i] = g[i]
      /\ \A i \in 1..Len(b) : pk[Len(g) + i] = b[i]
    BY <1>0, <1>3
<1>5. Len(payload) \in Nat
    OBVIOUS
<1>6. Len(pk) # Len(g) + Len(payload) + 1
    BY <1>0, <1>1, <1>3, <1>4, <1>5
<1> QED
    BY <1>0, <1>1, <1>2, <1>3, <1>4, <1>6 DEF Shape

\* Every packet poll_write_encrypted assembles has a shape, behind its lead.
LEMMA PacketShape ==
    ASSUME conn \in Connections, conn.method # "none", writer.greeted \in BOOLEAN, NEW payload \in Seq(Nat)
    PROVE  \E l \in Nat :
              /\ Shape(Packet(payload), l, payload)
              /\ ~writer.greeted => l = LeadOf(conn)
              /\ conn.method = "stream" /\ writer.greeted => l = 0
              /\ Chunked => Len(Packet(payload)) = l + Len(payload) + 1
              /\ ~Chunked => Len(Packet(payload)) = l + Len(payload)
<1> DEFINE n == Len(payload)
           pk == Packet(payload)
<1>0. n \in Nat
    OBVIOUS
<1>1. Silent(Salt) /\ Silent(<<>>) /\ Len(Salt) = 2 /\ Len(<<>>) = 0
    BY SilentParts, SaltLength
<1>2. Length(n) \in Tokens /\ Length(n)[2] = n /\ Header(n) \in Tokens /\ Header(n)[2] = n
    BY <1>0, TokenFacts
<1>3. CASE conn.method = "stream"
    <2> DEFINE g == IF writer.greeted THEN <<>> ELSE Salt
    <2>1. pk = g \o Body(payload) /\ LeadOf(conn) = 2 /\ ~Chunked
        BY <1>3 DEF Packet, StreamPacket, LeadOf, Chunked
    <2>2. Silent(g) /\ (writer.greeted => Len(g) = 0) /\ (~writer.greeted => Len(g) = 2)
        BY <1>1
    <2> HIDE DEF g, pk
    <2>3. Shape(pk, Len(g), payload) /\ Len(pk) = Len(g) + Len(payload)
        BY <2>1, <2>2, PlainShape
    <2>4. PICK l \in Nat : l = Len(g)
        BY <2>2
    <2> QED
        BY <1>3, <2>1, <2>2, <2>3, <2>4 DEF pk
<1>4. ASSUME Chunked, NEW g, Silent(g), NEW t \in Tokens, t[2] = n, pk = g \o <<t>> \o Body(payload) \o <<Tag>>,
             ~writer.greeted => Len(g) + 1 = LeadOf(conn)
      PROVE  \E l \in Nat :
              /\ Shape(Packet(payload), l, payload)
              /\ ~writer.greeted => l = LeadOf(conn)
              /\ conn.method = "stream" /\ writer.greeted => l = 0
              /\ Chunked => Len(Packet(payload)) = l + Len(payload) + 1
              /\ ~Chunked => Len(Packet(payload)) = l + Len(payload)
    <2>1. Shape(pk, Len(g) + 1, payload) /\ Len(pk) = Len(g) + 1 + Len(payload) + 1
        BY <1>4, ChunkShape
    <2>2. PICK l \in Nat : l = Len(g) + 1
        BY <1>4 DEF Silent
    <2>3. conn.method # "stream"
        BY <1>4 DEF Chunked
    <2> QED
        BY <1>4, <2>1, <2>2, <2>3
<1>5. CASE conn.method = "aead"
    <2> DEFINE g == IF writer.greeted THEN <<>> ELSE Salt
    <2>1. Silent(g) /\ (~writer.greeted => Len(g) = 2)
        BY <1>1
    <2>2. pk = g \o <<Length(n)>> \o Body(payload) \o <<Tag>>
        BY <1>5 DEF Packet, AeadPacket
    <2>3. Chunked /\ LeadOf(conn) = 3
        BY <1>5 DEF Chunked, LeadOf
    <2> HIDE DEF g, pk, n
    <2>4. Len(g) = 2 => Len(g) + 1 = 3
        OBVIOUS
    <2>5. ~writer.greeted => Len(g) + 1 = LeadOf(conn)
        BY <2>1, <2>3, <2>4, Zenon
    <2> QED
        BY <1>2, <1>4, <2>1, <2>2, <2>3, <2>5
<1>6. CASE conn.method = "aead2022"
    <2>1. Chunked
        BY <1>6 DEF Chunked
    <2>2. CASE writer.greeted
        <3>1. pk = <<Length(n)>> \o Body(payload) \o <<Tag>>
            BY <1>6, <2>2 DEF Packet, Aead2022Packet
        <3>2. <<>> \o <<Length(n)>> = <<Length(n)>>
            BY <1>2
        <3>3. pk = <<>> \o <<Length(n)>> \o Body(payload) \o <<Tag>>
            BY <3>1, <3>2, Zenon
        <3> HIDE DEF pk, n
        <3> QED
            BY <1>1, <1>2, <1>4, <2>1, <2>2, <3>3
    <2>3. CASE ~writer.greeted
        <3> DEFINE g == Salt \o Identity
        <3>1. Silent(Identity) /\ Len(Identity) = IF conn.eih THEN 1 ELSE 0
            BY SilentParts DEF Identity
        <3>2. Silent(g)
            BY <1>1, <3>1, SilentParts
        <3>3. Salt \in Seq(Tokens) /\ Identity \in Seq(Tokens)
            BY <1>1, <3>1 DEF Silent
        <3>4. Len(g) = Len(Salt) + Len(Identity)
            BY <3>3, ConcatProperties, Zenon
        <3>5. pk = g \o <<Header(n)>> \o Body(payload) \o <<Tag>>
            BY <1>6, <2>3 DEF Packet, Aead2022Packet
        <3> HIDE DEF g, pk, n
        <3>6. Len(g) + 1 = LeadOf(conn)
            BY <1>1, <1>6, <3>1, <3>4 DEF LeadOf
        <3> QED
            BY <1>2, <1>4, <2>1, <3>2, <3>5, <3>6
    <2> QED
        BY <2>2, <2>3
<1> QED
    BY <1>3, <1>5, <1>6, MethodsAssumption DEF Connections

-----------------------------------------------------------------------------
\* The first packet takes all it is given, at once: the request header and what
\* establish_tcp_tunnel has read are less than a chunk.  (Without a cipher the
\* socket may take less, which client.rs only asserts that it does not.)
FirstPacketWhole == "none" \notin Methods /\ FirstMax < MaxPacket /\ 2 <= MaxPacket

\* How many bytes the packets that were assembled carry.
Committed == copy.pos + IF writer.state = "Writing" THEN Written ELSE 0

Numbers(N, p) ==
    /\ N \in Numberings /\ p \in {0, 1}
    /\ \A x \in 0..LeadOf(conn) : N[x] = 0
    /\ \A x \in Nat : N[x] <= HeadOf(conn, p) + copy.cap

\* What was assembled is numbered, as far as it can still arrive; together it
\* carries the header and the bytes that CopyBuffer has passed on.
Unsent(N, p) ==
    /\ conn.method = "stream" => \A x \in 2..Assembled : N[x] = x - 2
    /\ Carries(conn, N, p, writer.buf, wire.read + Len(wire.q))
    /\ IF writer.greeted THEN N[Assembled] = HeadOf(conn, p) + Committed ELSE \A x \in Nat : N[x] = 0

Sender(N, p) ==
    /\ Numbers(N, p)
    /\ conn.method = "stream" => \A x \in 2..(wire.read + Len(wire.q)) : N[x] = x - 2
    /\ Carries(conn, N, p, wire.q, wire.read)
    /\ wire.state # "cut" => Unsent(N, p)

\* What was handed out are the first units, and what the reader holds the next.
HandedOut(p) == out \in Seq(Nat) /\ \A i \in 1..Len(out) : out[i] = Unit(conn, p, i)

Holds(N, p) ==
    CASE reader.state = "BufferedData" ->
            /\ \A i \in 1..Len(reader.buf) : reader.buf[i] = Unit(conn, p, Len(out) + i)
            /\ N[wire.read] = Len(out) + Len(reader.buf)
      [] reader.state = "ReadData" ->
            /\ Len(out) = N[UnitStart] /\ Carries(conn, N, p, reader.buf, UnitStart)
            /\ Spans(N, UnitStart, reader.plen)
      [] OTHER ->
            /\ Len(out) = N[UnitStart] /\ Carries(conn, N, p, reader.buf, UnitStart)
            /\ reader.state = "Read" => wire.read >= 2

Receiver(N, p) == end = "running" /\ (Chunked \/ ~wire.damaged) => HandedOut(p) /\ Holds(N, p)

\* What the writer has passed on of what CopyBuffer has read.
Account ==
    /\ writer.first => FromClient /\ copy.pos = 0 /\ copy.cap <= FirstMax
    /\ writer.first /\ writer.state # "Writing" => ~writer.greeted
    /\ writer.state = "First" => copy.cap = 0 /\ writer.first
    /\ ~writer.greeted => copy.pos = 0
    /\ FromClient /\ ~writer.first => writer.greeted
    /\ writer.state = "Closed" => copy.pos = copy.cap

\* What poll_write does with k tokens of the packet it works at.
WritesSome(k) ==
    /\ k > 0 \/ Fresh
    /\ wire' = [wire EXCEPT !.q = @ \o SubSeq(NextPacket, 1, k)]
    /\ IF k = Len(NextPacket) \/ (conn.method = "none" /\ k > 0)
       THEN /\ writer' = [writer EXCEPT !.state = "Assemble", !.first = FALSE, !.greeted = TRUE, !.buf = <<>>,
                                        !.ends = NextEnds]
            /\ copy' = [copy EXCEPT !.pos = @ + IF conn.method = "none" /\ ~writer.first THEN k ELSE Written]
       ELSE /\ writer' = [writer EXCEPT !.state = "Writing", !.greeted = TRUE,
                                        !.buf = SubSeq(NextPacket, k + 1, Len(NextPacket)), !.ends = NextEnds]
            /\ UNCHANGED copy

LEMMA PollWrites == PollWrite => \E k \in 0..Len(NextPacket) : WritesSome(k)
BY Zenon DEF PollWrite, Fresh, NextPayload, NextPacket, NextEnds, WritesSome

LEMMA AccountStarts == CipherInit => Account
<1> SUFFICES ASSUME CipherInit PROVE Account
    OBVIOUS
<1>1. /\ copy.pos = 0 /\ copy.cap = 0 /\ writer.first = FromClient /\ ~writer.greeted
      /\ writer.state = IF FromClient THEN "First" ELSE "Assemble"
    BY DEF CipherInit
<1>2. FromClient \in BOOLEAN
    BY DEF FromClient
<1> QED
    BY <1>1, <1>2, SizesAssumption DEF Account

LEMMA AccountKeeps == CausesInv /\ Account /\ [CipherNext]_cipherVars => Account'
<1> SUFFICES ASSUME CausesInv, Account, [CipherNext]_cipherVars PROVE Account'
    OBVIOUS
<1>0. copy \in Copies /\ writer \in Writers
    BY DEF CausesInv, CipherTypes
<1>1. CASE FirstRead
    <2>0. writer.state = "First" /\ UNCHANGED conn
        BY <1>1 DEF FirstRead
    <2>1. ASSUME NEW n \in 0..FirstMax, copy' = [copy EXCEPT !.cap = n], writer' = [writer EXCEPT !.state = "Assemble"]
          PROVE  Account'
        <3>1. /\ copy'.pos = copy.pos /\ copy'.cap = n /\ writer'.state = "Assemble"
              /\ writer'.first = writer.first /\ writer'.greeted = writer.greeted
            BY <1>0, <2>1 DEF Copies, Writers
        <3> QED
            BY <2>0, <2>1, <3>1, SizesAssumption DEF Account, FromClient
    <2>2. ASSUME copy' = [copy EXCEPT !.readDone = TRUE], writer' = [writer EXCEPT !.state = "Closed"]
          PROVE  Account'
        <3>1. /\ copy'.pos = copy.pos /\ copy'.cap = copy.cap /\ writer'.state = "Closed"
              /\ writer'.first = writer.first /\ writer'.greeted = writer.greeted
            BY <1>0, <2>2 DEF Copies, Writers
        <3> QED
            BY <2>0, <3>1 DEF Account, FromClient
    <2> QED
        BY <1>1, <2>1, <2>2 DEF FirstRead
<1>2. CASE CopyRead
    <2>0. writer.state = "Assemble" /\ ~writer.first /\ UNCHANGED <<conn, writer>>
        BY <1>2 DEF CopyRead
    <2>1. copy'.pos = copy.pos
        BY <1>0, <1>2 DEF CopyRead, Copies
    <2> QED
        BY <2>0, <2>1 DEF Account, FromClient
<1>3. CASE Shutdown
    <2>0. /\ writer' = [writer EXCEPT !.state = "Closed"] /\ UNCHANGED <<conn, copy>>
          /\ ~writer.first /\ copy.pos = copy.cap /\ writer.state = "Assemble"
        BY <1>3 DEF Shutdown
    <2>1. writer'.state = "Closed" /\ writer'.first = writer.first /\ writer'.greeted = writer.greeted
        BY <1>0, <2>0 DEF Writers
    <2> QED
        BY <2>0, <2>1 DEF Account, FromClient
<1>4. CASE PollWrite
    <2>0. UNCHANGED conn /\ writer.state \in {"Assemble", "Writing"}
        BY <1>4 DEF PollWrite
    <2>1. \/ writer'.state = "Assemble" /\ ~writer'.first /\ writer'.greeted
          \/ writer'.state = "Writing" /\ writer'.first = writer.first /\ writer'.greeted /\ copy' = copy
        <3>1. ASSUME NEW b, NEW e, writer' = [writer EXCEPT !.state = "Assemble", !.first = FALSE,
                                                            !.greeted = TRUE, !.buf = b, !.ends = e]
              PROVE  writer'.state = "Assemble" /\ ~writer'.first /\ writer'.greeted
            BY <1>0, <3>1 DEF Writers
        <3>2. ASSUME NEW b, NEW e, writer' = [writer EXCEPT !.state = "Writing", !.greeted = TRUE, !.buf = b, !.ends = e]
              PROVE  writer'.state = "Writing" /\ writer'.first = writer.first /\ writer'.greeted
            BY <1>0, <3>2 DEF Writers
        <3>3. PICK k \in 0..Len(NextPacket) : WritesSome(k)
            BY <1>4, PollWrites
        <3>4. CASE k = Len(NextPacket) \/ (conn.method = "none" /\ k > 0)
            BY <3>1, <3>3, <3>4 DEF WritesSome
        <3>5. CASE ~(k = Len(NextPacket) \/ (conn.method = "none" /\ k > 0))
            BY <3>2, <3>3, <3>5 DEF WritesSome
        <3> QED
            BY <3>4, <3>5
    <2> QED
        BY <2>0, <2>1 DEF Account, FromClient
<1>5. CASE UNCHANGED <<conn, copy, writer>>
    BY <1>5 DEF Account, FromClient
<1> QED
    BY <1>1, <1>2, <1>3, <1>4, <1>5 DEF CipherNext, Cut, Damage, PollRead, Deliver, ReadEof, cipherVars

-----------------------------------------------------------------------------
\* Facts that several steps need.
LEMMA SendTypes ==
    ASSUME CausesInv
    PROVE  /\ conn \in Connections /\ copy \in Copies /\ writer \in Writers /\ wire \in Wires
           /\ copy.pos \in Nat /\ copy.cap \in Nat /\ copy.pos <= copy.cap
           /\ wire.q \in Seq(Tokens) /\ wire.read \in Nat /\ Len(wire.q) \in Nat
           /\ writer.buf \in Seq(Tokens) /\ Len(writer.buf) \in Nat /\ writer.ends \in SUBSET Nat
           /\ writer.greeted \in BOOLEAN /\ writer.first \in BOOLEAN
           /\ (writer.state # "Writing" => writer.buf = <<>>) /\ Assembled \in Nat
BY DEF CausesInv, CipherTypes, CopyInOrder, WriterInOrder, Copies, Writers, Wires, Assembled

LEMMA Heads ==
    ASSUME NEW c, NEW p \in {0, 1}
    PROVE  HeadOf(c, p) \in Nat
BY DEF HeadOf

LEMMA Ciphered == FirstPacketWhole /\ conn \in Connections => conn.method \in {"stream", "aead", "aead2022"}
BY MethodsAssumption DEF FirstPacketWhole, Connections

LEMMA PendingUnits ==
    ASSUME copy \in Copies, copy.pos <= copy.cap
    PROVE  \A i \in 1..Len(Pending) : Pending[i] = copy.pos + i
BY PendingFacts DEF Pending, Copies

LEMMA TakenIs ==
    ASSUME NEW s \in Seq(Nat)
    PROVE  /\ \A i \in 1..Len(Taken(s)) : Taken(s)[i] = s[i]
           /\ ~Chunked \/ Len(s) <= MaxPacket => Taken(s) = s
<1> DEFINE n == IF Len(s) < MaxPacket THEN Len(s) ELSE MaxPacket
<1>1. n \in 0..Len(s)
    BY SizesAssumption
<1>2. Len(s) <= MaxPacket => n = Len(s)
    BY SizesAssumption
<1>3. Taken(s) = IF Chunked THEN SubSeq(s, 1, n) ELSE s
    BY DEF Taken
<1> HIDE DEF n
<1>4. Len(SubSeq(s, 1, n)) = n /\ \A i \in 1..n : SubSeq(s, 1, n)[i] = s[i]
    BY <1>1
<1>5. SubSeq(s, 1, Len(s)) = s
    OBVIOUS
<1> QED
    BY <1>2, <1>3, <1>4, <1>5

\* What the next packet is made of.
LEMMA FirstPayload ==
    ASSUME CausesInv, Account, FirstPacketWhole, writer.first
    PROVE  \E q \in {0, 1} :
              /\ NextPayload = FirstPacket(Pending)
              /\ Len(NextPayload) = HeadOf(conn, q) + copy.cap
              /\ \A i \in 1..Len(NextPayload) : NextPayload[i] = Unit(conn, q, i)
<1> DEFINE q == IF Is2022 /\ Pending = <<>> THEN 1 ELSE 0
           h == IF Is2022 /\ Pending = <<>> THEN <<Pad>> ELSE <<>>
           s == FirstPacket(Pending)
<1>0. /\ copy \in Copies /\ copy.pos = 0 /\ copy.cap <= FirstMax /\ conn.from = "client" /\ copy.pos <= copy.cap
      /\ copy.cap \in Nat
    BY SendTypes DEF Account, FromClient
<1>1. Pending \in Seq(Nat) /\ Len(Pending) = copy.cap /\ \A i \in 1..copy.cap : Pending[i] = i
    BY <1>0, PendingFacts, PendingUnits DEF Copies
<1>2. HeadOf(conn, q) = 1 + q /\ q \in {0, 1} /\ (q = 1 => copy.cap = 0)
    BY <1>0, <1>1 DEF HeadOf
<1>3. h \in Seq(Nat) /\ Len(h) = q /\ \A i \in 1..q : h[i] = Pad
    BY SizesAssumption DEF Pad
<1>4. s = <<Addr>> \o h \o Pending
    BY DEF FirstPacket
<1> HIDE DEF h, q
<1>5. <<Addr>> \o h \in Seq(Nat) /\ Len(<<Addr>> \o h) = 1 + q
    BY <1>2, <1>3 DEF Addr
<1>6. (<<Addr>> \o h)[1] = Addr /\ \A i \in 1..q : (<<Addr>> \o h)[1 + i] = Pad
    BY <1>2, <1>3 DEF Addr
<1>7. PICK e \in Seq(Nat) : e = <<Addr>> \o h
    BY <1>5
<1>8. s \in Seq(Nat) /\ Len(s) = 1 + q + copy.cap
    BY <1>1, <1>2, <1>4, <1>5, <1>7
<1>9. ASSUME NEW i \in 1..Len(s) PROVE s[i] = Unit(conn, q, i)
    <2>1. CASE i = 1
        BY <1>1, <1>2, <1>4, <1>5, <1>6, <1>7, <2>1 DEF Unit
    <2>2. CASE i > 1 /\ i <= 1 + q
        <3>1. i = 2 /\ q = 1
            BY <1>2, <2>2
        <3>2. s[i] = e[i]
            BY <1>1, <1>2, <1>4, <1>5, <1>7, <2>2
        <3>3. e[2] = Pad
            <4>1. 1 \in 1..q /\ 1 + 1 = 2
                BY <3>1
            <4> QED
                BY <1>6, <1>7, <4>1, Zenon
        <3> QED
            BY <1>2, <3>1, <3>2, <3>3 DEF Unit
    <2>3. CASE i > 1 + q
        <3>0. PICK j \in Nat : j = i - (1 + q)
            BY <1>2, <2>3
        <3>1. j \in 1..copy.cap /\ i = (1 + q) + j
            BY <1>0, <1>2, <1>8, <2>3, <3>0
        <3>2. Len(e) = 1 + q /\ Len(Pending) = copy.cap /\ s = e \o Pending
            BY <1>1, <1>4, <1>5, <1>7
        <3>3. (e \o Pending)[Len(e) + j] = Pending[j]
            BY <1>1, <1>7, <3>1, <3>2
        <3>4. s[i] = j
            BY <1>1, <3>1, <3>2, <3>3
        <3> QED
            BY <1>2, <2>3, <3>0, <3>4 DEF Unit
    <2> QED
        BY <1>2, <2>1, <2>2, <2>3
<1> HIDE DEF s
<1>10. Len(s) <= MaxPacket
    BY <1>0, <1>2, <1>8, SizesAssumption DEF FirstPacketWhole
<1>11. NextPayload = s
    <2>1. NextPayload = Taken(s)
        BY DEF NextPayload, s
    <2> QED
        BY <1>8, <1>10, <2>1, TakenIs
<1> QED
    BY <1>2, <1>8, <1>9, <1>11 DEF s

LEMMA NextUnits ==
    ASSUME CausesInv, Account, FirstPacketWhole, Fresh, wire.state # "cut", NEW N, NEW p, Sender(N, p)
    PROVE  \E q \in {0, 1} :
              /\ writer.greeted => q = p
              /\ N[Assembled] + Len(NextPayload) = HeadOf(conn, q) + copy.pos + Written
              /\ \A i \in 1..Len(NextPayload) : NextPayload[i] = Unit(conn, q, N[Assembled] + i)
<1>0. /\ copy \in Copies /\ copy.pos \in Nat /\ copy.cap \in Nat /\ copy.pos <= copy.cap
      /\ writer.greeted \in BOOLEAN /\ writer.first \in BOOLEAN /\ Assembled \in Nat
    BY SendTypes
<1>1. N \in Numberings /\ p \in {0, 1} /\ Unsent(N, p) /\ N[Assembled] \in Nat /\ HeadOf(conn, p) \in Nat
    BY <1>0, Heads DEF Sender, Numbers, Numberings
<1>2. Pending \in Seq(Nat) /\ Len(Pending) = copy.cap - copy.pos /\ \A i \in 1..Len(Pending) : Pending[i] = copy.pos + i
    BY <1>0, PendingFacts, PendingUnits
<1>3. CASE writer.first
    <2>1. PICK q \in {0, 1} : /\ NextPayload = FirstPacket(Pending)
                              /\ Len(NextPayload) = HeadOf(conn, q) + copy.cap
                              /\ \A i \in 1..Len(NextPayload) : NextPayload[i] = Unit(conn, q, i)
        BY <1>3, FirstPayload
    <2>2. ~writer.greeted /\ copy.pos = 0
        BY <1>3 DEF Account, Fresh
    <2>3. N[Assembled] = 0
        BY <1>0, <1>1, <2>2 DEF Unsent
    <2>4. Written = copy.cap
        BY <1>0, <1>2, <1>3, <2>2 DEF Written
    <2>5. HeadOf(conn, q) \in Nat
        BY Heads
    <2>6. \A i \in 1..Len(NextPayload) : 0 + i = i
        OBVIOUS
    <2>7. N[Assembled] + Len(NextPayload) = HeadOf(conn, q) + copy.pos + Written
        BY <1>0, <2>1, <2>2, <2>3, <2>4, <2>5
    <2> QED
        BY <2>1, <2>2, <2>3, <2>6, <2>7
<1>4. CASE ~writer.first
    <2>1. NextPayload = Taken(Pending)
        BY <1>4 DEF NextPayload
    <2>2. NextPayload \in Seq(Nat) /\ Len(NextPayload) <= Len(Pending)
        BY <1>2, <2>1, TakenFacts
    <2>3. \A i \in 1..Len(NextPayload) : NextPayload[i] = Pending[i]
        BY <1>2, <2>1, TakenIs
    <2>4. Written = Len(NextPayload)
        BY <1>4, <2>1 DEF Written
    <2>5. N[Assembled] = HeadOf(conn, p) + copy.pos
        <3>1. CASE writer.greeted
            BY <1>0, <1>1, <3>1 DEF Unsent, Committed, Fresh
        <3>2. CASE ~writer.greeted
            <4>1. ~FromClient /\ copy.pos = 0
                BY <1>4, <3>2 DEF Account
            <4>2. HeadOf(conn, p) = 0
                BY <4>1 DEF HeadOf, FromClient
            <4> QED
                BY <1>0, <1>1, <3>2, <4>1, <4>2 DEF Unsent
        <3> QED
            BY <3>1, <3>2
    <2>6. ASSUME NEW i \in 1..Len(NextPayload) PROVE NextPayload[i] = Unit(conn, p, N[Assembled] + i)
        <3>1. i \in 1..Len(Pending) /\ i \in Nat
            BY <1>2, <2>2
        <3>2. NextPayload[i] = copy.pos + i
            BY <1>2, <2>3, <3>1
        <3> QED
            BY <1>0, <1>1, <2>5, <3>1, <3>2 DEF Unit
    <2>7. N[Assembled] + Len(NextPayload) = HeadOf(conn, p) + copy.pos + Written
        BY <1>0, <1>1, <2>2, <2>4, <2>5
    <2> QED
        BY <1>1, <2>6, <2>7
<1> QED
    BY <1>0, <1>3, <1>4

\* What is known of a connection with a numbering of its places.
Numbered(N, p) == CausesInv /\ Account /\ Sender(N, p) /\ Receiver(N, p)

LEMMA StreamStarts == FirstPacketWhole /\ CipherInit => \E N, p : Numbered(N, p)
<1> SUFFICES ASSUME FirstPacketWhole, CipherInit PROVE \E N, p : Numbered(N, p)
    OBVIOUS
<1>1. CausesInv /\ Account
    BY CausesStarts, AccountStarts
<1>2. /\ wire.q = <<>> /\ wire.read = 0 /\ writer.buf = <<>> /\ ~writer.greeted /\ copy.cap = 0
      /\ out = <<>> /\ reader.buf = <<>> /\ reader.state \in {"WaitSalt", "ReadHeader"}
    BY Ciphered DEF CipherInit, Connections, NewReader, NewStreamReader, NewAeadReader, New2022Reader
<1>3. PICK N : N = [x \in Nat |-> 0]
    OBVIOUS
<1>4. N \in Numberings /\ \A x \in Nat : N[x] = 0
    BY <1>3 DEF Numberings
<1>5. LeadOf(conn) \in Nat /\ HeadOf(conn, 0) \in Nat
    BY LeadBounds, Heads
<1>6. Len(wire.q) = 0 /\ Len(writer.buf) = 0 /\ Len(reader.buf) = 0 /\ Len(out) = 0 /\ out \in Seq(Nat)
    BY <1>2
<1>7. Numbers(N, 0)
    BY <1>2, <1>4, <1>5 DEF Numbers
<1>8. Sender(N, 0)
    BY <1>2, <1>4, <1>6, <1>7, CarriesNothing DEF Sender, Unsent, Assembled
<1>9. UnitStart = 0
    <2>1. 0 - 0 = 0
        OBVIOUS
    <2> QED
        BY <1>2, <1>6, <2>1, Zenon DEF UnitStart
<1>10. Receiver(N, 0)
    BY <1>2, <1>4, <1>6, <1>9, CarriesNothing DEF Receiver, HandedOut, Holds
<1> QED
    BY <1>1, <1>8, <1>10 DEF Numbered

\* What the reader sees of the sender's steps: nothing.
LEMMA ReceiverSame ==
    ASSUME NEW N, NEW p, Receiver(N, p), UNCHANGED <<conn, reader, out, end>>,
           wire'.read = wire.read, wire'.damaged = wire.damaged
    PROVE  Receiver(N, p)'
<1>1. UnitStart' = UnitStart /\ Chunked' = Chunked
    BY DEF UnitStart, Chunked
<1> QED
    BY <1>1 DEF Receiver, HandedOut, Holds

\* A step of CopyBuffer, or the end of it.
LEMMA SourceSteps ==
    ASSUME NEW N, NEW p, Numbered(N, p), FirstRead \/ CopyRead \/ Shutdown
    PROVE  Sender(N, p)' /\ Receiver(N, p)'
<1>0. /\ conn \in Connections /\ copy \in Copies /\ writer \in Writers /\ wire \in Wires
      /\ copy.pos \in Nat /\ copy.cap \in Nat
    BY SendTypes DEF Numbered
<1>1. /\ UNCHANGED <<conn, reader, out, end>> /\ writer.state # "Writing"
    BY DEF FirstRead, CopyRead, Shutdown
<1>2. /\ wire'.q = wire.q /\ wire'.read = wire.read /\ wire'.damaged = wire.damaged
      /\ wire'.state # "cut" => wire.state # "cut"
    BY <1>0 DEF FirstRead, CopyRead, Shutdown, Wires
<1>3. /\ writer'.buf = writer.buf /\ writer'.greeted = writer.greeted /\ writer'.state # "Writing"
    BY <1>0, <1>1 DEF FirstRead, CopyRead, Shutdown, Writers
<1>4. copy'.pos = copy.pos /\ copy'.cap \in Nat /\ copy'.cap >= copy.cap
    <2>1. CASE FirstRead
        BY <1>0, <2>1, SizesAssumption DEF FirstRead, Copies
    <2>2. CASE CopyRead
        BY <1>0, <2>2, SizesAssumption DEF CopyRead, Copies
    <2>3. CASE Shutdown
        BY <1>0, <2>3 DEF Shutdown
    <2> QED
        BY <2>1, <2>2, <2>3
<1>5. Assembled' = Assembled /\ Committed' = Committed
    BY <1>1, <1>2, <1>3, <1>4 DEF Assembled, Committed
<1>6. Sender(N, p) /\ Receiver(N, p)
    BY DEF Numbered
<1>7. Numbers(N, p)'
    <2>1. Numbers(N, p) /\ HeadOf(conn, p) \in Nat
        BY <1>6, Heads DEF Sender, Numbers
    <2>2. \A x \in Nat : N[x] \in Nat
        BY <2>1 DEF Numbers, Numberings
    <2>3. \A x \in Nat : N[x] <= HeadOf(conn, p) + copy'.cap
        BY <1>0, <1>4, <2>1, <2>2 DEF Numbers
    <2> QED
        BY <1>1, <2>1, <2>3 DEF Numbers
<1>8. Sender(N, p)'
    BY <1>1, <1>2, <1>3, <1>5, <1>6, <1>7 DEF Sender, Unsent
<1> QED
    BY <1>1, <1>2, <1>6, <1>8, ReceiverSame

\* The network takes from what is on its way, or damages it.
LEMMA NetworkSteps ==
    ASSUME NEW N, NEW p, Numbered(N, p), Cut \/ Damage
    PROVE  Sender(N, p)' /\ Receiver(N, p)'
<1>0. /\ wire \in Wires /\ wire.q \in Seq(Tokens) /\ wire.read \in Nat /\ Len(wire.q) \in Nat
    BY SendTypes DEF Numbered
<1>1. UNCHANGED <<conn, copy, writer, reader, out, end>>
    BY DEF Cut, Damage
<1>2. Sender(N, p) /\ Receiver(N, p)
    BY DEF Numbered
<1>3. Numbers(N, p)'
    BY <1>1, <1>2 DEF Sender, Numbers
<1>4. CASE Cut
    <2>1. PICK n \in 0..Len(wire.q) : wire' = [wire EXCEPT !.q = SubSeq(@, 1, n), !.state = "cut"]
        BY <1>4 DEF Cut
    <2>2. /\ wire'.q = SubSeq(wire.q, 1, n) /\ wire'.state = "cut" /\ wire'.read = wire.read
          /\ wire'.damaged = wire.damaged
        BY <1>0, <2>1 DEF Wires
    <2>3. Len(wire'.q) = n
        BY <1>0, <2>2
    <2>4. Carries(conn, N, p, wire'.q, wire.read)
        BY <1>0, <1>2, <2>2, CarriesBegins DEF Sender
    <2>5. 2..(wire.read + n) \subseteq 2..(wire.read + Len(wire.q))
        BY <1>0
    <2>6. Sender(N, p)'
        BY <1>1, <1>2, <1>3, <2>2, <2>3, <2>4, <2>5 DEF Sender
    <2> QED
        BY <1>1, <1>2, <2>2, <2>6, ReceiverSame
<1>5. CASE Damage
    <2>1. PICK i \in DOMAIN wire.q : wire' = [wire EXCEPT !.q[i] = Bad, !.damaged = TRUE]
        BY <1>5 DEF Damage
    <2>2. /\ wire'.q = [wire.q EXCEPT ![i] = Bad] /\ wire'.state = wire.state /\ wire'.read = wire.read
          /\ wire'.damaged = TRUE
        BY <1>0, <2>1 DEF Wires
    <2>3. Len(wire'.q) = Len(wire.q) /\ \A j \in 1..Len(wire.q) : wire'.q[j] = wire.q[j] \/ wire'.q[j] = Bad
        BY <1>0, <2>2
    <2>4. Carries(conn, N, p, wire'.q, wire.read)
        BY <1>2, <2>3, BadPlaces DEF Sender, Carries
    <2>5. Assembled' = Assembled /\ Committed' = Committed
        BY <1>1, <2>2, <2>3 DEF Assembled, Committed, Written, Pending, Taken, Chunked
    <2>6. Sender(N, p)'
        BY <1>1, <1>2, <1>3, <2>2, <2>3, <2>4, <2>5 DEF Sender, Unsent
    <2>7. Receiver(N, p)'
        <3>1. CASE Chunked
            <4>1. UnitStart' = UnitStart
                BY <1>1, <2>2 DEF UnitStart
            <4> QED
                BY <1>1, <1>2, <2>2, <3>1, <4>1 DEF Receiver, HandedOut, Holds
        <3>2. CASE ~Chunked
            BY <1>1, <2>2, <3>2 DEF Receiver, Chunked
        <3> QED
            BY <3>1, <3>2
    <2> QED
        BY <2>6, <2>7
<1> QED
    BY <1>4, <1>5

\* What the writer has assembled ends with its last packet, and what the others
\* hold ends before.
LEMMA EndsBefore ==
    ASSUME CausesInv, conn.method # "none", wire.state # "cut"
    PROVE  /\ \A i \in 1..Len(wire.q) : Announces(wire.q[i]) => wire.read + i + wire.q[i][2] + 1 <= Assembled
           /\ end = "running" /\ reader.state # "BufferedData" =>
                 \A i \in 1..Len(reader.buf) :
                    Announces(reader.buf[i]) => UnitStart + i + reader.buf[i][2] + 1 <= Assembled
           /\ end = "running" /\ reader.state = "ReadData" =>
                 reader.plen \in Nat /\ UnitStart + reader.plen + 1 <= Assembled
<1>1. PacketsInOrder /\ WireInOrder
    BY DEF CausesInv, WriterInOrder
<1>2. \A e \in writer.ends : e <= Assembled
    BY <1>1 DEF PacketsInOrder
<1>3. \A i \in 1..Len(wire.q) : Announces(wire.q[i]) => wire.read + i + wire.q[i][2] + 1 \in writer.ends
    BY <1>1 DEF WireInOrder, Layout, TokenOK
<1>4. ASSUME end = "running", reader.state # "BufferedData", NEW i \in 1..Len(reader.buf), Announces(reader.buf[i])
      PROVE  UnitStart + i + reader.buf[i][2] + 1 \in writer.ends
    <2>1. Layout(conn, reader.buf, UnitStart, writer.ends, wire.damaged)
        BY <1>4 DEF CausesInv, ReaderInOrder, Held
    <2> QED
        BY <1>4, <2>1 DEF Layout, TokenOK
<1>5. end = "running" /\ reader.state = "ReadData" => reader.plen \in Nat /\ UnitStart + reader.plen + 1 \in writer.ends
    BY DEF CausesInv, ReaderInOrder, AtItsPlace
<1> QED
    BY <1>2, <1>3, <1>4, <1>5

LEMMA Starts ==
    ASSUME CausesInv, end = "running", reader.state # "BufferedData"
    PROVE  /\ UnitStart \in Nat /\ reader.buf \in Seq(Tokens) /\ Len(reader.buf) \in Nat
           /\ UnitStart + Len(reader.buf) = wire.read
<1>1. reader.buf \in Seq(Tokens) /\ Len(reader.buf) <= wire.read /\ wire.read \in Nat
    BY SendTypes DEF CausesInv, ReaderInOrder, Held
<1> QED
    BY <1>1 DEF UnitStart

\* The part of a packet that goes out, and the part that stays.
LEMMA SomeGoesOut ==
    ASSUME NEW N, NEW p, CausesInv, wire.state = "open", conn.method # "none", NEW M, NEW q, NEW k \in 0..Len(NextPacket),
           WritesSome(k), UNCHANGED conn,
           Numbers(M, q), NextPacket \in Seq(Tokens),
           conn.method = "stream" =>
              \A x \in 2..(wire.read + Len(wire.q) + Len(NextPacket)) : M[x] = x - 2,
           Carries(conn, M, q, wire.q, wire.read),
           Carries(conn, M, q, NextPacket, wire.read + Len(wire.q)),
           M[wire.read + Len(wire.q) + Len(NextPacket)] = HeadOf(conn, q) + copy.pos + Written
    PROVE  Sender(M, q)'
<1>0. /\ conn \in Connections /\ copy \in Copies /\ writer \in Writers /\ wire \in Wires
      /\ copy.pos \in Nat /\ copy.cap \in Nat /\ wire.q \in Seq(Tokens) /\ wire.read \in Nat /\ Len(wire.q) \in Nat
    BY SendTypes
<1> DEFINE a == SubSeq(NextPacket, 1, k)
           b == SubSeq(NextPacket, k + 1, Len(NextPacket))
           r == wire.read + Len(wire.q)
           n == Len(NextPacket)
<1>1. n \in Nat /\ r \in Nat /\ a \in Seq(Tokens) /\ b \in Seq(Tokens) /\ Len(a) = k /\ Len(b) = n - k /\ (k = n => b = <<>>)
    BY <1>0
<1>2. Carries(conn, M, q, a, r) /\ Carries(conn, M, q, b, r + k)
    BY <1>1, CarriesBegins, CarriesGoesOn
<1>3. /\ wire'.q = wire.q \o a /\ wire'.read = wire.read /\ wire'.state = "open"
    BY <1>0 DEF WritesSome, Wires
<1>4. writer'.greeted /\ writer'.buf = b /\ copy'.cap = copy.cap /\ Committed' = copy.pos + Written
    <2>1. CASE k = Len(NextPacket)
        <3>0. copy' = [copy EXCEPT !.pos = @ + Written]
            BY <2>1 DEF WritesSome
        <3>1. copy'.pos = copy.pos + Written /\ copy'.cap = copy.cap
            BY <1>0, <3>0 DEF Copies
        <3>2. writer'.state = "Assemble" /\ writer'.greeted /\ writer'.buf = <<>>
            BY <1>0, <2>1 DEF WritesSome, Writers
        <3>3. Written \in Nat
            <4>1. Pending \in Seq(Nat)
                BY <1>0, PendingFacts DEF CausesInv, CopyInOrder
            <4>2. Taken(Pending) \in Seq(Nat)
                BY <4>1, TakenFacts
            <4> QED
                BY <4>1, <4>2 DEF Written
        <3> QED
            BY <1>0, <1>1, <2>1, <3>1, <3>2, <3>3 DEF Committed
    <2>2. CASE k # Len(NextPacket)
        <3>1. writer'.state = "Writing" /\ writer'.greeted /\ writer'.buf = b /\ writer'.first = writer.first /\ copy' = copy
            BY <1>0, <2>2 DEF WritesSome, Writers
        <3>2. Written' = Written
            BY <3>1 DEF Written, Pending, Taken, Chunked
        <3> QED
            BY <3>1, <3>2 DEF Committed
    <2> QED
        BY <2>1, <2>2
<1> HIDE DEF a, b
<1>5. Len(wire'.q) = Len(wire.q) + k /\ wire'.read + Len(wire'.q) = r + k
    <2>1. Len(wire'.q) = Len(wire.q) + k
        <3>1. \A u, v : u \in Seq(Tokens) /\ v \in Seq(Tokens) => Len(u \o v) = Len(u) + Len(v)
            OBVIOUS
        <3> QED
            BY <1>0, <1>1, <1>3, <3>1, Zenon
    <2> QED
        BY <1>0, <1>3, <2>1
<1>6. Assembled' = r + n
    <2>1. Assembled' = (r + k) + Len(b)
        BY <1>4, <1>5 DEF Assembled
    <2> HIDE DEF r, n
    <2> QED
        BY <1>1, <2>1
<1>7. Carries(conn, M, q, wire'.q, wire.read)
    BY <1>0, <1>1, <1>2, <1>3, CarriesJoins
<1>8. Numbers(M, q)'
    BY <1>4 DEF Numbers
<1>9. 2..(r + k) \subseteq 2..(r + n)
    BY <1>1
<1>10. HeadOf(conn, q) + copy.pos + Written = HeadOf(conn, q) + (copy.pos + Written)
    <2>1. HeadOf(conn, q) \in Nat /\ Written \in Nat
        <3>1. Pending \in Seq(Nat)
            BY <1>0, PendingFacts DEF CausesInv, CopyInOrder
        <3>2. Taken(Pending) \in Seq(Nat)
            BY <3>1, TakenFacts
        <3> QED
            BY <3>1, <3>2, Heads DEF Written, Numbers
    <2> QED
        BY <1>0, <2>1
<1>11. Unsent(M, q)'
    BY <1>2, <1>4, <1>5, <1>6, <1>10 DEF Unsent
<1> HIDE DEF r, n
<1> QED
    BY <1>3, <1>5, <1>7, <1>8, <1>9, <1>11 DEF Sender, r, n

\* A packet half written goes on.
LEMMA RestGoesOut ==
    ASSUME NEW N, NEW p, Numbered(N, p), PollWrite, ~Fresh, conn.method # "none"
    PROVE  Sender(N, p)' /\ Receiver(N, p)'
<1>1. PICK k \in 0..Len(NextPacket) : WritesSome(k)
    BY PollWrites
<1>2. /\ wire.state = "open" /\ writer.state = "Writing" /\ UNCHANGED <<conn, reader, out, end, filter>>
      /\ NextPacket = writer.buf
    BY DEF PollWrite, Fresh, NextPacket
<1>3. CausesInv /\ Sender(N, p) /\ Receiver(N, p) /\ wire \in Wires
    BY SendTypes DEF Numbered
<1>4. Unsent(N, p) /\ writer.greeted /\ NextPacket \in Seq(Tokens)
    BY <1>2, <1>3, SendTypes DEF Sender, CausesInv, WriterInOrder
<1>5. Assembled = wire.read + Len(wire.q) + Len(NextPacket)
    BY <1>2 DEF Assembled
<1>6. HeadOf(conn, p) + (copy.pos + Written) = HeadOf(conn, p) + copy.pos + Written
    <2>1. HeadOf(conn, p) \in Nat /\ copy.pos \in Nat /\ Written \in Nat
        <3>1. Pending \in Seq(Nat)
            BY <1>3, SendTypes, PendingFacts
        <3>2. Taken(Pending) \in Seq(Nat)
            BY <3>1, TakenFacts
        <3> QED
            BY <1>3, <3>1, <3>2, Heads, SendTypes DEF Written, Numbers, Sender
    <2> QED
        BY <2>1
<1>7. N[wire.read + Len(wire.q) + Len(NextPacket)] = HeadOf(conn, p) + copy.pos + Written
    BY <1>2, <1>4, <1>5, <1>6 DEF Unsent, Committed
<1>8. Carries(conn, N, p, NextPacket, wire.read + Len(wire.q))
    BY <1>2, <1>4 DEF Unsent
<1>9. conn.method = "stream" => \A x \in 2..(wire.read + Len(wire.q) + Len(NextPacket)) : N[x] = x - 2
    BY <1>4, <1>5 DEF Unsent
<1>10. Sender(N, p)'
    BY <1>1, <1>2, <1>3, <1>4, <1>7, <1>8, <1>9, SomeGoesOut DEF Sender
<1>11. wire'.read = wire.read /\ wire'.damaged = wire.damaged
    BY <1>1, <1>3 DEF WritesSome, Wires
<1> QED
    BY <1>2, <1>3, <1>10, <1>11, ReceiverSame

\* Before the first packet there is nothing at the receiving side either.
LEMMA NothingYet ==
    ASSUME NEW N, NEW p, Numbered(N, p), ~writer.greeted, wire.state # "cut", conn.method # "none"
    PROVE  /\ Assembled = 0 /\ wire.q = <<>> /\ wire.read = 0
           /\ end = "running" /\ (Chunked \/ ~wire.damaged) =>
                 out = <<>> /\ reader.buf = <<>> /\ reader.state \notin {"BufferedData", "ReadData", "Read"}
<1>0. /\ CausesInv /\ Sender(N, p) /\ Receiver(N, p)
      /\ wire.q \in Seq(Tokens) /\ wire.read \in Nat /\ Len(wire.q) \in Nat
      /\ writer.buf \in Seq(Tokens) /\ Len(writer.buf) \in Nat
    BY SendTypes DEF Numbered
<1>1. Assembled = 0 /\ writer.ends = {0}
    BY <1>0 DEF CausesInv, WriterInOrder, PacketsInOrder
<1>2. wire.read = 0 /\ Len(wire.q) = 0
    BY <1>0, <1>1 DEF Assembled
<1>3. wire.q = <<>>
    BY <1>0, <1>2
<1>4. ASSUME end = "running", Chunked \/ ~wire.damaged
      PROVE  out = <<>> /\ reader.buf = <<>> /\ reader.state \notin {"BufferedData", "ReadData", "Read"}
    <2>1. HandedOut(p) /\ Holds(N, p) /\ AtItsPlace
        BY <1>0, <1>4 DEF Receiver, CausesInv, ReaderInOrder
    <2>2. reader.state # "BufferedData"
        BY <1>2, <2>1 DEF AtItsPlace
    <2>3. reader.state # "ReadData"
        <3>1. reader.state = "ReadData" => reader.plen \in Nat /\ UnitStart + reader.plen + 1 \in {0}
            BY <1>1, <2>1 DEF AtItsPlace
        <3>2. UnitStart \in Nat
            BY <1>0, <1>4, <2>2, Starts
        <3> QED
            BY <3>1, <3>2
    <2>4. reader.state # "Read"
        BY <1>2, <2>1 DEF Holds
    <2>5. UnitStart = 0 /\ Len(reader.buf) = 0 /\ reader.buf \in Seq(Tokens)
        BY <1>0, <1>2, <1>4, <2>2, Starts
    <2>6. Len(out) = N[0] /\ out \in Seq(Nat)
        BY <2>1, <2>2, <2>3, <2>5 DEF Holds, HandedOut
    <2>7. N[0] = 0
        BY <1>0, LeadBounds DEF Sender, Numbers
    <2> QED
        BY <2>2, <2>3, <2>4, <2>5, <2>6, <2>7
<1> QED
    BY <1>1, <1>2, <1>3, <1>4

\* A fresh packet: the places behind everything get its numbers.
LEMMA FreshGoesOut ==
    ASSUME NEW N, NEW p, Numbered(N, p), PollWrite, Fresh, FirstPacketWhole
    PROVE  \E M, q : Sender(M, q)' /\ Receiver(M, q)'
<1>1. PICK k \in 0..Len(NextPacket) : WritesSome(k)
    BY PollWrites
<1>2. /\ wire.state = "open" /\ writer.state = "Assemble" /\ UNCHANGED <<conn, reader, out, end, filter>>
    BY DEF PollWrite, Fresh
<1>3. CausesInv /\ Account /\ Sender(N, p) /\ Receiver(N, p) /\ Numbers(N, p) /\ Unsent(N, p)
    BY <1>2 DEF Numbered, Sender
<1>4. /\ conn \in Connections /\ copy \in Copies /\ wire \in Wires
      /\ copy.pos \in Nat /\ copy.cap \in Nat /\ copy.pos <= copy.cap
      /\ wire.q \in Seq(Tokens) /\ wire.read \in Nat /\ Len(wire.q) \in Nat
      /\ writer.greeted \in BOOLEAN /\ writer.buf = <<>>
    BY <1>2, <1>3, SendTypes
<1>5. conn.method \in {"stream", "aead", "aead2022"} /\ conn.method # "none"
    BY <1>4, Ciphered
<1> DEFINE A == wire.read + Len(wire.q)
           n == Len(NextPayload)
<1>6. A \in Nat /\ Assembled = A
    BY <1>4 DEF Assembled
<1>7. NextPayload \in Seq(Nat) /\ n \in Nat
    <2>1. Pending \in Seq(Nat)
        BY <1>4, PendingFacts
    <2>2. NextPayload \in Seq(Nat)
        BY <2>1, FirstPacketFacts, TakenFacts DEF NextPayload
    <2> QED
        BY <2>2
<1>8. PICK q \in {0, 1} :
         /\ writer.greeted => q = p
         /\ N[A] + n = HeadOf(conn, q) + copy.pos + Written
         /\ \A i \in 1..n : NextPayload[i] = Unit(conn, q, N[A] + i)
    BY <1>2, <1>3, <1>6, NextUnits
<1>9. PICK l \in Nat :
         /\ Shape(Packet(NextPayload), l, NextPayload)
         /\ ~writer.greeted => l = LeadOf(conn)
         /\ conn.method = "stream" /\ writer.greeted => l = 0
         /\ Chunked => Len(Packet(NextPayload)) = l + Len(NextPayload) + 1
         /\ ~Chunked => Len(Packet(NextPayload)) = l + Len(NextPayload)
    BY <1>4, <1>5, <1>7, PacketShape
<1>10. NextPacket = Packet(NextPayload) /\ NextPacket \in Seq(Tokens)
    BY <1>2, <1>3, NextPacketFacts DEF NextPacket
<1> HIDE DEF A, n
<1>11. PICK M : M = Extended(N, A, l, n)
    OBVIOUS
<1>12. Extends(M, N, A, l, n)
    BY <1>3, <1>6, <1>7, <1>11, ExtendedFacts DEF Numbers
<1>13. /\ M \in Numberings /\ N \in Numberings /\ N[A] \in Nat
       /\ \A x \in 0..A : M[x] = N[x]
       /\ \A x \in Nat : A <= x /\ x <= A + l => M[x] = N[A]
       /\ \A x \in Nat : A + l <= x /\ x <= A + l + n => M[x] = N[A] + (x - (A + l))
       /\ \A x \in Nat : x >= A + l + n => M[x] = N[A] + n
       /\ \A x \in Nat : M[x] <= N[A] + n \/ (x <= A /\ M[x] = N[x])
    BY <1>3, <1>6, <1>12 DEF Extends, Numbers, Numberings
<1>14. ~writer.greeted => A = 0 /\ N[A] = 0 /\ wire.q = <<>> /\ wire.read = 0
    BY <1>2, <1>3, <1>5, <1>6, NothingYet DEF Unsent
<1>15. writer.greeted => A >= LeadOf(conn)
    BY <1>2, <1>3, <1>5, <1>6 DEF CausesInv, WriterInOrder, PacketsInOrder
<1>16. LeadOf(conn) \in Nat /\ LeadOf(conn) >= 2 /\ HeadOf(conn, q) \in Nat
    BY LeadBounds, Heads
<1>17. Written \in 0..(copy.cap - copy.pos)
    <2>1. Pending \in Seq(Nat) /\ Len(Pending) = copy.cap - copy.pos
        BY <1>4, PendingFacts
    <2>2. Taken(Pending) \in Seq(Nat) /\ Len(Taken(Pending)) <= Len(Pending)
        BY <2>1, TakenFacts
    <2> QED
        BY <2>1, <2>2 DEF Written
<1>18. Numbers(M, q)
    <2>1. ASSUME NEW x \in 0..LeadOf(conn) PROVE M[x] = 0
        <3>1. CASE writer.greeted
            <4>1. x \in 0..A
                BY <1>6, <1>15, <1>16, <3>1
            <4>2. N[x] = 0
                BY <1>3 DEF Numbers
            <4> QED
                BY <1>13, <4>1, <4>2
        <3>2. CASE ~writer.greeted
            <4>1. x \in Nat /\ A <= x /\ x <= A + l
                BY <1>9, <1>14, <1>16, <3>2
            <4> QED
                BY <1>13, <1>14, <3>2, <4>1
        <3> QED
            BY <1>4, <3>1, <3>2
    <2>2. ASSUME NEW x \in Nat PROVE M[x] <= HeadOf(conn, q) + copy.cap
        <3>1. N[A] + n <= HeadOf(conn, q) + copy.cap
            BY <1>4, <1>8, <1>16, <1>17
        <3>2. M[x] \in Nat /\ N[x] \in Nat
            BY <1>13 DEF Numberings
        <3>3. CASE M[x] <= N[A] + n
            <4>0. M[x] \in Nat /\ N[A] + n \in Nat /\ HeadOf(conn, q) + copy.cap \in Nat
                <5>1. N[A] \in Nat /\ M[x] \in Nat
                    BY <1>13, <3>2
                <5>2. N[A] + n \in Nat
                    BY <1>7, <5>1
                <5>3. HeadOf(conn, q) + copy.cap \in Nat
                    BY <1>4, <1>16
                <5> QED
                    BY <5>1, <5>2, <5>3
            <4>1. PICK a \in Nat, b \in Nat, d \in Nat : a = M[x] /\ b = N[A] + n /\ d = HeadOf(conn, q) + copy.cap
                BY <4>0
            <4>2. a <= b /\ b <= d
                BY <3>1, <3>3, <4>1
            <4>3. a <= d
                BY <4>2
            <4> QED
                BY <4>1, <4>3
        <3>4. CASE x <= A /\ M[x] = N[x]
            <4>1. CASE writer.greeted
                BY <1>3, <1>8, <3>4, <4>1 DEF Numbers
            <4>2. CASE ~writer.greeted
                <5>1. N[x] = 0
                    BY <1>3, <4>2 DEF Unsent
                <5> QED
                    BY <1>4, <1>16, <3>4, <5>1
            <4> QED
                BY <1>4, <4>1, <4>2
        <3> QED
            BY <1>13, <3>3, <3>4
    <2> QED
        BY <1>13, <2>1, <2>2 DEF Numbers
<1>19. Len(NextPacket) \in Nat /\ Len(NextPacket) >= l + n /\ A + Len(NextPacket) >= A + l + n
    BY <1>6, <1>7, <1>9, <1>10 DEF n
<1>20. M[A + Len(NextPacket)] = HeadOf(conn, q) + copy.pos + Written
    <2>1. A + Len(NextPacket) \in Nat
        BY <1>6, <1>19
    <2> QED
        BY <1>8, <1>13, <1>19, <2>1
<1>21. Carries(conn, M, q, NextPacket, A)
    <2>1. Shape(NextPacket, l, NextPayload) /\ Extends(M, N, A, l, Len(NextPayload))
        BY <1>9, <1>10, <1>12 DEF n
    <2>2. \A i \in 1..Len(NextPayload) : NextPayload[i] = Unit(conn, q, N[A] + i)
        BY <1>8 DEF n
    <2> QED
        BY <1>6, <1>7, <1>13, <2>1, <2>2, ShapeCarries
<1>22. Carries(conn, M, q, wire.q, wire.read)
    <2>1. CASE writer.greeted
        <3>1. Carries(conn, N, p, wire.q, wire.read)
            BY <1>3 DEF Sender
        <3>2. \A i \in 1..Len(wire.q) : Announces(wire.q[i]) => wire.read + i + wire.q[i][2] + 1 <= A
            BY <1>2, <1>3, <1>5, <1>6, EndsBefore
        <3>3. wire.read + Len(wire.q) <= A
            BY <1>6 DEF A
        <3>4. Carries(conn, M, p, wire.q, wire.read)
            <4>1. \A x \in 0..A : M[x] = N[x]
                BY <1>13
            <4>2. A \in Nat /\ wire.q \in Seq(Tokens) /\ wire.read \in Nat
                BY <1>4, <1>6
            <4> QED
                BY <3>1, <3>2, <3>3, <4>1, <4>2, CarriesAlike
        <3> QED
            BY <1>8, <2>1, <3>4
    <2>2. CASE ~writer.greeted
        BY <1>14, <2>2, CarriesNothing
    <2> QED
        BY <1>4, <2>1, <2>2
<1>23. conn.method = "stream" => \A x \in 2..(A + Len(NextPacket)) : M[x] = x - 2
    <2> SUFFICES ASSUME conn.method = "stream", NEW x \in 2..(A + Len(NextPacket)) PROVE M[x] = x - 2
        OBVIOUS
    <2>0. LeadOf(conn) = 2 /\ ~Chunked
        BY DEF LeadOf, Chunked
    <2>1. Len(NextPacket) = l + n /\ x \in Nat /\ 2 <= x /\ x <= A + (l + n)
        BY <1>6, <1>7, <1>9, <1>10, <2>0 DEF n
    <2>2. CASE writer.greeted
        <3>1. l = 0 /\ A >= 2
            BY <1>9, <1>15, <2>0, <2>2
        <3>2. \A y \in 2..A : N[y] = y - 2
            BY <1>3, <1>6 DEF Unsent
        <3>3. CASE x <= A
            BY <1>6, <1>13, <2>1, <3>2, <3>3
        <3>4. CASE x > A
            <4>1. N[A] = A - 2
                BY <1>6, <3>1, <3>2
            <4>2. A + l <= x /\ x <= A + l + n
                BY <1>6, <1>7, <2>1, <3>1, <3>4
            <4>3. M[x] = N[A] + (x - (A + l))
                BY <1>13, <2>1, <4>2
            <4> QED
                BY <1>6, <2>1, <3>1, <4>1, <4>3
        <3> QED
            BY <1>6, <2>1, <3>3, <3>4
    <2>3. CASE ~writer.greeted
        <3>1. l = 2 /\ A = 0 /\ N[A] = 0
            BY <1>9, <1>14, <2>0, <2>3
        <3>2. A + l <= x /\ x <= A + l + n
            BY <1>7, <2>1, <3>1
        <3>3. M[x] = N[A] + (x - (A + l))
            BY <1>13, <2>1, <3>2
        <3> QED
            BY <2>1, <3>1, <3>3
    <2> QED
        BY <1>4, <2>2, <2>3
<1>24. Sender(M, q)'
    BY <1>1, <1>2, <1>3, <1>5, <1>10, <1>18, <1>20, <1>21, <1>22, <1>23, SomeGoesOut DEF A
<1>25. Receiver(M, q)
    <2> SUFFICES ASSUME end = "running", Chunked \/ ~wire.damaged PROVE HandedOut(q) /\ Holds(M, q)
        BY DEF Receiver
    <2>1. HandedOut(p) /\ Holds(N, p)
        BY <1>3 DEF Receiver
    <2>2. CASE ~writer.greeted
        <3>1. /\ out = <<>> /\ reader.buf = <<>> /\ reader.state \notin {"BufferedData", "ReadData", "Read"}
              /\ wire.read = 0
            BY <1>2, <1>5, <2>2, NothingYet
        <3>2. UnitStart \in Nat /\ UnitStart + Len(reader.buf) = 0 /\ Len(reader.buf) = 0
            BY <1>3, <3>1, Starts
        <3>3. UnitStart = 0
            BY <3>2
        <3>4. M[0] = 0
            BY <1>16, <1>18 DEF Numbers
        <3>5. Len(out) = 0 /\ out \in Seq(Nat)
            BY <3>1
        <3>6. Carries(conn, M, q, reader.buf, UnitStart)
            BY <3>1, CarriesNothing
        <3> QED
            BY <3>1, <3>3, <3>4, <3>5, <3>6 DEF HandedOut, Holds
    <2>3. CASE writer.greeted
        <3>0. q = p
            BY <1>8, <2>3
        <3>1. wire.read \in 0..A
            BY <1>4, <1>6 DEF A
        <3>2. CASE reader.state = "BufferedData"
            <4>1. M[wire.read] = N[wire.read]
                BY <1>13, <3>1
            <4> QED
                BY <2>1, <3>0, <3>2, <4>1 DEF Holds
        <3>3. CASE reader.state # "BufferedData"
            <4>1. /\ UnitStart \in Nat /\ reader.buf \in Seq(Tokens) /\ Len(reader.buf) \in Nat
                  /\ UnitStart + Len(reader.buf) = wire.read
                BY <1>3, <3>3, Starts
            <4>2. UnitStart \in 0..A /\ UnitStart + Len(reader.buf) <= A
                BY <1>6, <3>1, <4>1
            <4>3. M[UnitStart] = N[UnitStart]
                BY <1>13, <4>2
            <4>4. \A i \in 1..Len(reader.buf) :
                     Announces(reader.buf[i]) => UnitStart + i + reader.buf[i][2] + 1 <= A
                BY <1>2, <1>3, <1>5, <1>6, <3>3, EndsBefore
            <4>5. Carries(conn, N, p, reader.buf, UnitStart)
                BY <2>1, <3>3 DEF Holds
            <4>6. Carries(conn, M, p, reader.buf, UnitStart)
                <5>1. \A x \in 0..A : M[x] = N[x]
                    BY <1>13
                <5> QED
                    BY <1>6, <4>1, <4>2, <4>4, <4>5, <5>1, CarriesAlike
            <4>7. ASSUME reader.state = "ReadData" PROVE Spans(M, UnitStart, reader.plen)
                <5>1. reader.plen \in Nat /\ UnitStart + reader.plen + 1 <= A
                    BY <1>2, <1>3, <1>5, <1>6, <4>7, EndsBefore
                <5>2. PICK u \in Nat, m \in Nat : u = UnitStart /\ m = reader.plen
                    BY <4>1, <5>1
                <5>3. u + m + 1 \in 0..A /\ u \in 0..A /\ \A i \in 0..m : u + i \in 0..A
                    BY <1>6, <5>1, <5>2
                <5>4. Spans(N, u, m)
                    BY <2>1, <4>7, <5>2 DEF Holds
                <5>5. Spans(M, u, m)
                    BY <1>13, <5>3, <5>4 DEF Spans
                <5> QED
                    BY <5>2, <5>5
            <4> QED
                BY <2>1, <3>0, <3>3, <4>3, <4>6, <4>7 DEF Holds
        <3> QED
            BY <2>1, <3>0, <3>2, <3>3
    <2> QED
        BY <1>4, <2>2, <2>3
<1>26. wire'.read = wire.read /\ wire'.damaged = wire.damaged
    BY <1>1, <1>4 DEF WritesSome, Wires
<1> QED
    BY <1>2, <1>24, <1>25, <1>26, ReceiverSame

\* What a poll of the socket takes off the wire: the sender's side keeps its
\* numbers.
LEMMA SenderRead ==
    ASSUME NEW N, NEW p, Numbered(N, p), UNCHANGED <<conn, copy, writer>>, NEW k \in Nat, NEW buf, Polls(k, buf)
    PROVE  Sender(N, p)'
<1>0. /\ wire \in Wires /\ wire.q \in Seq(Tokens) /\ wire.read \in Nat /\ Len(wire.q) \in Nat /\ k \in 0..Len(wire.q)
      /\ writer.buf \in Seq(Tokens) /\ Len(writer.buf) \in Nat
    BY SendTypes DEF Numbered, Polls
<1> DEFINE b == SubSeq(wire.q, k + 1, Len(wire.q))
<1>1. b \in Seq(Tokens) /\ Len(b) = Len(wire.q) - k
    BY <1>0
<1>2. Sender(N, p)
    BY DEF Numbered
<1>3. Carries(conn, N, p, b, wire.read + k)
    BY <1>0, <1>2, CarriesGoesOn DEF Sender
<1> HIDE DEF b
<1>4. wire'.q = b /\ wire'.read = wire.read + k /\ wire'.state = wire.state
    BY <1>0 DEF Polls, Wires, b
<1>5. wire'.read + Len(wire'.q) = wire.read + Len(wire.q)
    BY <1>0, <1>1, <1>4
<1>6. Assembled' = Assembled /\ Committed' = Committed
    BY <1>5 DEF Assembled, Committed, Written, Pending, Taken, Chunked
<1>7. Numbers(N, p)' /\ Carries(conn, N, p, wire'.q, wire'.read)
    BY <1>2, <1>3, <1>4 DEF Sender, Numbers
<1> QED
    BY <1>2, <1>4, <1>5, <1>6, <1>7 DEF Sender, Unsent

\* The unit it belongs to carries what its places do.
LEMMA UnitCarries ==
    ASSUME NEW N, NEW p, Numbered(N, p), end = "running", Chunked \/ ~wire.damaged, reader.state # "BufferedData",
           NEW k \in Nat, NEW buf, Polls(k, buf)
    PROVE  Carries(conn, N, p, buf, UnitStart)
<1>0. /\ wire.q \in Seq(Tokens) /\ Len(wire.q) \in Nat /\ k \in 0..Len(wire.q) /\ CausesInv
    BY SendTypes DEF Numbered, Polls
<1>1. /\ UnitStart \in Nat /\ reader.buf \in Seq(Tokens) /\ Len(reader.buf) \in Nat
      /\ UnitStart + Len(reader.buf) = wire.read
    BY <1>0, Starts
<1>2. Carries(conn, N, p, wire.q, wire.read) /\ Carries(conn, N, p, reader.buf, UnitStart)
    BY DEF Numbered, Sender, Receiver, Holds
<1>3. PICK a \in Seq(Tokens) : a = SubSeq(wire.q, 1, k)
    <2>1. SubSeq(wire.q, 1, k) \in Seq(Tokens)
        BY <1>0
    <2> QED
        BY <2>1
<1>4. Carries(conn, N, p, a, UnitStart + Len(reader.buf))
    <2>1. wire.read \in Nat
        BY <1>0, SendTypes
    <2> QED
        BY <1>0, <1>1, <1>2, <1>3, <2>1, CarriesBegins
<1> QED
    BY <1>1, <1>2, <1>3, <1>4, CarriesJoins DEF Polls

\* What each state of the reader makes of a unit.
Unread(N, p, buf) ==
    /\ Numbered(N, p) /\ end = "running" /\ (Chunked \/ ~wire.damaged) /\ reader.state # "BufferedData"
    /\ UnitRead(buf) /\ Carries(conn, N, p, buf, UnitStart)

LEMMA UnreadFacts ==
    ASSUME NEW N, NEW p, NEW buf, Unread(N, p, buf)
    PROVE  /\ CausesInv /\ IsReader(reader) /\ AtItsPlace /\ HandedOut(p) /\ Holds(N, p) /\ Numbers(N, p)
           /\ N \in Numberings /\ UNCHANGED conn /\ conn \in Connections
           /\ buf \in Seq(Tokens) /\ Len(buf) >= 1 /\ UnitStart \in Nat /\ wire'.read = UnitStart + Len(buf)
           /\ Len(out) = N[UnitStart] /\ N[UnitStart] \in Nat
           /\ wire'.damaged = wire.damaged
<1>1. CausesInv /\ end = "running" /\ UnitRead(buf) /\ HandedOut(p) /\ Holds(N, p) /\ Numbers(N, p) /\ N \in Numberings
    BY DEF Unread, Numbered, Receiver, Sender, Numbers
<1>2. /\ IsReader(reader) /\ AtItsPlace /\ conn \in Connections
      /\ buf \in Seq(Tokens) /\ Len(buf) >= 1 /\ UnitStart \in Nat /\ wire'.read = UnitStart + Len(buf)
    BY <1>1, WhileReading
<1>3. Len(out) = N[UnitStart]
    BY <1>1 DEF Unread, Holds
<1> QED
    BY <1>1, <1>2, <1>3 DEF UnitRead, Numberings

\* Nothing is handed out while a reader goes on to the next state.
LEMMA HoldsNothing ==
    ASSUME NEW N, NEW p, NEW buf, Unread(N, p, buf), reader'.buf = <<>>, out' = out,
           reader'.state \notin {"BufferedData", "ReadData"}, N[wire'.read] = N[UnitStart],
           reader'.state = "Read" => wire'.read >= 2
    PROVE  Receiver(N, p)'
<1>1. HandedOut(p) /\ UNCHANGED conn /\ Len(out) = N[UnitStart] /\ UnitStart \in Nat /\ wire'.read = UnitStart + Len(buf) /\ Len(buf) \in Nat
    BY UnreadFacts
<1>2. Len(reader'.buf) = 0
    OBVIOUS
<1>3. UnitStart' = wire'.read
    <2>1. wire'.read \in Nat
        BY <1>1
    <2> QED
        BY <1>2, <2>1 DEF UnitStart
<1>4. Carries(conn, N, p, reader.buf, UnitStart)'
    BY CarriesNothing
<1> QED
    BY <1>1, <1>3, <1>4 DEF Receiver, HandedOut, Holds

LEMMA HoldsPartial ==
    ASSUME NEW N, NEW p, NEW buf, Unread(N, p, buf), reader' = [reader EXCEPT !.buf = buf], out' = out
    PROVE  Receiver(N, p)'
<1>0. /\ IsReader(reader) /\ HandedOut(p) /\ Holds(N, p) /\ UNCHANGED conn
      /\ buf \in Seq(Tokens) /\ UnitStart \in Nat /\ wire'.read = UnitStart + Len(buf) /\ AtItsPlace
    BY UnreadFacts
<1>1. reader'.buf = buf /\ reader'.state = reader.state /\ reader'.plen = reader.plen
    BY <1>0 DEF IsReader, ReaderFields
<1>2. UnitStart' = UnitStart /\ wire'.read >= UnitStart
    BY <1>0, <1>1 DEF UnitStart
<1>3. Carries(conn, N, p, buf, UnitStart) /\ reader.state # "BufferedData"
    BY DEF Unread
<1>4. reader.state = "Read" => wire'.read >= 2
    <2> SUFFICES ASSUME reader.state = "Read" PROVE wire'.read >= 2
        OBVIOUS
    <2>1. wire.read >= 2 /\ wire.read \in Nat
        BY <1>0, SendTypes DEF Holds, Unread, Numbered
    <2>2. UnitStart = wire.read
        <3>1. reader.buf = <<>>
            BY <1>0 DEF AtItsPlace
        <3>2. Len(reader.buf) = 0
            BY <3>1
        <3> QED
            BY <2>1, <3>2 DEF UnitStart
    <2> QED
        BY <1>0, <1>2, <2>1, <2>2
<1>5. Holds(N, p)'
    BY <1>0, <1>1, <1>2, <1>3, <1>4 DEF Holds
<1> QED
    BY <1>0, <1>5 DEF Receiver, HandedOut

LEMMA HoldsSalt ==
    ASSUME NEW N, NEW p, NEW buf, Unread(N, p, buf), ~Partial(buf), Len(buf) <= Need, reader.state = "WaitSalt",
           reader'.buf = <<>>, reader'.state \in {"ReadLength", "Read"}, out' = out
    PROVE  Receiver(N, p)'
<1>0. AtItsPlace /\ UnitRead(buf) /\ Numbers(N, p)
    BY UnreadFacts DEF Unread
<1>1. UnitStart = 0
    BY <1>0 DEF AtItsPlace
<1>2. Need = 2
    BY <1>0, SaltLength DEF AtItsPlace, Need, AeadNeed, StreamNeed
<1>3. wire'.read = 0 + 2
    BY <1>0, <1>1, <1>2, Complete
<1>4. N[0] = 0 /\ N[2] = 0
    BY <1>0, LeadBounds DEF Numbers
<1> QED
    BY <1>1, <1>3, <1>4, HoldsNothing

\* A length or header is behind nothing, and what it announces behind it.
LEMMA HoldsLength ==
    ASSUME NEW N, NEW p, NEW buf, Unread(N, p, buf), Chunked, NEW n \in Nat, Len(buf) = n, n >= 1,
           buf[n] # Bad, Announces(buf[n]), N[UnitStart + n - 1] = N[UnitStart],
           reader'.buf = <<>>, reader'.state = "ReadData", reader'.plen = buf[n][2], out' = out
    PROVE  Receiver(N, p)'
<1>0. /\ HandedOut(p) /\ UNCHANGED conn /\ Len(out) = N[UnitStart] /\ UnitStart \in Nat /\ wire'.read = UnitStart + n
      /\ Carries(conn, N, p, buf, UnitStart) /\ buf \in Seq(Tokens)
    BY UnreadFacts DEF Unread
<1>1. PICK t, x : t = buf[n] /\ x = UnitStart + n
    OBVIOUS
<1>2. Places(conn, N, p, t, x)
    BY <1>0, <1>1 DEF Carries
<1>3. N[x] = N[x - 1] /\ Spans(N, x, t[2])
    BY <1>1, <1>2 DEF Places
<1>4. x = wire'.read /\ x - 1 = UnitStart + n - 1 /\ N[x] = N[UnitStart]
    BY <1>0, <1>1, <1>3
<1>5. Len(reader'.buf) = 0
    OBVIOUS
<1>6. UnitStart' = wire'.read
    <2>1. wire'.read \in Nat
        BY <1>0
    <2> QED
        BY <1>5, <2>1 DEF UnitStart
<1>7. Carries(conn, N, p, reader.buf, UnitStart)'
    BY CarriesNothing
<1>8. Holds(N, p)'
    BY <1>0, <1>1, <1>3, <1>4, <1>6, <1>7 DEF Holds
<1> QED
    BY <1>0, <1>8 DEF Receiver, HandedOut

LEMMA HoldsData ==
    ASSUME NEW N, NEW p, NEW buf, Unread(N, p, buf), ~Partial(buf), Len(buf) <= Need, Chunked,
           reader.state = "ReadData", Intact(buf), reader' = Buffered(buf), out' = out
    PROVE  Receiver(N, p)'
<1>0. /\ IsReader(reader) /\ HandedOut(p) /\ Holds(N, p) /\ UNCHANGED conn /\ N \in Numberings
      /\ buf \in Seq(Tokens) /\ UnitStart \in Nat /\ wire'.read = UnitStart + Len(buf) /\ AtItsPlace
      /\ Len(out) = N[UnitStart] /\ N[UnitStart] \in Nat
    BY UnreadFacts
<1>1. PICK n \in Nat : n = reader.plen
    BY <1>0 DEF AtItsPlace
<1>2. Need = n + 1
    BY <1>1 DEF Need, AeadNeed, Aead2022Need, Chunked
<1>3. Len(buf) = n + 1 /\ wire'.read = UnitStart + (n + 1)
    <2>1. n + 1 \in Nat
        OBVIOUS
    <2> QED
        BY <1>2, <2>1, Complete DEF Unread
<1>4. PICK b : b = [i \in 1..n |-> buf[i][2]]
    OBVIOUS
<1>5. reader' = [reader EXCEPT !.buf = b, !.state = "BufferedData", !.unchecked = FALSE, !.decrypted = TRUE]
    BY <1>1, <1>4 DEF Buffered
<1>6. reader'.state = "BufferedData" /\ reader'.buf = b /\ Len(b) = n
    BY <1>0, <1>4, <1>5 DEF IsReader, ReaderFields
<1>7. Spans(N, UnitStart, n)
    BY <1>0, <1>1 DEF Holds
<1>8. ASSUME NEW i \in 1..n PROVE b[i] = Unit(conn, p, Len(out) + i)
    <2>0. PICK t : t = buf[i]
        OBVIOUS
    <2>1. PICK x \in Nat : t = buf[i] /\ x = UnitStart + i
        BY <1>0, <2>0
    <2>2. Places(conn, N, p, t, x)
        BY <1>3, <2>1 DEF Unread, Carries
    <2>3. t # Bad
        <3>1. Bad \notin Range(buf) /\ i \in 1..Len(buf)
            BY <1>3 DEF Intact
        <3> QED
            BY <1>0, <2>1, <3>1, Intactly
    <2>4. N[x] = N[UnitStart] + i
        BY <1>7, <2>1 DEF Spans
    <2>5. N[x - 1] = N[UnitStart] + (i - 1)
        <3>1. x - 1 = UnitStart + (i - 1) /\ i - 1 \in 0..n
            BY <1>0, <2>1
        <3> QED
            BY <1>7, <3>1 DEF Spans
    <2>6. t[2] = Unit(conn, p, N[x])
        BY <1>0, <2>2, <2>3, <2>4, <2>5 DEF Places
    <2> QED
        BY <1>0, <1>4, <2>1, <2>4, <2>6
<1>9. N[wire'.read] = Len(out) + n
    <2>1. UnitStart + n + 1 = UnitStart + (n + 1)
        BY <1>0
    <2> QED
        BY <1>0, <1>3, <1>7, <2>1 DEF Spans
<1>10. Holds(N, p)'
    BY <1>0, <1>6, <1>8, <1>9 DEF Holds
<1> QED
    BY <1>0, <1>10 DEF Receiver, HandedOut

UnitsFrom(c, p, n, s) == s \in Seq(Nat) /\ \A i \in 1..Len(s) : s[i] = Unit(c, p, n + i)
FirstUnits(c, p, s) == s \in Seq(Nat) /\ \A i \in 1..Len(s) : s[i] = Unit(c, p, i)

LEMMA UnitsAppended ==
    ASSUME NEW c, NEW p, NEW a, NEW b, FirstUnits(c, p, a), UnitsFrom(c, p, Len(a), b)
    PROVE  FirstUnits(c, p, a \o b) /\ Len(a \o b) = Len(a) + Len(b)
<1>a. /\ a \in Seq(Nat) /\ b \in Seq(Nat)
      /\ \A i \in 1..Len(a) : a[i] = Unit(c, p, i)
      /\ \A i \in 1..Len(b) : b[i] = Unit(c, p, Len(a) + i)
    BY DEF FirstUnits, UnitsFrom
<1>0. a \o b \in Seq(Nat) /\ Len(a \o b) = Len(a) + Len(b) /\ Len(a) \in Nat /\ Len(b) \in Nat
    BY <1>a
<1>1. ASSUME NEW i \in 1..Len(a \o b) PROVE (a \o b)[i] = Unit(c, p, i)
    <2>1. CASE i <= Len(a)
        BY <1>a, <1>0, <2>1
    <2>2. CASE i > Len(a)
        <3>1. PICK j \in 1..Len(b) : i = Len(a) + j
            <4>1. i - Len(a) \in 1..Len(b) /\ i = Len(a) + (i - Len(a))
                BY <1>0, <2>2
            <4> QED
                BY <4>1
        <3>2. (a \o b)[Len(a) + j] = b[j]
            BY <1>a, <1>0, <3>1
        <3> QED
            BY <1>a, <3>1, <3>2
    <2> QED
        BY <1>0, <2>1, <2>2
<1> QED
    BY <1>0, <1>1 DEF FirstUnits

Behind(u, m, i, x) == x \in 2..(u + m) /\ x - 1 \in 2..(u + m) /\ x - 2 = u - 2 + i /\ x - 2 # x - 1 - 2

LEMMA PlaceBehind ==
    ASSUME NEW u \in Nat, u >= 2, NEW m \in Nat, NEW i \in 1..m, NEW x \in Nat, x = u + i
    PROVE  Behind(u, m, i, x)
BY DEF Behind

\* The stream cipher hands out what it reads: behind the salt all places carry
\* bytes.
LEMMA HoldsPlain ==
    ASSUME NEW N, NEW p, NEW buf, NEW k \in Nat, Polls(k, buf), Unread(N, p, buf), ~Chunked, conn.method # "none",
           reader.state = "Read", GotPlain(buf)
    PROVE  Receiver(N, p)'
<1>0. /\ AtItsPlace /\ HandedOut(p) /\ Holds(N, p) /\ UNCHANGED conn /\ CausesInv
      /\ buf \in Seq(Tokens) /\ UnitStart \in Nat /\ wire'.read = UnitStart + Len(buf)
      /\ Len(out) = N[UnitStart] /\ wire'.damaged = wire.damaged
    BY UnreadFacts
<1>1. /\ wire.q \in Seq(Tokens) /\ wire.read \in Nat /\ Len(wire.q) \in Nat
      /\ conn.method = "stream"
    BY <1>0, SendTypes, MethodsAssumption DEF Connections, Chunked
<1>2. reader.buf = <<>> /\ UNCHANGED <<reader, end, filter>>
    BY <1>0 DEF AtItsPlace, GotPlain
<1>3. Len(reader.buf) = 0
    BY <1>2
<1>4. UnitStart = wire.read /\ UnitStart >= 2
    BY <1>0, <1>1, <1>3 DEF UnitStart, Holds
<1>5. Len(buf) \in Nat /\ UnitStart + Len(buf) <= wire.read + Len(wire.q)
    <2>1. Len(buf) = Len(reader.buf) + k
        <3>1. UnitRead(buf) /\ k \in Nat
            BY DEF Unread
        <3>2. PICK a \in Seq(Tokens) : a = SubSeq(wire.q, 1, k) /\ Len(a) = k
            <4>1. k \in 0..Len(wire.q)
                BY <1>1 DEF Polls
            <4>2. SubSeq(wire.q, 1, k) \in Seq(Tokens) /\ Len(SubSeq(wire.q, 1, k)) = k
                BY <1>1, <4>1
            <4> QED
                BY <4>2
        <3>3. buf = <<>> \o a
            BY <1>2, <3>2 DEF Polls
        <3>4. <<>> \o a = a
            BY <3>2
        <3> QED
            BY <1>3, <3>2, <3>3, <3>4
    <2> QED
        BY <1>1, <1>3, <1>4, <2>1 DEF Polls
<1>6. \A x \in 2..(UnitStart + Len(buf)) : N[x] = x - 2
    <2>1. \A x \in 2..(wire.read + Len(wire.q)) : N[x] = x - 2
        BY <1>1 DEF Unread, Numbered, Sender
    <2>2. 2..(UnitStart + Len(buf)) \subseteq 2..(wire.read + Len(wire.q))
        BY <1>0, <1>1, <1>5
    <2> QED
        BY <2>1, <2>2
<1>7. Len(out) = UnitStart - 2
    <2>1. UnitStart \in 2..(UnitStart + Len(buf))
        BY <1>0, <1>4, <1>5
    <2> QED
        BY <1>0, <1>6, <2>1
<1>8. ~wire.damaged /\ reader.key /\ Bad \notin Range(buf)
    <2>1. ~wire.damaged
        BY DEF Unread
    <2>2. Bad \notin Range(buf)
        BY <1>0, <2>1, WhileReading DEF Unread
    <2>3. reader.key
        BY <1>0, <2>1 DEF Unread, CausesInv, ReaderInOrder
    <2> QED
        BY <2>1, <2>2, <2>3
<1>9. ASSUME NEW i \in 1..Len(buf) PROVE Intact(<<buf[i]>>) /\ buf[i][2] = Unit(conn, p, Len(out) + i) /\ buf[i][2] \in Nat
    <2>1. buf[i] # Bad
        BY <1>0, <1>8, Intactly
    <2>2. Intact(<<buf[i]>>)
        <3>1. Range(<<buf[i]>>) = {buf[i]}
            BY DEF Range
        <3> QED
            BY <1>8, <2>1, <3>1, Zenon DEF Intact
    <2>3. PICK t : t = buf[i]
        OBVIOUS
    <2>4. PICK x \in Nat : x = UnitStart + i
        BY <1>0
    <2>5. Places(conn, N, p, t, x)
        BY <2>3, <2>4 DEF Unread, Carries
    <2>6. /\ x \in 2..(UnitStart + Len(buf)) /\ x - 1 \in 2..(UnitStart + Len(buf))
          /\ x - 2 = UnitStart - 2 + i /\ x - 2 # x - 1 - 2
        <3>1. UnitStart \in Nat /\ UnitStart >= 2 /\ Len(buf) \in Nat /\ i \in 1..Len(buf)
            BY <1>0, <1>4, <1>5
        <3>2. Behind(UnitStart, Len(buf), i, x)
            BY <2>4, <3>1, PlaceBehind
        <3> QED
            BY <3>2 DEF Behind
    <2>7. N[x] # N[x - 1] /\ N[x] = Len(out) + i
        <3>1. N[x] = x - 2
            BY <1>6, <2>6
        <3>2. N[x - 1] = x - 1 - 2
            BY <1>6, <2>6
        <3> QED
            BY <1>7, <2>6, <3>1, <3>2
    <2>8. t[2] = Unit(conn, p, N[x])
        BY <2>1, <2>3, <2>5, <2>7 DEF Places
    <2>9. buf[i][2] \in Nat
        BY <1>0, CarriesNumber
    <2> QED
        BY <2>2, <2>3, <2>7, <2>8, <2>9
<1>10. PICK b : b = [i \in DOMAIN buf |-> IF Intact(<<buf[i]>>) THEN buf[i][2] ELSE Garbage]
    OBVIOUS
<1>11. b \in Seq(Nat) /\ Len(b) = Len(buf) /\ \A i \in 1..Len(buf) : b[i] = buf[i][2]
    <2>1. DOMAIN buf = 1..Len(buf)
        BY <1>0
    <2>2. \A i \in 1..Len(buf) : b[i] = buf[i][2] /\ b[i] \in Nat
        BY <1>9, <1>10, <2>1
    <2>3. b = [i \in 1..Len(buf) |-> b[i]]
        BY <1>10, <2>1
    <2>4. b \in Seq(Nat)
        BY <1>5, <2>2, <2>3
    <2>5. Len(b) = Len(buf)
        BY <1>5, <2>3, <2>4
    <2> QED
        BY <2>2, <2>4, <2>5
<1>12. out' = out \o b
    BY <1>10 DEF GotPlain
<1>13. out \in Seq(Nat)
    BY <1>0 DEF HandedOut
<1>14. out' \in Seq(Nat) /\ Len(out') = Len(out) + Len(buf) /\ \A i \in 1..Len(out') : out'[i] = Unit(conn, p, i)
    <2>1. \A i \in 1..Len(b) : b[i] = Unit(conn, p, Len(out) + i)
        BY <1>9, <1>11
    <2>2. \A i \in 1..Len(out) : out[i] = Unit(conn, p, i)
        BY <1>0 DEF HandedOut
    <2> QED
        <3>1. FirstUnits(conn, p, out) /\ UnitsFrom(conn, p, Len(out), b)
            BY <1>11, <1>13, <2>1, <2>2 DEF FirstUnits, UnitsFrom
        <3>2. FirstUnits(conn, p, out') /\ Len(out') = Len(out) + Len(b)
            BY <1>12, <3>1, UnitsAppended
        <3> QED
            BY <1>11, <3>2 DEF FirstUnits
<1>16. UnitStart' = wire'.read /\ wire'.read >= 2
    <2>1. wire'.read \in Nat /\ wire'.read >= 2
        BY <1>0, <1>4, <1>5
    <2> QED
        BY <1>2, <1>3, <2>1 DEF UnitStart
<1>17. Len(out') = N[wire'.read]
    <2>1. wire'.read \in 2..(UnitStart + Len(buf))
        BY <1>0, <1>4, <1>5
    <2>2. N[wire'.read] = wire'.read - 2
        BY <1>6, <2>1
    <2> QED
        BY <1>0, <1>4, <1>5, <1>7, <1>14, <2>2
<1>18. Carries(conn, N, p, reader.buf, UnitStart)'
    BY <1>2, CarriesNothing
<1>19. Holds(N, p)'
    BY <1>2, <1>16, <1>17, <1>18 DEF Holds
<1>20. HandedOut(p)'
    BY <1>0, <1>14 DEF HandedOut
<1> QED
    BY <1>19, <1>20 DEF Receiver

\* The steps of the receiving side keep the numbers.
LEMMA DeliverSteps ==
    ASSUME NEW N, NEW p, Numbered(N, p), Deliver
    PROVE  Sender(N, p)' /\ Receiver(N, p)'
<1>0. UNCHANGED <<conn, copy, writer, wire>> /\ end = "running" /\ reader.state = "BufferedData"
    BY Zenon DEF Deliver
<1>1. CausesInv /\ Sender(N, p) /\ Receiver(N, p)
    BY DEF Numbered
<1>2. Sender(N, p)'
    BY <1>0, <1>1
       DEF Sender, Numbers, Unsent, Assembled, Committed, Written, Pending, Taken, Chunked
<1>3. Receiver(N, p)'
    <2> SUFFICES ASSUME end' = "running", Chunked' \/ ~wire'.damaged PROVE HandedOut(p)' /\ Holds(N, p)'
        BY DEF Receiver
    <2> DEFINE n == IF Len(reader.buf) < SinkMax THEN Len(reader.buf) ELSE SinkMax
               rest == SubSeq(reader.buf, n + 1, Len(reader.buf))
               front == SubSeq(reader.buf, 1, n)
               next == [reader EXCEPT !.buf = rest, !.state = IF rest = <<>> THEN "ReadLength" ELSE @]
    <2>1. IF ~conn.matched THEN FailRead(next) ELSE reader' = next /\ out' = out \o front
        BY Zenon DEF Deliver
    <2>2. reader' = next /\ out' = out \o front
        BY <2>1 DEF FailRead
    <2>3. /\ HandedOut(p) /\ Holds(N, p) /\ IsReader(reader) /\ AtItsPlace /\ wire.read \in Nat
        BY <1>0, <1>1, SendTypes DEF Receiver, CausesInv, CipherTypes, ReaderInOrder, Chunked
    <2>4. reader.buf \in Seq(Nat) /\ out \in Seq(Nat)
        BY <1>0, <2>3 DEF AtItsPlace, HandedOut
    <2>5. n \in 0..Len(reader.buf)
        BY <2>4, SizesAssumption
    <2> HIDE DEF n
    <2>5a. PICK m \in Nat : m = Len(reader.buf)
        BY <2>4
    <2>6a. front \in Seq(Nat) /\ Len(front) = n /\ \A i \in 1..n : front[i] = reader.buf[i]
        BY <2>4, <2>5
    <2>6b. rest \in Seq(Nat) /\ Len(rest) = Len(reader.buf) - n
        BY <2>4, <2>5
    <2>6c. \A i \in 1..(Len(reader.buf) - n) : rest[i] = reader.buf[n + i]
        BY <2>4, <2>5
    <2> HIDE DEF front, rest
    <2>7. reader'.buf = rest /\ reader'.state = IF rest = <<>> THEN "ReadLength" ELSE "BufferedData"
        BY <1>0, <2>2, <2>3 DEF IsReader, ReaderFields
    <2>8. /\ \A i \in 1..Len(reader.buf) : reader.buf[i] = Unit(conn, p, Len(out) + i)
          /\ N[wire.read] = Len(out) + Len(reader.buf)
        BY <1>0, <2>3 DEF Holds
    <2>6. /\ front \in Seq(Nat) /\ Len(front) = n /\ \A i \in 1..n : front[i] = reader.buf[i]
          /\ rest \in Seq(Nat) /\ Len(rest) = Len(reader.buf) - n
          /\ \A i \in 1..Len(rest) : rest[i] = reader.buf[n + i]
        BY <2>6a, <2>6b, <2>6c
    <2>9. out' \in Seq(Nat) /\ Len(out') = Len(out) + n /\ \A i \in 1..Len(out') : out'[i] = Unit(conn, p, i)
        <3>1. ASSUME NEW i \in 1..Len(front) PROVE front[i] = Unit(conn, p, Len(out) + i)
            <4>1. i \in 1..n /\ i \in 1..Len(reader.buf)
                BY <2>4, <2>5, <2>6
            <4> QED
                BY <2>6, <2>8, <4>1
        <3>2. \A i \in 1..Len(out) : out[i] = Unit(conn, p, i)
            BY <2>3 DEF HandedOut
        <3> QED
            <4>1. FirstUnits(conn, p, out) /\ UnitsFrom(conn, p, Len(out), front)
                BY <2>4, <2>6, <3>1, <3>2 DEF FirstUnits, UnitsFrom
            <4>2. FirstUnits(conn, p, out') /\ Len(out') = Len(out) + Len(front)
                BY <2>2, <4>1, UnitsAppended
            <4> QED
                BY <2>6, <4>2 DEF FirstUnits
    <2>11. HandedOut(p)'
        BY <1>0, <2>9 DEF HandedOut
    <2>12. CASE rest = <<>>
        <3>1. Len(rest) = 0
            BY <2>12
        <3>2. n = Len(reader.buf)
            BY <2>4, <2>5, <2>6, <3>1
        <3>3. Len(reader'.buf) = 0 /\ reader'.buf = <<>> /\ reader'.state = "ReadLength"
            BY <2>7, <2>12, <3>1
        <3>4. UnitStart' = wire.read
            BY <1>0, <2>3, <3>3 DEF UnitStart
        <3>5. Carries(conn, N, p, reader.buf, UnitStart)'
            BY <3>3, CarriesNothing
        <3> QED
            BY <1>0, <2>8, <2>9, <2>11, <3>2, <3>3, <3>4, <3>5 DEF Holds
    <2>13. CASE rest # <<>>
        <3>1. reader'.state = "BufferedData" /\ reader'.buf = rest
            BY <2>7, <2>13
        <3>2. ASSUME NEW i \in 1..Len(rest) PROVE rest[i] = Unit(conn, p, Len(out') + i)
            <4>1. n + i \in 1..Len(reader.buf) /\ Len(out) + (n + i) = Len(out') + i
                BY <2>4, <2>5, <2>6, <2>9
            <4> QED
                BY <2>6, <2>8, <4>1
        <3>3. N[wire.read] = Len(out') + Len(rest)
            <4>1. Len(out) \in Nat /\ n \in Nat /\ Len(reader.buf) \in Nat
                BY <2>4, <2>5
            <4>2. Len(out) + n + (Len(reader.buf) - n) = Len(out) + Len(reader.buf)
                <5>1. \A a, b, d \in Nat : a + b + (d - b) = a + d
                    OBVIOUS
                <5> QED
                    BY <4>1, <5>1, Zenon
            <4> QED
                BY <2>6, <2>8, <2>9, <4>2
        <3> QED
            BY <1>0, <2>11, <3>1, <3>2, <3>3 DEF Holds
    <2> QED
        BY <2>12, <2>13
<1> QED
    BY <1>2, <1>3

LEMMA NotRunning ==
    ASSUME NEW N, NEW p, end' # "running"
    PROVE  Receiver(N, p)'
BY DEF Receiver

LEMMA HoldsHeader ==
    ASSUME NEW N, NEW p, NEW buf, Unread(N, p, buf), Is2022, reader.state = "ReadHeader", GotHeader(buf)
    PROVE  Receiver(N, p)'
<1> DEFINE whole == Len(buf) = HeaderLen
           fails == ~whole \/ ~Intact(buf) \/ conn.header # "good" \/ (FromClient /\ Rejected)
           r == [reader EXCEPT !.state = "ReadData", !.short = ~whole, !.decrypted = whole,
                        !.plen = IF whole THEN buf[Len(buf)][2] ELSE 0]
<1>0. /\ IsReader(reader) /\ AtItsPlace /\ conn \in Connections /\ UnitRead(buf) /\ CausesInv /\ end = "running"
      /\ buf \in Seq(Tokens) /\ Numbers(N, p) /\ wire'.read = UnitStart + Len(buf) /\ Chunked
    BY UnreadFacts DEF Unread, Is2022, Chunked
<1>1. CASE fails
    <2>1. FailRead([reader EXCEPT !.short = ~whole])
        BY <1>1 DEF GotHeader
    <2>2. end' = "error"
        BY <2>1 DEF FailRead
    <2> QED
        BY <2>2, NotRunning
<1>2. CASE ~fails
    <2>1. whole /\ Intact(buf) /\ out' = out /\ reader' = [r EXCEPT !.buf = <<>>]
        BY <1>2 DEF GotHeader, Goto
    <2>2. /\ reader'.state = "ReadData" /\ reader'.buf = <<>> /\ reader'.plen = buf[Len(buf)][2]
        BY <1>0, <2>1 DEF IsReader, ReaderFields
    <2> HIDE DEF r
    <2>3. PICK n \in Nat : n = HeaderLen
        BY <1>0, HeaderLength
    <2>4. Len(buf) = n /\ n = LeadOf(conn) /\ n >= 1 /\ n \in 1..Len(buf)
        BY <1>0, <2>1, <2>3, HeaderLength
    <2>5. UnitStart = 0
        <3>1. wire.read = 0 /\ reader.buf = <<>>
            BY <1>0 DEF AtItsPlace
        <3>2. Len(reader.buf) = 0
            BY <3>1
        <3> QED
            <4>1. 0 - 0 = 0
                OBVIOUS
            <4> QED
                BY <3>1, <3>2, <4>1, Zenon DEF UnitStart
    <2>6. buf[n] \in Tokens /\ buf[n] # Bad
        BY <1>0, <2>1, <2>4, Intactly DEF Intact
    <2>7. Announces(buf[n])
        <3>1. Layout(conn, buf, 0, writer.ends, wire.damaged)
            BY <1>0, <2>5 DEF UnitRead, Is2022
        <3>2. PICK t : t = buf[n]
            OBVIOUS
        <3>3. TokenOK(conn, t, 0 + n, writer.ends, wire.damaged)
            BY <2>4, <3>1, <3>2, Zenon DEF Layout
        <3>4. 0 + n = n /\ conn.method \in {"aead", "aead2022"}
            BY DEF Is2022
        <3> QED
            BY <2>4, <2>6, <3>2, <3>3, <3>4 DEF TokenOK
    <2>8. N[UnitStart + n - 1] = N[UnitStart]
        <3>1. 0 + n - 1 \in 0..LeadOf(conn) /\ 0 \in 0..LeadOf(conn)
            BY <2>4
        <3>2. \A x \in 0..LeadOf(conn) : N[x] = 0
            BY <1>0 DEF Numbers
        <3> QED
            BY <2>5, <3>1, <3>2
    <2> QED
        BY <1>0, <2>1, <2>2, <2>4, <2>6, <2>7, <2>8, HoldsLength
<1> QED
    BY <1>1, <1>2

LEMMA HoldsNextLength ==
    ASSUME NEW N, NEW p, NEW buf, Unread(N, p, buf), ~Partial(buf), Len(buf) <= Need,
           Chunked, reader.state = "ReadLength", GotLength(buf)
    PROVE  Receiver(N, p)'
<1>0. /\ IsReader(reader) /\ AtItsPlace /\ conn \in Connections /\ UnitRead(buf) /\ CausesInv /\ end = "running"
      /\ buf \in Seq(Tokens) /\ wire'.read = UnitStart + Len(buf) /\ UnitStart \in Nat
      /\ wire.read \in Nat
    BY UnreadFacts, SendTypes DEF Unread
<1>1. CASE ~Intact(buf)
    <2>1. end' = "error"
        BY <1>1 DEF GotLength, FailRead
    <2> QED
        BY <2>1, NotRunning
<1>2. CASE Intact(buf)
    <2> DEFINE r == [reader EXCEPT !.state = "ReadData", !.plen = buf[1][2]]
    <2>1. out' = out /\ reader' = [r EXCEPT !.buf = <<>>]
        BY <1>2 DEF GotLength, Goto
    <2>2. reader'.state = "ReadData" /\ reader'.buf = <<>> /\ reader'.plen = buf[1][2]
        BY <1>0, <2>1 DEF IsReader, ReaderFields
    <2> HIDE DEF r
    <2>3. Need = 1 /\ Len(buf) = 1
        <3>1. Need = 1
            BY DEF Need, AeadNeed, Aead2022Need, Chunked
        <3> QED
            BY <1>0, <3>1, Complete
    <2>4. UnitStart = wire.read
        <3>1. reader.buf = <<>>
            BY <1>0 DEF AtItsPlace
        <3>2. Len(reader.buf) = 0
            BY <3>1
        <3> QED
            BY <1>0, <3>2 DEF UnitStart
    <2>5. UnitStart + 1 = LeadOf(conn) \/ (UnitStart + 1 > 1 /\ (UnitStart + 1) - 1 \in writer.ends)
        <3>1. (conn.method = "aead" /\ wire.read = 2) \/ (wire.read > 0 /\ wire.read \in writer.ends)
            BY <1>0 DEF AtItsPlace
        <3>2. conn.method = "aead" => LeadOf(conn) = 3
            BY DEF LeadOf
        <3>3. (wire.read + 1) - 1 = wire.read
            BY <1>0
        <3> QED
            BY <1>0, <2>4, <3>1, <3>2, <3>3
    <2>6. buf[1] \in Tokens /\ buf[1] # Bad
        <3>1. 1 \in 1..Len(buf)
            BY <2>3
        <3> QED
            BY <1>0, <1>2, <3>1, Intactly DEF Intact
    <2>7. Announces(buf[1])
        <3>0. conn.method \in {"aead", "aead2022"} /\ conn.method # "none"
            BY DEF Chunked
        <3>1. Layout(conn, buf, UnitStart, writer.ends, wire.damaged) /\ 1 \in 1..Len(buf)
            BY <1>0, <2>3, <3>0 DEF UnitRead
        <3>2. PICK t, x : t = buf[1] /\ x = UnitStart + 1
            OBVIOUS
        <3>3. TokenOK(conn, t, x, writer.ends, wire.damaged)
            BY <3>1, <3>2, Zenon DEF Layout
        <3>4. t # Bad /\ (x = LeadOf(conn) \/ (x > 1 /\ x - 1 \in writer.ends))
            BY <2>5, <2>6, <3>2, Zenon
        <3>5. Announces(t)
            BY <3>0, <3>3, <3>4, Zenon DEF TokenOK
        <3> QED
            BY <3>2, <3>5
    <2>8. N[UnitStart + 1 - 1] = N[UnitStart]
        <3>1. UnitStart + 1 - 1 = UnitStart
            BY <1>0
        <3> QED
            BY <3>1
    <2>9. PICK n \in Nat : n = 1
        OBVIOUS
    <2> QED
        BY <2>1, <2>2, <2>3, <2>6, <2>7, <2>8, <2>9, HoldsLength
<1> QED
    BY <1>1, <1>2

LEMMA HoldsGotData ==
    ASSUME NEW N, NEW p, NEW buf, Unread(N, p, buf), ~Partial(buf), Len(buf) <= Need,
           Chunked, reader.state = "ReadData",
           GotAeadData(buf) \/ Got2022Data(buf)
    PROVE  Receiver(N, p)'
<1>1. CASE end' = "error"
    BY <1>1, NotRunning
<1>2. CASE end' # "error"
    <2>1. Intact(buf) /\ reader' = Buffered(buf) /\ out' = out
        BY <1>2 DEF GotAeadData, Got2022Data, FailRead
    <2> QED
        BY <2>1, HoldsData
<1> QED
    BY <1>1, <1>2

LEMMA HoldsGotSalt ==
    ASSUME NEW N, NEW p, NEW buf, Unread(N, p, buf), ~Partial(buf), Len(buf) <= Need, reader.state = "WaitSalt",
           GotSalt(buf) \/ GotIv(buf)
    PROVE  Receiver(N, p)'
<1>0. IsReader(reader)
    BY UnreadFacts
<1>1. CASE end' = "error"
    BY <1>1, NotRunning
<1>2. CASE end' # "error" /\ GotSalt(buf)
    <2>1. out' = out /\ reader' = [[reader EXCEPT !.key = Bad \notin Range(buf), !.state = "ReadLength"] EXCEPT !.buf = <<>>]
        BY <1>2 DEF GotSalt, Goto
    <2>2. reader'.buf = <<>> /\ reader'.state = "ReadLength"
        BY <1>0, <2>1 DEF IsReader, ReaderFields
    <2> QED
        BY <2>1, <2>2, HoldsSalt
<1>3. CASE end' # "error" /\ GotIv(buf)
    <2> DEFINE next == [reader EXCEPT !.buf = <<>>, !.key = Bad \notin Range(buf), !.state = "Read"]
    <2>1. IF Rejected THEN FailRead(next) ELSE Goto(next) /\ filter' = (filter \/ Checked)
        BY <1>3, Zenon DEF GotIv
    <2>2. next.buf = <<>> /\ next.state = "Read" /\ IsReader(next)
        BY <1>0 DEF IsReader, ReaderFields
    <2> HIDE DEF next
    <2>3. out' = out /\ reader' = [next EXCEPT !.buf = <<>>]
        BY <1>3, <2>1 DEF FailRead, Goto
    <2>4. reader'.buf = <<>> /\ reader'.state = "Read"
        BY <2>2, <2>3 DEF IsReader, ReaderFields
    <2> QED
        BY <2>3, <2>4, HoldsSalt
<1> QED
    BY <1>1, <1>2, <1>3

LEMMA ReadSteps ==
    ASSUME NEW N, NEW p, Numbered(N, p), PollRead, FirstPacketWhole
    PROVE  Sender(N, p)' /\ Receiver(N, p)'
<1>0. /\ end = "running" /\ reader.state # "BufferedData" /\ UNCHANGED <<conn, copy, writer>>
      /\ CausesInv
    BY Zenon DEF PollRead, Numbered
<1>1. PICK k \in 1..(Need - Len(reader.buf)) :
          LET buf == reader.buf \o SubSeq(wire.q, 1, k)
          IN  /\ k <= Len(wire.q)
              /\ wire' = [wire EXCEPT !.q = SubSeq(@, k + 1, Len(@)), !.read = @ + k]
              /\ \/ Partial(buf) /\ reader' = [reader EXCEPT !.buf = buf] /\ UNCHANGED <<out, end, filter>>
                 \/ ~Partial(buf) /\ CASE conn.method = "aead"      -> AeadRead(buf)
                                       [] conn.method = "aead2022"  -> Aead2022Read(buf)
                                       [] OTHER                     -> StreamRead(buf)
    BY Zenon DEF PollRead
<1>2. PICK buf : buf = reader.buf \o SubSeq(wire.q, 1, k)
    OBVIOUS
<1>3. Polls(k, buf)
    BY <1>1, <1>2, Zenon DEF Polls
<1>4. \/ Partial(buf) /\ reader' = [reader EXCEPT !.buf = buf] /\ UNCHANGED <<out, end, filter>>
      \/ ~Partial(buf) /\ CASE conn.method = "aead"      -> AeadRead(buf)
                            [] conn.method = "aead2022"  -> Aead2022Read(buf)
                            [] OTHER                     -> StreamRead(buf)
    BY <1>1, <1>2, Zenon
<1>5. k \in Nat /\ 1 <= k
    OBVIOUS
<1>6. UnitRead(buf) /\ Len(buf) = Len(reader.buf) + k
    BY <1>0, <1>3, <1>5, UnitIsRead
<1>7. Sender(N, p)'
    BY <1>0, <1>3, <1>5, SenderRead
<1>8. ASSUME Chunked \/ ~wire.damaged PROVE Receiver(N, p)'
    <2>0. Unread(N, p, buf)
        BY <1>0, <1>3, <1>5, <1>6, <1>8, UnitCarries DEF Unread
    <2>1. AtItsPlace /\ IsReader(reader) /\ reader.state \in ReaderStates /\ conn \in Connections
        BY <1>0, <1>6, WhileReading
    <2>2. conn.method \in {"stream", "aead", "aead2022"}
        BY <2>1, Ciphered
    <2>3. reader.state # "Read" => Len(buf) <= Need
        <3> SUFFICES ASSUME reader.state # "Read" PROVE Len(buf) <= Need
            OBVIOUS
        <3>1. Need \in Int
            <4>1. reader.state = "ReadData" => reader.plen \in Nat
                BY <2>1 DEF AtItsPlace
            <4>2. reader.state \in {"WaitSalt", "ReadHeader", "ReadLength", "ReadData"}
                BY <1>0, <2>1 DEF ReaderStates
            <4>3. HeaderLen \in Int
                BY <2>1, HeaderLength
            <4>4. reader.state = "WaitSalt" => conn.method \in {"stream", "aead"}
                BY <2>1 DEF AtItsPlace
            <4>5. reader.state = "ReadHeader" => conn.method = "aead2022"
                BY <2>1 DEF AtItsPlace, Is2022
            <4>6. CASE conn.method = "aead"
                BY <4>1, <4>2, <4>5, <4>6, SaltLength DEF Need, AeadNeed
            <4>7. CASE conn.method = "aead2022"
                BY <4>1, <4>2, <4>3, <4>4, <4>7 DEF Need, Aead2022Need
            <4>8. CASE conn.method = "stream"
                <5>1. reader.state = "WaitSalt"
                    BY <2>1, <4>2, <4>5, <4>8 DEF AtItsPlace, Chunked
                <5> QED
                    BY <4>8, <5>1, SaltLength DEF Need, StreamNeed
            <4> QED
                BY <2>2, <4>6, <4>7, <4>8
        <3>2. Len(reader.buf) \in Nat
            BY <1>0, Starts
        <3> QED
            BY <1>6, <3>1, <3>2
    <2>4. CASE Partial(buf) /\ reader' = [reader EXCEPT !.buf = buf] /\ UNCHANGED <<out, end, filter>>
        BY <2>0, <2>4, HoldsPartial
    <2>5. CASE ~Partial(buf) /\ CASE conn.method = "aead"      -> AeadRead(buf)
                                  [] conn.method = "aead2022"  -> Aead2022Read(buf)
                                  [] OTHER                     -> StreamRead(buf)
        <3>1. CASE conn.method = "aead"
            <4>1. Chunked /\ AeadRead(buf)
                BY <2>5, <3>1 DEF Chunked
            <4>2. reader.state \in {"WaitSalt", "ReadLength", "ReadData"}
                BY <1>0, <2>1, <3>1 DEF AtItsPlace, ReaderStates, Chunked, Is2022
            <4>3. CASE reader.state = "WaitSalt"
                BY <2>0, <2>3, <2>5, <4>1, <4>3, HoldsGotSalt DEF AeadRead
            <4>4. CASE reader.state = "ReadLength"
                BY <2>0, <2>3, <2>5, <4>1, <4>4, HoldsNextLength DEF AeadRead
            <4>5. CASE reader.state = "ReadData"
                BY <2>0, <2>3, <2>5, <4>1, <4>5, HoldsGotData DEF AeadRead
            <4> QED
                BY <4>2, <4>3, <4>4, <4>5
        <3>2. CASE conn.method = "aead2022"
            <4>1. Chunked /\ Is2022 /\ Aead2022Read(buf)
                BY <2>5, <3>2 DEF Chunked, Is2022
            <4>2. reader.state \in {"ReadHeader", "ReadLength", "ReadData"}
                BY <1>0, <2>1, <3>2 DEF AtItsPlace, ReaderStates, Chunked
            <4>3. CASE reader.state = "ReadHeader"
                BY <2>0, <4>1, <4>3, HoldsHeader DEF Aead2022Read
            <4>4. CASE reader.state = "ReadLength"
                BY <2>0, <2>3, <2>5, <4>1, <4>4, HoldsNextLength DEF Aead2022Read
            <4>5. CASE reader.state = "ReadData"
                BY <2>0, <2>3, <2>5, <4>1, <4>5, HoldsGotData DEF Aead2022Read
            <4> QED
                BY <4>2, <4>3, <4>4, <4>5
        <3>3. CASE conn.method = "stream"
            <4>1. StreamRead(buf) /\ ~Chunked /\ conn.method # "none"
                BY <2>5, <3>3 DEF Chunked
            <4>2. reader.state \in {"WaitSalt", "Read"}
                BY <1>0, <2>1, <3>3 DEF AtItsPlace, ReaderStates, Chunked, Is2022
            <4>3. CASE reader.state = "WaitSalt"
                BY <2>0, <2>3, <2>5, <4>1, <4>3, HoldsGotSalt DEF StreamRead
            <4>4. CASE reader.state = "Read"
                BY <1>3, <1>5, <2>0, <4>1, <4>4, HoldsPlain DEF StreamRead
            <4> QED
                BY <4>2, <4>3, <4>4
        <3> QED
            BY <2>2, <3>1, <3>2, <3>3
    <2> QED
        BY <1>4, <2>4, <2>5
<1>9. ASSUME ~(Chunked \/ ~wire.damaged) PROVE Receiver(N, p)'
    <2>1. Chunked' = Chunked /\ wire'.damaged = wire.damaged
        BY <1>6 DEF UnitRead, Chunked
    <2> QED
        BY <1>9, <2>1 DEF Receiver
<1> QED
    BY <1>7, <1>8, <1>9

LEMMA KnownStep ==
    ASSUME FirstPacketWhole, NEW N, NEW p, Numbered(N, p), [CipherNext]_cipherVars
    PROVE  \E M, q : Numbered(M, q)'
<1>0. CausesInv /\ Account /\ Sender(N, p) /\ Receiver(N, p)
    BY DEF Numbered
<1>1. CausesInv' /\ Account'
    BY <1>0, CausesStep, AccountKeeps
<1>2. \E M, q : Sender(M, q)' /\ Receiver(M, q)'
    <2>1. CASE UNCHANGED cipherVars
        <3>1. UNCHANGED <<conn, copy, writer, wire, reader, out, end>>
            BY <2>1 DEF cipherVars
        <3>2. Sender(N, p)'
            BY <1>0, <3>1 DEF Sender, Numbers, Unsent, Assembled, Committed, Written, Pending, Taken, Chunked
        <3> QED
            BY <1>0, <3>1, <3>2, ReceiverSame
    <2>2. CASE FirstRead \/ CopyRead \/ Shutdown
        BY <2>2, SourceSteps
    <2>3. CASE Cut \/ Damage
        BY <2>3, NetworkSteps
    <2>4. CASE PollWrite
        <3>1. conn.method # "none"
            BY <1>0, SendTypes, Ciphered
        <3> QED
            BY <2>4, <3>1, RestGoesOut, FreshGoesOut
    <2>5. CASE PollRead
        BY <2>5, ReadSteps
    <2>6. CASE Deliver
        BY <2>6, DeliverSteps
    <2>7. CASE ReadEof
        <3>1. UNCHANGED <<conn, copy, writer, wire>> /\ end' # "running"
            BY <2>7 DEF ReadEof
        <3>2. Sender(N, p)'
            BY <1>0, <3>1 DEF Sender, Numbers, Unsent, Assembled, Committed, Written, Pending, Taken, Chunked
        <3> QED
            BY <3>1, <3>2, NotRunning
    <2> QED
        BY <2>1, <2>2, <2>3, <2>4, <2>5, <2>6, <2>7 DEF CipherNext
<1> QED
    BY <1>1, <1>2 DEF Numbered

-----------------------------------------------------------------------------
\* What the user of the receiving side got: the bytes from the first on.
Bytes(n) == [i \in 1..n |-> i]
Count(p, n) == IF n > HeadOf(conn, p) THEN n - HeadOf(conn, p) ELSE 0

LEMMA TheBytes ==
    ASSUME conn \in Connections, NEW p \in {0, 1}, HandedOut(p), Len(out) <= HeadOf(conn, p) + copy.cap,
           copy.cap \in Nat, copy.cap <= MaxBytes
    PROVE  Payload(out) = Bytes(Count(p, Len(out)))
<1>0. out \in Seq(Nat) /\ Len(out) \in Nat /\ \A i \in 1..Len(out) : out[i] = Unit(conn, p, i)
    BY DEF HandedOut
<1>1. CASE ~FromClient
    <2>1. HeadOf(conn, p) = 0 /\ Payload(out) = out
        BY <1>1 DEF HeadOf, FromClient, Payload
    <2>2. Count(p, Len(out)) = Len(out)
        BY <1>0, <2>1 DEF Count
    <2>3. \A i \in 1..Len(out) : out[i] = i
        BY <1>0, <2>1 DEF Unit
    <2>4. out = [i \in 1..Len(out) |-> out[i]]
        BY <1>0
    <2> QED
        BY <2>1, <2>2, <2>3, <2>4 DEF Bytes
<1>2. CASE FromClient
    <2>1. HeadOf(conn, p) = 1 + p /\ 1 + p \in {1, 2}
        BY <1>2 DEF HeadOf, FromClient
    <2> DEFINE h == HeaderUnits(out)
    <2>2. Payload(out) = SubSeq(out, h + 1, Len(out))
        BY <1>2 DEF Payload
    <2>3. CASE Len(out) <= 1
        <3>1. h = 1
            BY <1>0, <2>3 DEF HeaderUnits
        <3>2. Count(p, Len(out)) = 0
            BY <1>0, <2>1, <2>3 DEF Count
        <3>3. SubSeq(out, 2, Len(out)) = <<>>
            BY <1>0, <2>3
        <3>4. Bytes(0) = <<>>
            BY DEF Bytes
        <3> QED
            BY <2>2, <3>1, <3>2, <3>3, <3>4
    <2>4. CASE Len(out) > 1
        <3>1. out[2] = Unit(conn, p, 2)
            BY <1>0, <2>4
        <3>2. h = 1 + p
            <4>1. CASE p = 1
                <5>1. out[2] = Pad
                    BY <2>1, <3>1, <4>1 DEF Unit
                <5> QED
                    BY <2>4, <4>1, <5>1 DEF HeaderUnits
            <4>2. CASE p = 0
                <5>1. out[2] = 1
                    BY <2>1, <3>1, <4>2 DEF Unit
                <5>2. MaxBytes >= 1 /\ MaxBytes \in Nat
                    BY <1>0, <2>1, <2>4, <4>2, SizesAssumption
                <5>3. out[2] # Pad
                    BY <5>1, <5>2 DEF Pad
                <5> QED
                    BY <4>2, <5>3 DEF HeaderUnits
            <4> QED
                BY <4>1, <4>2
        <3> HIDE DEF h
        <3>3. PICK m \in Nat : m = 1 + p /\ m \in {1, 2} /\ m <= Len(out) /\ h = m /\ HeadOf(conn, p) = m
            BY <1>0, <2>1, <2>4, <3>2
        <3>4. Count(p, Len(out)) = Len(out) - m /\ Len(out) - m \in Nat
            BY <1>0, <3>3 DEF Count
        <3>5. PICK n \in Nat : n = Len(out) - m
            BY <3>4
        <3>6. SubSeq(out, m + 1, Len(out)) = [i \in 1..n |-> out[m + i]]
            BY <1>0, <3>3, <3>5
        <3>7. \A i \in 1..n : out[m + i] = i
            <4>1. \A i \in 1..n : m + i \in 1..Len(out) /\ m + i > m /\ (m + i) - m = i
                BY <1>0, <3>3, <3>5
            <4> QED
                BY <1>0, <3>3, <4>1 DEF Unit
        <3> QED
            BY <2>2, <3>3, <3>4, <3>5, <3>6, <3>7 DEF Bytes
    <2> QED
        BY <1>0, <2>3, <2>4
<1> QED
    BY <1>1, <1>2

LEMMA MoreBytes ==
    ASSUME NEW a \in Nat, NEW b \in Nat, a < b
    PROVE  \E n \in 1..(b - a) : Bytes(b) = Bytes(a) \o [i \in 1..n |-> Len(Bytes(a)) + i]
<1>1. PICK n \in Nat : n = b - a
    OBVIOUS
<1>2. n \in 1..(b - a) /\ a + n = b
    BY <1>1
<1>3. PICK c : c = Bytes(a)
    OBVIOUS
<1>4. c \in Seq(Nat) /\ Len(c) = a /\ \A i \in 1..a : c[i] = i
    BY <1>3 DEF Bytes
<1>5. PICK s : s = [i \in 1..n |-> a + i]
    OBVIOUS
<1>6. s \in Seq(Nat) /\ Len(s) = n /\ \A i \in 1..n : s[i] = a + i
    BY <1>5
<1>7. PICK d : d = Bytes(b)
    OBVIOUS
<1>8. d \in Seq(Nat) /\ Len(d) = b /\ \A i \in 1..b : d[i] = i
    BY <1>7 DEF Bytes
<1>0. \A u, v : u \in Seq(Nat) /\ v \in Seq(Nat) => u \o v \in Seq(Nat) /\ Len(u \o v) = Len(u) + Len(v)
    OBVIOUS
<1>9. PICK e \in Seq(Nat) : e = c \o s
    BY <1>0, <1>4, <1>6, Zenon
<1>10. Len(e) = b
    <2>1. Len(e) = Len(c) + Len(s)
        BY <1>0, <1>4, <1>6, <1>9, Zenon
    <2> QED
        BY <1>2, <1>4, <1>6, <2>1
<1>11. ASSUME NEW i \in 1..b PROVE e[i] = i
    <2>1. CASE i <= a
        BY <1>4, <1>6, <1>9, <2>1
    <2>2. CASE i > a
        <3>1. PICK j \in 1..n : i = a + j
            <4>1. i - a \in 1..n /\ i = a + (i - a)
                BY <1>1, <2>2
            <4> QED
                BY <4>1
        <3>2. e[Len(c) + j] = s[j]
            BY <1>4, <1>6, <1>9, <3>1
        <3> QED
            BY <1>4, <1>6, <3>1, <3>2
    <2>3. i <= a \/ i > a
        OBVIOUS
    <2> QED
        BY <2>1, <2>2, <2>3
<1>12. d = e
    <2>1. d = [i \in 1..b |-> d[i]]
        BY <1>8
    <2>2. e = [i \in 1..b |-> e[i]]
        BY <1>10
    <2> QED
        BY <1>8, <1>11, <2>1, <2>2
<1>13. [i \in 1..n |-> Len(Bytes(a)) + i] = s
    BY <1>3, <1>4, <1>5
<1> QED
    BY <1>2, <1>3, <1>7, <1>9, <1>12, <1>13

\* What the reader has handed out was taken from the source before.
Received(p) ==
    /\ conn \in Connections /\ p \in {0, 1} /\ HandedOut(p) /\ copy.cap \in Nat /\ copy.cap <= MaxBytes
    /\ Len(out) <= HeadOf(conn, p) + copy.cap /\ HeadOf(conn, p) \in Nat /\ Len(out) \in Nat
    /\ Payload(out) = Bytes(Count(p, Len(out)))

WhatIsOut == \A N, p : Numbered(N, p) /\ end = "running" /\ (Chunked \/ ~wire.damaged) => Received(p)

LEMMA OutIsTaken == WhatIsOut
<1> SUFFICES ASSUME NEW N, NEW p, Numbered(N, p), end = "running", Chunked \/ ~wire.damaged PROVE Received(p)
    BY DEF WhatIsOut
<1>0. CausesInv /\ Numbers(N, p) /\ HandedOut(p) /\ Holds(N, p) /\ AtItsPlace
    BY DEF Numbered, Sender, Receiver, CausesInv, ReaderInOrder
<1>1. conn \in Connections /\ copy.cap \in Nat /\ copy.cap <= MaxBytes /\ wire.read \in Nat /\ p \in {0, 1} /\ HeadOf(conn, p) \in Nat
    BY <1>0, SendTypes, Heads DEF CausesInv, CopyInOrder, Numbers
<1>2. out \in Seq(Nat) /\ Len(out) \in Nat
    BY <1>0 DEF HandedOut
<1>3. \A x \in Nat : N[x] \in Nat /\ N[x] <= HeadOf(conn, p) + copy.cap
    BY <1>0 DEF Numbers, Numberings
<1>4. Len(out) <= HeadOf(conn, p) + copy.cap
    <2>1. CASE reader.state = "BufferedData"
        <3>1. N[wire.read] = Len(out) + Len(reader.buf) /\ Len(reader.buf) \in Nat
            BY <1>0, <2>1 DEF Holds, AtItsPlace
        <3>2. Len(out) <= N[wire.read]
            BY <1>2, <3>1
        <3>3. N[wire.read] \in Nat /\ N[wire.read] <= HeadOf(conn, p) + copy.cap
            BY <1>1, <1>3
        <3> QED
            BY <1>1, <1>2, <3>2, <3>3
    <2>2. CASE reader.state # "BufferedData"
        <3>1. UnitStart \in Nat /\ Len(out) = N[UnitStart]
            BY <1>0, <2>2, Starts DEF Holds
        <3> QED
            BY <1>3, <3>1
    <2> QED
        BY <2>1, <2>2
<1> QED
    BY <1>0, <1>1, <1>2, <1>4, TheBytes DEF Received

\* A step of the connection is a step of the byte stream, or none.
LEMMA StreamStays ==
    ASSUME conn' = conn, out' = out, end' = end, (wire'.state = "cut") = (wire.state = "cut"), copy'.cap = copy.cap
    PROVE  UNCHANGED Stream!streamVars
BY DEF Stream!streamVars, Payload, FromClient

LEMMA StreamReceives ==
    ASSUME FirstPacketWhole, NEW N, NEW p, Numbered(N, p), Numbered(N, p)', end = "running", end' = "running",
           Chunked \/ ~wire.damaged, UNCHANGED <<conn, copy>>, wire'.state = wire.state, wire'.damaged = wire.damaged,
           Len(out') >= Len(out)
    PROVE  Stream!Receive \/ UNCHANGED Stream!streamVars
<1>1. Received(p)
    BY OutIsTaken DEF WhatIsOut
<1>2. WhatIsOut'
    BY OutIsTaken, PTL
<1>3. Received(p)'
    BY <1>2 DEF WhatIsOut, Chunked
<1>4. /\ Payload(out) = Bytes(Count(p, Len(out))) /\ Payload(out)' = Bytes(Count(p, Len(out')))
      /\ Count(p, Len(out)) \in Nat /\ Count(p, Len(out')) \in Nat
      /\ Count(p, Len(out)) <= Count(p, Len(out')) /\ Count(p, Len(out')) <= copy.cap /\ copy.cap \in Nat
    <2>1. Count(p, Len(out))' = Count(p, Len(out'))
        BY DEF Count
    <2>2. Len(out) \in Nat /\ Len(out') \in Nat /\ HeadOf(conn, p) \in Nat /\ copy.cap \in Nat
        BY <1>1, <1>3 DEF Received
    <2>3. Len(out') <= HeadOf(conn, p) + copy.cap
        BY <1>3 DEF Received
    <2>4. /\ Count(p, Len(out)) \in Nat /\ Count(p, Len(out')) \in Nat
          /\ Count(p, Len(out)) <= Count(p, Len(out')) /\ Count(p, Len(out')) <= copy.cap
        BY <2>2, <2>3 DEF Count
    <2> QED
        BY <1>1, <1>3, <2>1, <2>2, <2>4 DEF Received
<1>5. PICK a \in Nat, b \in Nat : a = Count(p, Len(out)) /\ b = Count(p, Len(out'))
    BY <1>4
<1>6. CASE a = b
    BY <1>4, <1>5, <1>6 DEF Stream!streamVars
<1>7. CASE a < b
    <2>1. PICK n \in 1..(b - a) : Bytes(b) = Bytes(a) \o [i \in 1..n |-> Len(Bytes(a)) + i]
        BY <1>7, MoreBytes
    <2>2. Len(Bytes(a)) = a
        BY DEF Bytes
    <2>3. n \in 1..(copy.cap - Len(Payload(out)))
        BY <1>4, <1>5, <2>2
    <2> QED
        BY <1>4, <1>5, <2>1, <2>3 DEF Stream!Receive
<1> QED
    BY <1>4, <1>5, <1>6, <1>7

LEMMA StreamFinishes ==
    ASSUME FirstPacketWhole, NEW N, NEW p, Numbered(N, p), Chunked \/ ~wire.damaged, ReadEof, end' = "eof", wire.state # "cut"
    PROVE  Len(Payload(out)) = copy.cap
<1>0. /\ CausesInv /\ Account /\ Sender(N, p) /\ Receiver(N, p) /\ end = "running"
      /\ wire.q = <<>> /\ wire.state # "open" /\ reader.buf = <<>> /\ reader.state # "BufferedData"
      /\ reader.state # "ReadData"
    BY DEF Numbered, ReadEof
<1>1. wire.state = "fin" /\ writer.state = "Closed" /\ copy.pos = copy.cap
    BY <1>0 DEF CausesInv, CipherTypes, Wires, WriterInOrder, Account
<1>2. Received(p)
    BY <1>0, OutIsTaken DEF WhatIsOut
<1>3. Len(out) = N[wire.read]
    <2>1. HandedOut(p) /\ Holds(N, p) /\ UnitStart + Len(reader.buf) = wire.read /\ UnitStart \in Nat
        BY <1>0, Starts DEF Receiver
    <2>2. Len(reader.buf) = 0
        BY <1>0
    <2>3. UnitStart = wire.read
        BY <2>1, <2>2
    <2> QED
        BY <1>0, <2>1, <2>3 DEF Holds
<1>4. Assembled = wire.read
    <2>1. writer.buf = <<>> /\ wire.read \in Nat
        BY <1>0, <1>1, SendTypes
    <2>2. Len(writer.buf) = 0 /\ Len(wire.q) = 0
        BY <1>0, <2>1
    <2> QED
        BY <2>1, <2>2 DEF Assembled
<1>5. Unsent(N, p)
    BY <1>0 DEF Sender
<1>6. Count(p, Len(out)) = copy.cap
    <2>1. copy.cap \in Nat /\ HeadOf(conn, p) \in Nat
        BY <1>2 DEF Received
    <2>2. CASE writer.greeted
        <3>1. Committed = copy.cap
            BY <1>1, <2>1 DEF Committed
        <3>2. Len(out) = HeadOf(conn, p) + copy.cap
            BY <1>3, <1>4, <1>5, <2>2, <3>1 DEF Unsent
        <3> QED
            BY <2>1, <3>2 DEF Count
    <2>3. CASE ~writer.greeted
        <3>1. copy.cap = 0
            BY <1>0, <1>1, <2>3 DEF Account
        <3>2. Len(out) = 0
            BY <1>0, <1>3, <1>5, <2>3, SendTypes DEF Unsent
        <3> QED
            BY <2>1, <3>1, <3>2 DEF Count
    <2> QED
        BY <2>2, <2>3
<1>7. copy.cap \in Nat /\ Payload(out) = Bytes(copy.cap)
    BY <1>2, <1>6 DEF Received
<1> QED
    BY <1>7 DEF Bytes

\* What was handed out stays handed out; an error hands out nothing.
LEMMA OutGrows ==
    ASSUME CausesInv, out \in Seq(Nat), PollRead \/ Deliver
    PROVE  \/ out' = out /\ end' \in {"running", "error"}
           \/ end' = "running" /\ Len(out') >= Len(out)
<1>0. \A b \in Seq(Nat) : Len(out \o b) >= Len(out)
    OBVIOUS
<1>1. CASE Deliver
    <2> DEFINE n == IF Len(reader.buf) < SinkMax THEN Len(reader.buf) ELSE SinkMax
               rest == SubSeq(reader.buf, n + 1, Len(reader.buf))
               next == [reader EXCEPT !.buf = rest, !.state = IF rest = <<>> THEN "ReadLength" ELSE @]
    <2>1. /\ end = "running" /\ reader.state = "BufferedData"
          /\ IF ~conn.matched THEN FailRead(next) ELSE out' = out \o SubSeq(reader.buf, 1, n) /\ end' = end
        BY <1>1, Zenon DEF Deliver
    <2>2. reader.buf \in Seq(Nat)
        BY <2>1 DEF CausesInv, ReaderInOrder, AtItsPlace
    <2>3. n \in 0..Len(reader.buf)
        BY <2>2, SizesAssumption
    <2> HIDE DEF n, next
    <2>4. SubSeq(reader.buf, 1, n) \in Seq(Nat)
        BY <2>2, <2>3
    <2> QED
        BY <1>0, <2>1, <2>4 DEF FailRead
<1>2. CASE PollRead
    <2>0. end = "running" /\ reader.state # "BufferedData" /\ UNCHANGED <<conn, copy, writer>>
        BY <1>2, Zenon DEF PollRead
    <2>1. PICK k, buf :
              /\ k \in 1..(Need - Len(reader.buf))
              /\ Polls(k, buf)
              /\ \/ Partial(buf) /\ reader' = [reader EXCEPT !.buf = buf] /\ UNCHANGED <<out, end, filter>>
                 \/ ~Partial(buf) /\ CASE conn.method = "aead"      -> AeadRead(buf)
                                       [] conn.method = "aead2022"  -> Aead2022Read(buf)
                                       [] OTHER                     -> StreamRead(buf)
        BY <1>2, Zenon DEF PollRead, Polls
    <2>2. k \in Nat /\ 1 <= k
        <3>1. k \in 1..(Need - Len(reader.buf))
            BY <2>1, Zenon
        <3> QED
            BY <3>1
    <2>3. buf \in Seq(Tokens)
        BY <2>0, <2>1, <2>2, UnitIsRead DEF UnitRead
    <2>4. (out' = out /\ end' \in {end, "error"}) \/ GotPlain(buf)
        BY <2>1, Zenon
           DEF AeadRead, Aead2022Read, StreamRead, GotSalt, GotLength, GotAeadData, GotHeader, Got2022Data, GotIv,
               FailRead, Goto
    <2>5. ASSUME GotPlain(buf) PROVE end' = "running" /\ Len(out') >= Len(out)
        <3>1. DOMAIN buf = 1..Len(buf) /\ Len(buf) \in Nat
            BY <2>3
        <3>2. PICK b : b = [i \in DOMAIN buf |-> IF Intact(<<buf[i]>>) THEN buf[i][2] ELSE Garbage]
            OBVIOUS
        <3>3. \A i \in 1..Len(buf) : b[i] \in Nat
            <4>1. Garbage \in Nat
                BY SizesAssumption DEF Garbage
            <4>2. \A i \in 1..Len(buf) : buf[i][2] \in Nat
                BY <2>3, CarriesNumber
            <4> QED
                BY <3>1, <3>2, <4>1, <4>2
        <3>4. b = [i \in 1..Len(buf) |-> b[i]]
            BY <3>1, <3>2
        <3>5. b \in Seq(Nat)
            BY <3>1, <3>3, <3>4
        <3>6. out' = out \o b /\ end' = end
            BY <2>5, <3>2 DEF GotPlain
        <3> QED
            BY <1>0, <2>0, <3>5, <3>6
    <2> QED
        BY <2>0, <2>4, <2>5
<1> QED
    BY <1>1, <1>2

LEMMA StreamRefines ==
    ASSUME FirstPacketWhole, NEW N, NEW p, Numbered(N, p), [CipherNext]_cipherVars
    PROVE  StreamStep
<1> SUFFICES ASSUME Chunked \/ ~wire.damaged PROVE Stream!StreamNext \/ UNCHANGED Stream!streamVars
    BY DEF StreamStep
<1>0. /\ conn \in Connections /\ copy \in Copies /\ writer \in Writers /\ wire \in Wires
      /\ copy.pos \in Nat /\ copy.cap \in Nat /\ CausesInv
    BY SendTypes DEF Numbered
<1>1. CASE UNCHANGED cipherVars
    BY <1>1, StreamStays DEF cipherVars
<1>2. CASE FirstRead \/ CopyRead \/ Shutdown
    <2>1. UNCHANGED <<conn, out, end>>
        BY <1>2 DEF FirstRead, CopyRead, Shutdown
    <2>2. (wire'.state = "cut") = (wire.state = "cut")
        BY <1>0, <1>2 DEF FirstRead, CopyRead, Shutdown, Wires
    <2>3. copy'.cap >= copy.cap
        <3>1. CASE FirstRead
            BY <1>0, <3>1, SizesAssumption DEF FirstRead, Copies
        <3>2. CASE CopyRead
            BY <1>0, <3>2, SizesAssumption DEF CopyRead, Copies
        <3>3. CASE Shutdown
            BY <1>0, <3>3 DEF Shutdown
        <3> QED
            BY <1>2, <3>1, <3>2, <3>3
    <2>4. Stream!Accept
        BY <2>1, <2>2, <2>3 DEF Stream!Accept, Payload, FromClient
    <2> QED
        BY <2>4 DEF Stream!StreamNext
<1>3. CASE Cut
    <2>1. UNCHANGED <<conn, copy, out, end>>
        BY <1>3 DEF Cut
    <2>2. wire'.state = "cut"
        BY <1>0, <1>3 DEF Cut, Wires
    <2>3. Stream!Break
        BY <2>1, <2>2 DEF Stream!Break, Payload, FromClient
    <2> QED
        BY <2>3 DEF Stream!StreamNext
<1>4. CASE Damage
    <2>1. UNCHANGED <<conn, copy, out, end>>
        BY <1>4 DEF Damage
    <2>2. wire'.state = wire.state
        BY <1>0, <1>4 DEF Damage, Wires
    <2> QED
        BY <2>1, <2>2, StreamStays
<1>5. CASE PollWrite
    <2>1. UNCHANGED <<conn, out, end>>
        BY <1>5 DEF PollWrite
    <2>2. PICK k \in 0..Len(NextPacket) : WritesSome(k)
        BY <1>5, PollWrites
    <2>3. wire'.state = wire.state
        BY <1>0, <2>2 DEF WritesSome, Wires
    <2>4. copy'.cap = copy.cap
        BY <1>0, <2>2 DEF WritesSome, Copies
    <2> QED
        BY <2>1, <2>3, <2>4, StreamStays
<1>6. CASE PollRead \/ Deliver
    <2>1. UNCHANGED <<conn, copy>> /\ end = "running"
        BY <1>6, Zenon DEF PollRead, Deliver
    <2>2. wire'.state = wire.state /\ wire'.damaged = wire.damaged
        BY <1>0, <1>6 DEF PollRead, Deliver, Wires
    <2>3. Numbered(N, p)'
        <3>1. Sender(N, p)' /\ Receiver(N, p)'
            BY <1>6, ReadSteps, DeliverSteps
        <3>2. CausesInv' /\ Account'
            BY CausesStep, AccountKeeps DEF Numbered
        <3> QED
            BY <3>1, <3>2 DEF Numbered
    <2>4. /\ \/ out' = out /\ end' \in {"running", "error"}
             \/ end' = "running" /\ Len(out') >= Len(out)
          /\ Len(out) \in Nat
        <3>1. out \in Seq(Nat)
            BY <2>1 DEF Numbered, Receiver, HandedOut
        <3> QED
            BY <1>0, <1>6, <3>1, OutGrows
    <2>5. CASE end' = "running"
        <3>1. Len(out') >= Len(out)
            BY <2>4, <2>5
        <3> QED
            BY <2>1, <2>2, <2>3, <2>5, <3>1, StreamReceives DEF Stream!StreamNext
    <2>6. CASE end' = "error" /\ out' = out
        <3>1. Stream!Fail
            BY <2>1, <2>2, <2>6 DEF Stream!Fail, Payload, FromClient
        <3> QED
            BY <3>1 DEF Stream!StreamNext
    <2> QED
        BY <2>4, <2>5, <2>6
<1>7. CASE ReadEof
    <2>1. UNCHANGED <<conn, copy, wire, out>> /\ end = "running" /\ end' \in {"eof", "error"}
        BY <1>7 DEF ReadEof
    <2>2. CASE end' = "error"
        <3>1. Stream!Fail
            BY <2>1, <2>2 DEF Stream!Fail, Payload, FromClient
        <3> QED
            BY <3>1 DEF Stream!StreamNext
    <2>3. CASE end' = "eof"
        <3>1. wire.state = "cut" \/ Len(Payload(out)) = copy.cap
            BY <1>7, <2>3, StreamFinishes
        <3>2. Stream!Finish
            BY <2>1, <2>3, <3>1 DEF Stream!Finish, Payload, FromClient
        <3> QED
            BY <3>2 DEF Stream!StreamNext
    <2> QED
        BY <2>1, <2>2, <2>3
<1> QED
    BY <1>1, <1>2, <1>3, <1>4, <1>5, <1>6, <1>7 DEF CipherNext

\* Under each cipher, with packets, buffers and reads of any size, a connection
\* that nothing damages is a byte stream: in order, nothing lost to partial
\* reads and writes, complete at a clean end (poll_write and poll_read of the
\* three ciphers).  The first packet is less than a chunk, as in the code.
THEOREM BytesArriveInOrder == FirstPacketWhole => (CipherSpec => ImplementsByteStream)
<1> SUFFICES ASSUME FirstPacketWhole PROVE CipherSpec => ImplementsByteStream
    OBVIOUS
<1> DEFINE IsKnown == \E N, p : Numbered(N, p)
<1>1. CipherInit => IsKnown
    BY StreamStarts
<1>2. CipherInit => Stream!StreamInit
    <2> SUFFICES ASSUME CipherInit PROVE Stream!StreamInit
        OBVIOUS
    <2>1. Payload(<<>>) = <<>>
        BY DEF Payload, HeaderUnits
    <2> QED
        BY <2>1 DEF CipherInit, Stream!StreamInit
<1>3. IsKnown /\ [CipherNext]_cipherVars => IsKnown' /\ [StreamStep]_cipherVars
    <2> SUFFICES ASSUME IsKnown, [CipherNext]_cipherVars PROVE IsKnown' /\ [StreamStep]_cipherVars
        OBVIOUS
    <2>1. PICK N, p : Numbered(N, p)
        OBVIOUS
    <2>2. \E M, q : Numbered(M, q)'
        BY <2>1, KnownStep
    <2>3. StreamStep
        BY <2>1, StreamRefines
    <2> QED
        BY <2>2, <2>3
<1> HIDE DEF IsKnown
<1> QED
    BY <1>1, <1>2, <1>3, PTL DEF CipherSpec, ImplementsByteStream

-----------------------------------------------------------------------------
(***************************************************************************)
(* Half-closed connections through the two relays: whatever the order of   *)
(* reads, writes, FINs and timeouts, and for any number of bytes, nothing  *)
(* is lost in the direction that is still open.                            *)
(***************************************************************************)

USE MaxDataAssumption

\* RelayTypeOK without the bound on bytes under way, which follows from BytesKept.
Types ==
    /\ hop \in [Hops -> Hop]
    /\ local \in [st : {"Accepted", "FirstPacket", "Copy", "Done"},
                  copy : [Dirs -> {"Running", "Done"}]]
    /\ server \in [st : {"Idle", "Accept", "Handshake", "Ignore", "Connect", "FirstRead", "Copy", "Done"},
                   copy : [Dirs -> {"Running", "Done"}], aead2022 : BOOLEAN, fastopen : BOOLEAN]
    /\ ends \in [appSent : 0..MaxData, appGot : Nat, targetSent : 0..MaxData, targetGot : Nat,
                 header : {"none", "good", "bad"}]
    /\ fault \in BOOLEAN

LEMMA Bounded ==
    ASSUME Types', BytesKept'
    PROVE  RelayTypeOK'
<1>1. ASSUME NEW d \in Dirs
      PROVE  /\ hop'["app"].n[d] \in Nat /\ hop'["mid"].n[d] \in Nat /\ hop'["far"].n[d] \in Nat
             /\ OnTheWay(d)' <= MaxData
    BY <1>1 DEF Types, BytesKept, Hops, Dirs, Hop, OnTheWay
<1>2. \A h \in Hops, d \in Dirs : hop'[h].n[d] <= MaxData
    BY <1>1 DEF Hops, OnTheWay
<1> QED
    BY <1>2 DEF Types, RelayTypeOK

-----------------------------------------------------------------------------
(***************************************************************************)
(* The operations on sockets, one at a time: what each one changes.        *)
(***************************************************************************)

\* g differs from f at most in how many bytes are under way.
SameSockets(f, g) ==
    \A k \in Hops : g[k].open = f[k].open /\ g[k].fin = f[k].fin /\ g[k].gone = f[k].gone

LEMMA Names == "app" \in Hops /\ "mid" \in Hops /\ "far" \in Hops /\ "up" \in Dirs /\ "down" \in Dirs
BY DEF Hops, Dirs

LEMMA PutFacts ==
    ASSUME NEW f \in [Hops -> Hop], NEW h \in Hops, NEW d \in Dirs
    PROVE  /\ Put(f, h, d) \in [Hops -> Hop]
           /\ SameSockets(f, Put(f, h, d))
           /\ \A k \in Hops, e \in Dirs :
                 Put(f, h, d)[k].n[e] = IF k = h /\ e = d THEN f[k].n[e] + 1 ELSE f[k].n[e]
<1>1. f[h].n[d] + 1 \in Nat
    BY DEF Hop
<1>2. Put(f, h, d) \in [Hops -> Hop]
    BY <1>1 DEF Put, Hop
<1> QED
    BY <1>2 DEF Put, Hop, SameSockets

LEMMA TakeFacts ==
    ASSUME NEW f \in [Hops -> Hop], NEW h \in Hops, NEW d \in Dirs, f[h].n[d] > 0
    PROVE  /\ Take(f, h, d) \in [Hops -> Hop]
           /\ SameSockets(f, Take(f, h, d))
           /\ \A k \in Hops, e \in Dirs :
                 Take(f, h, d)[k].n[e] = IF k = h /\ e = d THEN f[k].n[e] - 1 ELSE f[k].n[e]
<1>1. f[h].n[d] - 1 \in Nat
    BY DEF Hop
<1>2. Take(f, h, d) \in [Hops -> Hop]
    BY <1>1 DEF Take, Hop
<1> QED
    BY <1>2 DEF Take, Hop, SameSockets

LEMMA DrainFacts ==
    ASSUME NEW f \in [Hops -> Hop], NEW h \in Hops, NEW d \in Dirs
    PROVE  /\ Drain(f, h, d) \in [Hops -> Hop]
           /\ SameSockets(f, Drain(f, h, d))
           /\ \A k \in Hops, e \in Dirs :
                 Drain(f, h, d)[k].n[e] = IF k = h /\ e = d THEN 0 ELSE f[k].n[e]
BY DEF Drain, Hop, SameSockets

\* A byte passed on from one hop to the next.
LEMMA MoveFacts ==
    ASSUME NEW f \in [Hops -> Hop], NEW h \in Hops, NEW g \in Hops, g # h, NEW d \in Dirs, f[h].n[d] > 0
    PROVE  /\ Put(Take(f, h, d), g, d) \in [Hops -> Hop]
           /\ SameSockets(f, Put(Take(f, h, d), g, d))
           /\ \A k \in Hops, e \in Dirs :
                 Put(Take(f, h, d), g, d)[k].n[e] =
                     CASE k = h /\ e = d -> f[k].n[e] - 1
                       [] k = g /\ e = d -> f[k].n[e] + 1
                       [] OTHER          -> f[k].n[e]
<1> DEFINE t == Take(f, h, d)
<1>1. /\ t \in [Hops -> Hop] /\ SameSockets(f, t)
      /\ \A k \in Hops, e \in Dirs : t[k].n[e] = IF k = h /\ e = d THEN f[k].n[e] - 1 ELSE f[k].n[e]
    BY TakeFacts
<1> HIDE DEF t
<1>2. /\ Put(t, g, d) \in [Hops -> Hop] /\ SameSockets(t, Put(t, g, d))
      /\ \A k \in Hops, e \in Dirs :
            Put(t, g, d)[k].n[e] = IF k = g /\ e = d THEN t[k].n[e] + 1 ELSE t[k].n[e]
    BY <1>1, PutFacts
<1>3. SameSockets(f, Put(t, g, d))
    BY <1>1, <1>2 DEF SameSockets
<1> QED
    BY <1>1, <1>2, <1>3 DEF t

\* g differs from f at most in which sockets are open.
LEMMA OpenFacts ==
    ASSUME NEW f \in [Hops -> Hop], NEW h \in Hops
    PROVE  /\ Open(f, h) \in [Hops -> Hop]
           /\ \A k \in Hops :
                 /\ Open(f, h)[k].n = f[k].n /\ Open(f, h)[k].fin = f[k].fin
                 /\ Open(f, h)[k].gone = f[k].gone
                 /\ Open(f, h)[k].open <=> k = h \/ f[k].open
BY DEF Open, Hop

LEMMA FinFacts ==
    ASSUME NEW f \in [Hops -> Hop], NEW h \in Hops, NEW d \in Dirs
    PROVE  /\ Fin(f, h, d) \in [Hops -> Hop]
           /\ \A k \in Hops :
                 /\ Fin(f, h, d)[k].open = f[k].open /\ Fin(f, h, d)[k].n = f[k].n
                 /\ Fin(f, h, d)[k].gone = f[k].gone
           /\ \A k \in Hops, e \in Dirs :
                 Fin(f, h, d)[k].fin[e] <=> (k = h /\ e = d) \/ f[k].fin[e]
BY DEF Fin, Hop

LEMMA DropFacts ==
    ASSUME NEW f \in [Hops -> Hop], NEW h \in Hops, NEW who \in {"local", "server"}
    PROVE  /\ Drop(f, h, who) \in [Hops -> Hop]
           /\ \A k \in Hops :
                 /\ Drop(f, h, who)[k].n = f[k].n /\ Drop(f, h, who)[k].fin = f[k].fin
                 /\ Drop(f, h, who)[k].open = f[k].open
                 /\ k # h \/ Flushed(f[h], who, h) => Drop(f, h, who)[k].gone = f[k].gone
BY DEF Drop, Hop

LEMMA DropBothFacts ==
    ASSUME hop \in [Hops -> Hop], NEW n \in {"local", "server"}, DropBoth(n)
    PROVE  /\ hop' \in [Hops -> Hop]
           /\ \A k \in Hops : hop'[k].n = hop[k].n /\ hop'[k].fin = hop[k].fin /\ hop'[k].open = hop[k].open
           /\ Flushed(hop[Left(n)], n, Left(n)) /\ Flushed(hop[Right(n)], n, Right(n)) =>
                 \A k \in Hops : hop'[k].gone = hop[k].gone
<1> DEFINE f == Drop(hop, Left(n), n)
<1>1. Left(n) \in Hops /\ Right(n) \in Hops /\ Left(n) # Right(n)
    BY DEF Left, Right, Hops
<1>2. /\ f \in [Hops -> Hop]
      /\ \A k \in Hops :
            /\ f[k].n = hop[k].n /\ f[k].fin = hop[k].fin /\ f[k].open = hop[k].open
            /\ k # Left(n) \/ Flushed(hop[Left(n)], n, Left(n)) => f[k].gone = hop[k].gone
    BY <1>1, DropFacts
<1>3. hop' = Drop(f, Right(n), n)
    BY DEF DropBoth
<1>4. Flushed(f[Right(n)], n, Right(n)) <=> Flushed(hop[Right(n)], n, Right(n))
    BY <1>1, <1>2 DEF Flushed
<1> HIDE DEF f
<1>5. /\ hop' \in [Hops -> Hop]
      /\ \A k \in Hops :
            /\ hop'[k].n = f[k].n /\ hop'[k].fin = f[k].fin /\ hop'[k].open = f[k].open
            /\ k # Right(n) \/ Flushed(f[Right(n)], n, Right(n)) => hop'[k].gone = f[k].gone
    BY <1>1, <1>2, <1>3, DropFacts
<1> QED
    BY <1>1, <1>2, <1>4, <1>5
-----------------------------------------------------------------------------
(***************************************************************************)
(* The invariant, action by action.                                        *)
(***************************************************************************)

LEMMA RelayStarts == RelayInit => RelayInv
<1> SUFFICES ASSUME RelayInit PROVE RelayInv
    OBVIOUS
<1>1. hop \in [Hops -> Hop]
    BY DEF RelayInit, Hop
<1>2. RelayTypeOK
    <2>1. local \in [st : {"Accepted"}, copy : [Dirs -> {"Running", "Done"}]]
        BY DEF RelayInit, Transfer
    <2>2. server \in [st : {"Idle"}, copy : [Dirs -> {"Running", "Done"}], aead2022 : BOOLEAN,
                     fastopen : BOOLEAN]
        BY DEF RelayInit, Transfer
    <2> QED
        <3>1. ends \in [appSent : 0..MaxData, appGot : Nat, targetSent : 0..MaxData, targetGot : Nat,
                        header : {"none", "good", "bad"}]
            BY DEF RelayInit
        <3>2. \A h \in Hops, d \in Dirs : hop[h].n[d] <= MaxData
            BY DEF RelayInit
        <3>3. fault \in BOOLEAN
            BY DEF RelayInit
        <3>4. /\ local \in [st : {"Accepted", "FirstPacket", "Copy", "Done"},
                            copy : [Dirs -> {"Running", "Done"}]]
              /\ server \in [st : {"Idle", "Accept", "Handshake", "Ignore", "Connect", "FirstRead", "Copy",
                                   "Done"},
                             copy : [Dirs -> {"Running", "Done"}], aead2022 : BOOLEAN, fastopen : BOOLEAN]
            BY <2>1, <2>2
        <3> QED
            BY <1>1, <3>1, <3>2, <3>3, <3>4 DEF RelayTypeOK
<1>3. \A h \in Hops : hop[h].gone = {} /\ \A d \in Dirs : hop[h].n[d] = 0 /\ ~hop[h].fin[d]
    BY DEF RelayInit
<1>4. BytesKept
    BY <1>3 DEF RelayInit, BytesKept, OnTheWay, Hops, Dirs
<1>5. Stages
    BY <1>3 DEF RelayInit, Stages, Handler, Hops, Dirs, To, Left, Right
<1>6. NothingToSend /\ DoneIsFlushed
    BY <1>3 DEF RelayInit, NothingToSend, EndedEarly, DoneIsFlushed, Handler, Hops, Dirs, Transfer
<1> QED
    BY <1>2, <1>4, <1>5, <1>6 DEF RelayInv

\* Steps of application and target that move bytes.
LEMMA PeerBytes ==
    ASSUME RelayInv, AppSend \/ AppRead \/ TargetSend \/ TargetRead
    PROVE  RelayInv'
<1>1. Types /\ BytesKept /\ Stages /\ NothingToSend /\ DoneIsFlushed
    BY DEF RelayInv, RelayTypeOK, Types
<1>2. CASE AppSend
    <2>1. /\ hop' \in [Hops -> Hop] /\ SameSockets(hop, hop')
          /\ \A k \in Hops, e \in Dirs :
                hop'[k].n[e] = IF k = "app" /\ e = "up" THEN hop[k].n[e] + 1 ELSE hop[k].n[e]
        BY <1>1, <1>2, PutFacts, Names DEF AppSend, Types
    <2>2. Types'
        BY <1>1, <1>2, <2>1 DEF AppSend, Types
    <2>3. BytesKept'
        BY <1>1, <1>2, <2>1 DEF AppSend, Types, BytesKept, OnTheWay, Hops, Dirs, Hop
    <2>4. Stages' /\ NothingToSend' /\ DoneIsFlushed'
        BY <1>1, <1>2, <2>1
           DEF Hops, Dirs, AppSend, Types, SameSockets, Stages, NothingToSend, EndedEarly, DoneIsFlushed, Quiet,
               Handler, From, To, Left, Right, BothDone
    <2> QED
        BY <2>2, <2>3, <2>4, Bounded DEF RelayInv
<1>3. CASE AppRead
    <2>1. /\ hop' \in [Hops -> Hop] /\ SameSockets(hop, hop')
          /\ \A k \in Hops, e \in Dirs :
                hop'[k].n[e] = IF k = "app" /\ e = "down" THEN hop[k].n[e] - 1 ELSE hop[k].n[e]
        BY <1>1, <1>3, TakeFacts, Names DEF AppRead, Readable, Types
    <2>2. Types'
        BY <1>1, <1>3, <2>1 DEF AppRead, Types
    <2>3. BytesKept'
        BY <1>1, <1>3, <2>1 DEF AppRead, Types, BytesKept, OnTheWay, Hops, Dirs, Hop
    <2>4. Stages' /\ NothingToSend' /\ DoneIsFlushed'
        BY <1>1, <1>3, <2>1
           DEF Hops, Dirs, AppRead, Readable, Types, SameSockets, Stages, NothingToSend, EndedEarly, DoneIsFlushed, Quiet,
               Handler, From, To, Left, Right, BothDone
    <2> QED
        BY <2>2, <2>3, <2>4, Bounded DEF RelayInv
<1>4. CASE TargetSend
    <2>1. /\ hop' \in [Hops -> Hop] /\ SameSockets(hop, hop')
          /\ \A k \in Hops, e \in Dirs :
                hop'[k].n[e] = IF k = "far" /\ e = "down" THEN hop[k].n[e] + 1 ELSE hop[k].n[e]
        BY <1>1, <1>4, PutFacts, Names DEF TargetSend, Types
    <2>2. Types'
        BY <1>1, <1>4, <2>1 DEF TargetSend, Types
    <2>3. BytesKept'
        BY <1>1, <1>4, <2>1 DEF TargetSend, Types, BytesKept, OnTheWay, Hops, Dirs, Hop
    <2>4. Stages' /\ NothingToSend' /\ DoneIsFlushed'
        BY <1>1, <1>4, <2>1
           DEF Hops, Dirs, TargetSend, Types, SameSockets, Stages, NothingToSend, EndedEarly, DoneIsFlushed, Quiet,
               Handler, From, To, Left, Right, BothDone
    <2> QED
        BY <2>2, <2>3, <2>4, Bounded DEF RelayInv
<1>5. CASE TargetRead
    <2>1. /\ hop' \in [Hops -> Hop] /\ SameSockets(hop, hop')
          /\ \A k \in Hops, e \in Dirs :
                hop'[k].n[e] = IF k = "far" /\ e = "up" THEN hop[k].n[e] - 1 ELSE hop[k].n[e]
        BY <1>1, <1>5, TakeFacts, Names DEF TargetRead, Readable, Types
    <2>2. Types'
        BY <1>1, <1>5, <2>1 DEF TargetRead, Types
    <2>3. BytesKept'
        BY <1>1, <1>5, <2>1 DEF TargetRead, Types, BytesKept, OnTheWay, Hops, Dirs, Hop
    <2>4. Stages' /\ NothingToSend' /\ DoneIsFlushed'
        BY <1>1, <1>5, <2>1
           DEF Hops, Dirs, TargetRead, Readable, Types, SameSockets, Stages, NothingToSend, EndedEarly, DoneIsFlushed, Quiet,
               Handler, From, To, Left, Right, BothDone
    <2> QED
        BY <2>2, <2>3, <2>4, Bounded DEF RelayInv
<1> QED
    BY <1>2, <1>3, <1>4, <1>5

\* A FIN of the application or the target.
LEMMA PeerCloses ==
    ASSUME RelayInv, AppClose \/ TargetClose
    PROVE  RelayInv'
<1>1. Types /\ BytesKept /\ Stages /\ NothingToSend /\ DoneIsFlushed
    BY DEF RelayInv, RelayTypeOK, Types
<1>2. CASE AppClose
    <2>1. /\ hop' \in [Hops -> Hop]
          /\ \A k \in Hops :
                hop'[k].open = hop[k].open /\ hop'[k].n = hop[k].n /\ hop'[k].gone = hop[k].gone
          /\ \A k \in Hops, e \in Dirs :
                hop'[k].fin[e] <=> (k = "app" /\ e = "up") \/ hop[k].fin[e]
        BY <1>1, <1>2, FinFacts, Names DEF AppClose, Types
    <2>2. Types'
        BY <1>1, <1>2, <2>1 DEF AppClose, Types
    <2>3. BytesKept'
        BY <1>1, <1>2, <2>1 DEF AppClose, BytesKept, OnTheWay, Hops
    <2>4. Stages' /\ NothingToSend' /\ DoneIsFlushed'
        BY <1>1, <1>2, <2>1
           DEF Hops, Dirs, AppClose, Stages, NothingToSend, EndedEarly, DoneIsFlushed, Quiet,
               Handler, From, To, Left, Right, BothDone
    <2> QED
        BY <2>2, <2>3, <2>4, Bounded DEF RelayInv
<1>3. CASE TargetClose
    <2>1. /\ hop' \in [Hops -> Hop]
          /\ \A k \in Hops :
                hop'[k].open = hop[k].open /\ hop'[k].n = hop[k].n /\ hop'[k].gone = hop[k].gone
          /\ \A k \in Hops, e \in Dirs :
                hop'[k].fin[e] <=> (k = "far" /\ e = "down") \/ hop[k].fin[e]
        BY <1>1, <1>3, FinFacts, Names DEF TargetClose, Types
    <2>2. Types'
        BY <1>1, <1>3, <2>1 DEF TargetClose, Types
    <2>3. BytesKept'
        BY <1>1, <1>3, <2>1 DEF TargetClose, BytesKept, OnTheWay, Hops
    <2>4. Stages' /\ NothingToSend' /\ DoneIsFlushed'
        BY <1>1, <1>3, <2>1
           DEF Hops, Dirs, TargetClose, Stages, NothingToSend, EndedEarly, DoneIsFlushed, Quiet,
               Handler, From, To, Left, Right, BothDone
    <2> QED
        BY <2>2, <2>3, <2>4, Bounded DEF RelayInv
<1> QED
    BY <1>2, <1>3

\* From the first fault on, only types, bytes and stages matter.
LEMMA BreakInv == RelayInv /\ Break => RelayInv'
<1> SUFFICES ASSUME RelayInv, Break PROVE RelayInv'
    OBVIOUS
<1>1. Types /\ BytesKept /\ Stages /\ NothingToSend /\ DoneIsFlushed
    BY DEF RelayInv, RelayTypeOK, Types
<1>2. PICK h \in Hops : hop' = [hop EXCEPT ![h].gone = {"network"}]
    BY DEF Break
<1>3. /\ hop' \in [Hops -> Hop]
      /\ \A k \in Hops : hop'[k].open = hop[k].open /\ hop'[k].n = hop[k].n /\ hop'[k].fin = hop[k].fin
    BY <1>1, <1>2 DEF Types, Hop
<1>4. Types'
    BY <1>1, <1>3 DEF Break, Types
<1>5. BytesKept'
    BY <1>1, <1>3 DEF Break, BytesKept, OnTheWay, Hops
<1>6. Stages' /\ NothingToSend' /\ DoneIsFlushed'
    BY <1>1, <1>3
       DEF Hops, Dirs, Break, Stages, NothingToSend, DoneIsFlushed, Quiet, Handler, To, Left, Right
<1> QED
    BY <1>4, <1>5, <1>6, Bounded DEF RelayInv

\* The local service, up to the copy.
LEMMA LocalConnectInv == RelayInv /\ LocalConnect => RelayInv'
<1> SUFFICES ASSUME RelayInv, LocalConnect PROVE RelayInv'
    OBVIOUS
<1>1. Types /\ BytesKept /\ Stages /\ NothingToSend /\ DoneIsFlushed
    BY DEF RelayInv, RelayTypeOK, Types
<1>2. CASE local'.st = "FirstPacket"
    <2>1. /\ local' = [local EXCEPT !.st = "FirstPacket"] /\ server' = [server EXCEPT !.st = "Accept"]
          /\ UNCHANGED <<ends, fault>> /\ local.st = "Accepted" /\ hop' = Open(hop, "mid")
        BY <1>1, <1>2 DEF LocalConnect, Types
    <2>2. /\ hop' \in [Hops -> Hop]
          /\ \A k \in Hops :
                /\ hop'[k].n = hop[k].n /\ hop'[k].fin = hop[k].fin /\ hop'[k].gone = hop[k].gone
                /\ hop'[k].open <=> k = "mid" \/ hop[k].open
        BY <1>1, <2>1, OpenFacts, Names DEF Types
    <2>3. Types'
        BY <1>1, <2>1, <2>2 DEF Types
    <2>4. BytesKept'
        BY <1>1, <2>1, <2>2 DEF BytesKept, OnTheWay, Hops
    <2>5. Stages' /\ NothingToSend' /\ DoneIsFlushed'
        BY <1>1, <2>1, <2>2
           DEF Hops, Dirs, Types, Transfer, Stages, NothingToSend, EndedEarly, DoneIsFlushed, Quiet,
               Handler, From, To, Left, Right, BothDone
    <2> QED
        BY <2>3, <2>4, <2>5, Bounded DEF RelayInv
<1>3. CASE local'.st # "FirstPacket"
    <2>1. /\ local' = [local EXCEPT !.st = "Done"] /\ fault' = TRUE /\ DropBoth("local")
          /\ UNCHANGED <<ends, server>> /\ local.st = "Accepted"
        BY <1>1, <1>3 DEF LocalConnect, Types
    <2>2. /\ hop' \in [Hops -> Hop]
          /\ \A k \in Hops : hop'[k].n = hop[k].n /\ hop'[k].fin = hop[k].fin /\ hop'[k].open = hop[k].open
        BY <1>1, <2>1, DropBothFacts DEF Types
    <2>3. Types'
        BY <1>1, <2>1, <2>2 DEF Types
    <2>4. BytesKept'
        BY <1>1, <2>1, <2>2 DEF BytesKept, OnTheWay, Hops
    <2>5. Stages' /\ NothingToSend' /\ DoneIsFlushed'
        BY <1>1, <2>1, <2>2
           DEF Hops, Dirs, Types, Stages, NothingToSend, DoneIsFlushed, Quiet, Handler, To, Left, Right
    <2> QED
        BY <2>3, <2>4, <2>5, Bounded DEF RelayInv
<1> QED
    BY <1>2, <1>3

LEMMA LocalFirstPacketInv == RelayInv /\ LocalFirstPacket => RelayInv'
<1> SUFFICES ASSUME RelayInv, LocalFirstPacket PROVE RelayInv'
    OBVIOUS
<1>1. Types /\ BytesKept /\ Stages /\ NothingToSend /\ DoneIsFlushed
    BY DEF RelayInv, RelayTypeOK, Types
<1>2. CASE DropBoth("local") /\ local' = [local EXCEPT !.st = "Done"] /\ UNCHANGED ends
    <2>1. UNCHANGED <<server, fault>> /\ local.st = "FirstPacket"
        BY DEF LocalFirstPacket
    <2>2. /\ hop' \in [Hops -> Hop]
          /\ \A k \in Hops : hop'[k].n = hop[k].n /\ hop'[k].fin = hop[k].fin /\ hop'[k].open = hop[k].open
        BY <1>1, <1>2, DropBothFacts DEF Types
    <2>3. Types'
        BY <1>1, <1>2, <2>1, <2>2 DEF Types
    <2>4. BytesKept'
        BY <1>1, <1>2, <2>1, <2>2 DEF BytesKept, OnTheWay, Hops
    <2>5. Stages' /\ NothingToSend' /\ DoneIsFlushed'
        BY <1>1, <1>2, <2>1, <2>2
           DEF Hops, Dirs, Types, Stages, NothingToSend, EndedEarly, DoneIsFlushed, Quiet, Handler,
               To, Left, Right
    <2> QED
        BY <2>3, <2>4, <2>5, Bounded DEF RelayInv
<1>3. ASSUME NEW header \in {"good", "bad"}, ends' = [ends EXCEPT !.header = header],
             local' = [local EXCEPT !.st = "Copy"],
             \/ Readable("app", "up") /\ hop' = Put(Take(hop, "app", "up"), "mid", "up")
             \/ UNCHANGED hop
      PROVE  RelayInv'
    <2>1. UNCHANGED <<server, fault>> /\ local.st = "FirstPacket"
        BY DEF LocalFirstPacket
    <2>2. PICK m \in {0, 1} :
          /\ hop' \in [Hops -> Hop] /\ SameSockets(hop, hop')
          /\ \A k \in Hops, e \in Dirs :
                hop'[k].n[e] = CASE k = "app" /\ e = "up" -> hop[k].n[e] - m
                                 [] k = "mid" /\ e = "up" -> hop[k].n[e] + m
                                 [] OTHER                 -> hop[k].n[e]
        <3>1. CASE UNCHANGED hop
            BY <1>1, <3>1 DEF Types, SameSockets, Hop
        <3>2. CASE Readable("app", "up") /\ hop' = Put(Take(hop, "app", "up"), "mid", "up")
            BY <1>1, <3>2, MoveFacts, Names DEF Types, Readable
        <3> QED
            BY <1>3, <3>1, <3>2
    <2>3. Types'
        BY <1>1, <1>3, <2>1, <2>2 DEF Types
    <2>4. BytesKept'
        BY <1>1, <1>3, <2>1, <2>2 DEF Types, BytesKept, OnTheWay, Hops, Dirs, Hop
    <2>5. Stages' /\ NothingToSend' /\ DoneIsFlushed'
        BY <1>1, <1>3, <2>1, <2>2
           DEF Hops, Dirs, Types, Hop, Transfer, SameSockets, Stages, NothingToSend, EndedEarly,
               DoneIsFlushed, Quiet, Handler, From, To, Left, Right, BothDone
    <2> QED
        BY <2>3, <2>4, <2>5, Bounded DEF RelayInv
<1> QED
    BY <1>2, <1>3 DEF LocalFirstPacket

-----------------------------------------------------------------------------
(***************************************************************************)
(* The server, up to the copy.                                             *)
(***************************************************************************)

\* The server lets go of the connection after a refusal, a timeout or a fault.
LEMMA ServerGivesUp ==
    ASSUME RelayInv, server.st # "Idle", hop' = Drop(hop, "mid", "server"),
           server' = [server EXCEPT !.st = "Done"], fault' = TRUE, UNCHANGED <<local, ends>>
    PROVE  RelayInv'
<1>1. Types /\ BytesKept /\ Stages /\ NothingToSend /\ DoneIsFlushed
    BY DEF RelayInv, RelayTypeOK, Types
<1>2. /\ hop' \in [Hops -> Hop]
      /\ \A k \in Hops : hop'[k].n = hop[k].n /\ hop'[k].fin = hop[k].fin /\ hop'[k].open = hop[k].open
    BY <1>1, DropFacts, Names DEF Types
<1>3. Types'
    BY <1>1, <1>2 DEF Types
<1>4. BytesKept'
    BY <1>1, <1>2 DEF BytesKept, OnTheWay, Hops
<1>5. Stages' /\ NothingToSend' /\ DoneIsFlushed'
    BY <1>1, <1>2
       DEF Hops, Dirs, Types, Stages, NothingToSend, DoneIsFlushed, Quiet, Handler, To, Left, Right
<1> QED
    BY <1>3, <1>4, <1>5, Bounded DEF RelayInv

\* The server goes on to its next stage and leaves the sockets alone.
LEMMA ServerGoesOn ==
    ASSUME RelayInv, UNCHANGED <<hop, local, ends>>,
           server.st \notin {"Idle", "Copy", "Done"},
           NEW st \in {"Handshake", "Connect", "Ignore", "FirstRead"},
           server' = [server EXCEPT !.st = st],
           st \in {"Connect", "FirstRead"} => ends.header = "good",
           fault' = IF st = "Ignore" THEN TRUE ELSE fault
    PROVE  RelayInv'
<1>1. Types /\ BytesKept /\ Stages /\ NothingToSend /\ DoneIsFlushed
    BY DEF RelayInv, RelayTypeOK, Types
<1>2. Types'
    BY <1>1 DEF Types
<1>3. BytesKept'
    BY <1>1 DEF BytesKept, OnTheWay
<1>4. Stages' /\ NothingToSend' /\ DoneIsFlushed'
    BY <1>1
       DEF Hops, Dirs, Types, Stages, NothingToSend, EndedEarly, DoneIsFlushed, Quiet, Handler,
           From, To, Left, Right, BothDone
<1> QED
    BY <1>2, <1>3, <1>4, Bounded DEF RelayInv

\* The connection to the target is there, with the first byte if it was read.
LEMMA ServerOpens ==
    ASSUME RelayInv, server.st \in {"Connect", "FirstRead"},
           NEW m \in {0, 1}, hop' \in [Hops -> Hop],
           \A k \in Hops : /\ hop'[k].fin = hop[k].fin /\ hop'[k].gone = hop[k].gone
                           /\ hop'[k].open <=> k = "far" \/ hop[k].open,
           \A k \in Hops, e \in Dirs :
               hop'[k].n[e] = CASE k = "mid" /\ e = "up" -> hop[k].n[e] - m
                                [] k = "far" /\ e = "up" -> hop[k].n[e] + m
                                [] OTHER                 -> hop[k].n[e],
           server' = [server EXCEPT !.st = "Copy"], UNCHANGED <<local, ends, fault>>
    PROVE  RelayInv'
<1>1. Types /\ BytesKept /\ Stages /\ NothingToSend /\ DoneIsFlushed
    BY DEF RelayInv, RelayTypeOK, Types
<1>2. Types'
    BY <1>1 DEF Types
<1>3. BytesKept'
    BY <1>1 DEF Types, BytesKept, OnTheWay, Hops, Dirs, Hop
<1>4. Stages' /\ NothingToSend' /\ DoneIsFlushed'
    BY <1>1
       DEF Hops, Dirs, Types, Hop, Transfer, Stages, NothingToSend, EndedEarly, DoneIsFlushed, Quiet,
           Handler, From, To, Left, Right, BothDone
<1> QED
    BY <1>2, <1>3, <1>4, Bounded DEF RelayInv

LEMMA ServerOpensAtOnce ==
    ASSUME RelayInv, server.st \in {"Connect", "FirstRead"}, hop' = Open(hop, "far"),
           server' = [server EXCEPT !.st = "Copy"], UNCHANGED <<local, ends, fault>>
    PROVE  RelayInv'
<1>1. hop \in [Hops -> Hop]
    BY DEF RelayInv, RelayTypeOK
<1>2. /\ hop' \in [Hops -> Hop]
      /\ \A k \in Hops : /\ hop'[k].n = hop[k].n /\ hop'[k].fin = hop[k].fin /\ hop'[k].gone = hop[k].gone
                         /\ hop'[k].open <=> k = "far" \/ hop[k].open
    BY <1>1, OpenFacts, Names
<1>3. \A k \in Hops, e \in Dirs :
          hop'[k].n[e] = CASE k = "mid" /\ e = "up" -> hop[k].n[e] - 0
                           [] k = "far" /\ e = "up" -> hop[k].n[e] + 0
                           [] OTHER                 -> hop[k].n[e]
    BY <1>1, <1>2 DEF Hop
<1> QED
    BY <1>2, <1>3, ServerOpens

LEMMA ServerAcceptInv == RelayInv /\ ServerAccept => RelayInv'
<1> SUFFICES ASSUME RelayInv, ServerAccept PROVE RelayInv'
    OBVIOUS
<1>1. CASE server' = [server EXCEPT !.st = "Handshake"] /\ UNCHANGED <<hop, fault>>
    BY <1>1, ServerGoesOn DEF ServerAccept
<1>2. CASE hop' = Drop(hop, "mid", "server") /\ server' = [server EXCEPT !.st = "Done"] /\ fault' = TRUE
    BY <1>2, ServerGivesUp DEF ServerAccept
<1> QED
    BY <1>1, <1>2 DEF ServerAccept

LEMMA ServerHandshakeInv == RelayInv /\ ServerHandshake => RelayInv'
<1> SUFFICES ASSUME RelayInv, ServerHandshake PROVE RelayInv'
    OBVIOUS
<1>1. CASE ends.header = "good" /\ server' = [server EXCEPT !.st = "Connect"] /\ UNCHANGED <<hop, fault>>
    BY <1>1, ServerGoesOn DEF ServerHandshake
<1>2. CASE hop' = Drop(hop, "mid", "server") /\ server' = [server EXCEPT !.st = "Done"] /\ fault' = TRUE
    BY <1>2, ServerGivesUp DEF ServerHandshake
<1>3. CASE server' = [server EXCEPT !.st = "Ignore"] /\ UNCHANGED hop /\ fault' = TRUE
    BY <1>3, ServerGoesOn DEF ServerHandshake
<1> QED
    BY <1>1, <1>2, <1>3 DEF ServerHandshake

\* Draining a connection after a bad header, the one step that loses bytes.
LEMMA IgnoreInv == RelayInv /\ IgnoreUntilEnd => RelayInv'
<1> SUFFICES ASSUME RelayInv, IgnoreUntilEnd PROVE RelayInv'
    OBVIOUS
<1>1. Types /\ BytesKept /\ Stages /\ NothingToSend /\ DoneIsFlushed
    BY DEF RelayInv, RelayTypeOK, Types
<1>2. server.st = "Ignore" /\ fault = TRUE /\ fault' = TRUE /\ UNCHANGED <<local, ends>>
    BY <1>1 DEF IgnoreUntilEnd, Stages, Types
<1>3. CASE hop' = Drop(hop, "mid", "server") /\ server' = [server EXCEPT !.st = "Done"]
    BY <1>2, <1>3, ServerGivesUp
<1>4. CASE hop' = Drain(hop, "mid", "up") /\ UNCHANGED server
    <2>1. /\ hop' \in [Hops -> Hop] /\ SameSockets(hop, hop')
          /\ \A k \in Hops, e \in Dirs :
                hop'[k].n[e] = IF k = "mid" /\ e = "up" THEN 0 ELSE hop[k].n[e]
        BY <1>1, <1>4, DrainFacts, Names DEF Types
    <2>2. Types'
        BY <1>1, <1>2, <1>4, <2>1 DEF Types
    <2>3. BytesKept'
        BY <1>1, <1>2, <1>4, <2>1 DEF Types, BytesKept, OnTheWay, Hops, Dirs, Hop
    <2>4. Stages' /\ NothingToSend' /\ DoneIsFlushed'
        BY <1>1, <1>2, <1>4, <2>1
           DEF Hops, Dirs, SameSockets, Stages, NothingToSend, DoneIsFlushed, Quiet, Handler, To, Left, Right
    <2> QED
        BY <2>2, <2>3, <2>4, Bounded DEF RelayInv
<1> QED
    BY <1>3, <1>4 DEF IgnoreUntilEnd

LEMMA ServerConnectInv == RelayInv /\ ServerConnect => RelayInv'
<1> SUFFICES ASSUME RelayInv, ServerConnect PROVE RelayInv'
    OBVIOUS
<1>1. CASE server.fastopen /\ server' = [server EXCEPT !.st = "FirstRead"] /\ UNCHANGED <<hop, fault>>
    <2>1. ends.header = "good"
        BY DEF RelayInv, Stages, ServerConnect
    <2> QED
        BY <1>1, <2>1, ServerGoesOn DEF ServerConnect
<1>2. CASE server' = [server EXCEPT !.st = "Copy"] /\ hop' = Open(hop, "far") /\ UNCHANGED fault
    BY <1>2, ServerOpensAtOnce DEF ServerConnect
<1>3. CASE hop' = Drop(hop, "mid", "server") /\ server' = [server EXCEPT !.st = "Done"] /\ fault' = TRUE
    BY <1>3, ServerGivesUp DEF ServerConnect
<1> QED
    BY <1>1, <1>2, <1>3 DEF ServerConnect

\* EOF in place of the first bytes is where a connection may end early.
LEMMA ServerFirstReadInv == RelayInv /\ ServerFirstRead => RelayInv'
<1> SUFFICES ASSUME RelayInv, ServerFirstRead PROVE RelayInv'
    OBVIOUS
<1>1. Types /\ BytesKept /\ Stages /\ NothingToSend /\ DoneIsFlushed
    BY DEF RelayInv, RelayTypeOK, Types
<1>2. server.st = "FirstRead" /\ UNCHANGED <<local, ends, fault>>
    BY DEF ServerFirstRead
<1>3. CASE AtEof("mid", "up") /\ hop' = Drop(hop, "mid", "server") /\ server' = [server EXCEPT !.st = "Done"]
    <2>1. /\ hop' \in [Hops -> Hop]
          /\ \A k \in Hops : hop'[k].n = hop[k].n /\ hop'[k].fin = hop[k].fin /\ hop'[k].open = hop[k].open
        BY <1>1, <1>3, DropFacts, Names DEF Types
    <2>2. Types'
        BY <1>1, <1>2, <1>3, <2>1 DEF Types
    <2>3. BytesKept'
        BY <1>1, <1>2, <1>3, <2>1 DEF BytesKept, OnTheWay, Hops
    <2>4. Stages'
        BY <1>1, <1>2, <1>3, <2>1 DEF Hops, Dirs, Types, Stages, Handler, To, Left, Right
    <2>5. ~Quiet'
        BY <1>1, <1>2, <1>3, <2>1 DEF Hops, Types, Stages, Quiet, EndedEarly
    <2>6. NothingToSend'
        <3> SUFFICES ASSUME ~fault PROVE /\ ends.header = "good" /\ hop["app"].fin["up"]
                                         /\ hop["app"].n["up"] = 0 /\ hop["mid"].n["up"] = 0
            BY <1>2, <2>1, Names DEF NothingToSend
        <3>1. Quiet /\ ends.header = "good"
            BY <1>1, <1>2 DEF Quiet, EndedEarly, Stages
        <3>2. hop["mid"].n["up"] = 0 /\ hop["mid"].fin["up"]
            BY <1>1, <1>3, <3>1, Names DEF AtEof, DoneIsFlushed
        <3>3. local.copy["up"] = "Done"
            BY <1>1, <3>2, Names DEF Stages, Handler, To, Right
        <3> QED
            BY <1>1, <3>1, <3>2, <3>3, Names DEF DoneIsFlushed, Handler, From, Left
    <2> QED
        BY <2>2, <2>3, <2>4, <2>5, <2>6, Bounded DEF RelayInv, DoneIsFlushed
<1>4. CASE /\ Readable("mid", "up") /\ hop' = Open(Put(Take(hop, "mid", "up"), "far", "up"), "far")
           /\ server' = [server EXCEPT !.st = "Copy"]
    <2> DEFINE f == Put(Take(hop, "mid", "up"), "far", "up")
    <2>1. /\ f \in [Hops -> Hop] /\ SameSockets(hop, f)
          /\ \A k \in Hops, e \in Dirs :
                f[k].n[e] = CASE k = "mid" /\ e = "up" -> hop[k].n[e] - 1
                              [] k = "far" /\ e = "up" -> hop[k].n[e] + 1
                              [] OTHER                 -> hop[k].n[e]
        BY <1>1, <1>4, MoveFacts, Names DEF Types, Readable
    <2> HIDE DEF f
    <2>2. hop' = Open(f, "far")
        BY <1>4 DEF f
    <2>3. /\ hop' \in [Hops -> Hop]
          /\ \A k \in Hops : /\ hop'[k].n = f[k].n /\ hop'[k].fin = f[k].fin /\ hop'[k].gone = f[k].gone
                             /\ hop'[k].open <=> k = "far" \/ f[k].open
        BY <2>1, <2>2, OpenFacts, Names
    <2>4. \A k \in Hops : /\ hop'[k].fin = hop[k].fin /\ hop'[k].gone = hop[k].gone
                          /\ hop'[k].open <=> k = "far" \/ hop[k].open
        BY <2>1, <2>3 DEF SameSockets
    <2>5. \A k \in Hops, e \in Dirs :
             hop'[k].n[e] = CASE k = "mid" /\ e = "up" -> hop[k].n[e] - 1
                              [] k = "far" /\ e = "up" -> hop[k].n[e] + 1
                              [] OTHER                 -> hop[k].n[e]
        BY <2>1, <2>3
    <2> QED
        BY <1>2, <1>4, <2>3, <2>4, <2>5, ServerOpens
<1>5. CASE hop' = Open(hop, "far") /\ server' = [server EXCEPT !.st = "Copy"]
    BY <1>2, <1>5, ServerOpensAtOnce
<1> QED
    BY <1>3, <1>4, <1>5 DEF ServerFirstRead

-----------------------------------------------------------------------------
(***************************************************************************)
(* copy_bidirectional, at either relay.                                    *)
(***************************************************************************)

LEMMA Between ==
    ASSUME NEW n \in {"local", "server"}, NEW d \in Dirs
    PROVE  From(n, d) \in Hops /\ To(n, d) \in Hops /\ From(n, d) # To(n, d)
BY DEF From, To, Left, Right, Hops, Dirs

\* A byte moves on: its direction is running, so nobody has read to its end.
LEMMA MoveInv ==
    ASSUME RelayInv, NEW n \in {"local", "server"}, NEW d \in Dirs,
           Handler(n).st = "Copy", Handler(n).copy[d] = "Running", Readable(From(n, d), d),
           hop' = Put(Take(hop, From(n, d), d), To(n, d), d), UNCHANGED <<local, server, ends, fault>>
    PROVE  RelayInv'
<1>1. Types /\ BytesKept /\ Stages /\ NothingToSend /\ DoneIsFlushed
    BY DEF RelayInv, RelayTypeOK, Types
<1>2. /\ hop' \in [Hops -> Hop] /\ SameSockets(hop, hop')
      /\ \A k \in Hops, e \in Dirs :
            hop'[k].n[e] = CASE k = From(n, d) /\ e = d -> hop[k].n[e] - 1
                             [] k = To(n, d) /\ e = d   -> hop[k].n[e] + 1
                             [] OTHER                   -> hop[k].n[e]
    BY <1>1, Between, MoveFacts DEF Types, Readable
<1>3. Types'
    BY <1>1, <1>2 DEF Types
<1>4. BytesKept'
    BY <1>1, <1>2 DEF Types, BytesKept, OnTheWay, Hops, Dirs, Hop, From, To, Left, Right
<1>5. Stages'
    BY <1>1, <1>2
       DEF Hops, Dirs, Types, Hop, SameSockets, Stages, Handler, From, To, Left, Right
<1>6. NothingToSend'
    BY <1>1, <1>2
       DEF Hops, Dirs, Types, Hop, SameSockets, Stages, NothingToSend, EndedEarly, Handler, From, To,
           Left, Right, Readable
<1>7. DoneIsFlushed'
    <2>1. /\ Quiet' <=> Quiet /\ \A m \in {"local", "server"} : Handler(m)' = Handler(m)
        BY <1>2, Names DEF Quiet, EndedEarly, SameSockets, Handler
    <2>2. ASSUME NEW m \in {"local", "server"}, NEW e \in Dirs, Quiet, Handler(m).copy[e] = "Done"
          PROVE  hop'[From(m, e)].n[e] = 0 /\ hop'[From(m, e)].fin[e] /\ hop'[To(m, e)].fin[e]
        <3>1. hop[From(m, e)].n[e] = 0 /\ hop[From(m, e)].fin[e] /\ hop[To(m, e)].fin[e]
            BY <1>1, <2>2 DEF DoneIsFlushed
        <3>2. ~(From(m, e) = From(n, d) /\ e = d)
            BY <3>1 DEF Readable
        <3>3. ~(From(m, e) = To(n, d) /\ e = d)
            BY <1>1, <3>1 DEF Stages
        <3> QED
            BY <1>2, <3>1, <3>2, <3>3, Between DEF SameSockets
    <2> QED
        BY <1>1, <1>2, <2>1, <2>2 DEF DoneIsFlushed, SameSockets
<1> QED
    BY <1>3, <1>4, <1>5, <1>6, <1>7, Bounded DEF RelayInv

\* A direction ends: its source is at EOF and the FIN is passed on.
LEMMA ShutdownInv ==
    ASSUME RelayInv, NEW n \in {"local", "server"}, NEW d \in Dirs,
           Handler(n).st = "Copy", AtEof(From(n, d), d), hop' = Fin(hop, To(n, d), d),
           SetHandler(n, [Handler(n) EXCEPT !.copy[d] = "Done"]), UNCHANGED <<ends, fault>>
    PROVE  RelayInv'
<1>1. Types /\ BytesKept /\ Stages /\ NothingToSend /\ DoneIsFlushed
    BY DEF RelayInv, RelayTypeOK, Types
<1>2. /\ hop' \in [Hops -> Hop]
      /\ \A k \in Hops : hop'[k].open = hop[k].open /\ hop'[k].n = hop[k].n /\ hop'[k].gone = hop[k].gone
      /\ \A k \in Hops, e \in Dirs :
            hop'[k].fin[e] <=> (k = To(n, d) /\ e = d) \/ hop[k].fin[e]
    <2> DEFINE h == To(n, d)
    <2>1. h \in Hops /\ hop' = Fin(hop, h, d) /\ hop \in [Hops -> Hop]
        BY <1>1, Between DEF Types
    <2> HIDE DEF h
    <2>2. /\ hop' \in [Hops -> Hop]
          /\ \A k \in Hops : hop'[k].open = hop[k].open /\ hop'[k].n = hop[k].n /\ hop'[k].gone = hop[k].gone
          /\ \A k \in Hops, e \in Dirs : hop'[k].fin[e] <=> (k = h /\ e = d) \/ hop[k].fin[e]
        BY <2>1, FinFacts
    <2> QED
        BY <2>2 DEF h
<1>3. /\ \A m \in {"local", "server"} :
            /\ Handler(m)'.st = Handler(m).st
            /\ \A e \in Dirs : Handler(m)'.copy[e] = IF m = n /\ e = d THEN "Done" ELSE Handler(m).copy[e]
      /\ local' \in [st : {"Accepted", "FirstPacket", "Copy", "Done"},
                     copy : [Dirs -> {"Running", "Done"}]]
      /\ server' \in [st : {"Idle", "Accept", "Handshake", "Ignore", "Connect", "FirstRead", "Copy",
                            "Done"},
                      copy : [Dirs -> {"Running", "Done"}], aead2022 : BOOLEAN, fastopen : BOOLEAN]
    BY <1>1 DEF SetHandler, Handler, Types
<1>4. Types'
    BY <1>1, <1>2, <1>3 DEF Types
<1>5. BytesKept'
    BY <1>1, <1>2 DEF BytesKept, OnTheWay, Hops
<1>6. Stages'
    BY <1>1, <1>2, <1>3
       DEF Hops, Dirs, Types, Stages, SetHandler, Handler, To, Left, Right
<1>7. NothingToSend'
    BY <1>1, <1>2, <1>3 DEF Hops, Dirs, NothingToSend, EndedEarly, Handler
<1>8. DoneIsFlushed'
    BY <1>1, <1>2, <1>3
       DEF Hops, Dirs, Types, AtEof, DoneIsFlushed, Quiet, EndedEarly, Handler, From, To, Left, Right, BothDone
<1> QED
    BY <1>4, <1>5, <1>6, <1>7, <1>8, Bounded DEF RelayInv

\* A handler ends and drops its sockets: unnoticed if nothing broke, since
\* then both directions are done; otherwise the connection was broken before.
LEMMA EndInv ==
    ASSUME RelayInv, NEW n \in {"local", "server"}, Handler(n).st = "Copy", DropBoth(n),
           SetHandler(n, [Handler(n) EXCEPT !.st = "Done"]), UNCHANGED <<ends, fault>>,
           Quiet => BothDone(Handler(n))
    PROVE  RelayInv'
<1>1. Types /\ BytesKept /\ Stages /\ NothingToSend /\ DoneIsFlushed
    BY DEF RelayInv, RelayTypeOK, Types
<1>2. /\ hop' \in [Hops -> Hop]
      /\ \A k \in Hops : hop'[k].n = hop[k].n /\ hop'[k].fin = hop[k].fin /\ hop'[k].open = hop[k].open
      /\ Flushed(hop[Left(n)], n, Left(n)) /\ Flushed(hop[Right(n)], n, Right(n)) =>
            \A k \in Hops : hop'[k].gone = hop[k].gone
    BY <1>1, DropBothFacts DEF Types
<1>3. /\ \A m \in {"local", "server"} :
            /\ Handler(m)'.st = IF m = n THEN "Done" ELSE Handler(m).st
            /\ Handler(m)'.copy = Handler(m).copy
      /\ local' \in [st : {"Accepted", "FirstPacket", "Copy", "Done"},
                     copy : [Dirs -> {"Running", "Done"}]]
      /\ server' \in [st : {"Idle", "Accept", "Handshake", "Ignore", "Connect", "FirstRead", "Copy",
                            "Done"},
                      copy : [Dirs -> {"Running", "Done"}], aead2022 : BOOLEAN, fastopen : BOOLEAN]
    BY <1>1 DEF SetHandler, Handler, Types
<1>4. Types'
    BY <1>1, <1>2, <1>3 DEF Types
<1>5. BytesKept'
    BY <1>1, <1>2 DEF BytesKept, OnTheWay, Hops
<1>6. Stages'
    BY <1>1, <1>2, <1>3 DEF Hops, Dirs, Types, Stages, Handler, To, Left, Right
<1>7. EndedEarly' => EndedEarly
    BY <1>1, <1>2, <1>3, Names DEF EndedEarly, Stages, Handler
<1>8. NothingToSend'
    BY <1>1, <1>2, <1>7, Names DEF NothingToSend
<1>9. Quiet' => Quiet
    BY <1>1, <1>2, <1>3, Names DEF Quiet, EndedEarly, Handler
<1>10. Quiet => Flushed(hop[Left(n)], n, Left(n)) /\ Flushed(hop[Right(n)], n, Right(n))
    BY <1>1, Names DEF DoneIsFlushed, Flushed, BothDone, Handler, From, To, Left, Right
<1>11. DoneIsFlushed'
    BY <1>1, <1>2, <1>3, <1>9, <1>10 DEF DoneIsFlushed, BothDone, Hops, Dirs, From, To, Left, Right
<1> QED
    BY <1>4, <1>5, <1>6, <1>8, <1>11, Bounded DEF RelayInv

LEMMA TransferInv ==
    ASSUME RelayInv, NEW n \in {"local", "server"}, NEW d \in Dirs,
           TransferOneDirection(n, d)
    PROVE  RelayInv'
<1>1. Handler(n).st = "Copy" /\ Handler(n).copy[d] = "Running" /\ UNCHANGED <<ends, fault>>
    BY DEF TransferOneDirection
<1>2. CASE /\ Readable(From(n, d), d) /\ hop' = Put(Take(hop, From(n, d), d), To(n, d), d)
           /\ SetHandler(n, Handler(n))
    BY <1>1, <1>2, MoveInv DEF SetHandler, Handler
<1>3. CASE /\ AtEof(From(n, d), d) /\ hop' = PollShutdown(To(n, d), d)
           /\ SetHandler(n, [Handler(n) EXCEPT !.copy[d] = "Done"])
    BY <1>1, <1>3, ShutdownInv DEF PollShutdown
<1>4. CASE /\ (Broken(From(n, d)) \/ Broken(To(n, d))) /\ DropBoth(n)
           /\ SetHandler(n, [Handler(n) EXCEPT !.st = "Done"])
    <2>1. ~Quiet
        BY <1>4, Between DEF RelayInv, DoneIsFlushed, Broken
    <2> QED
        BY <1>1, <1>4, <2>1, EndInv
<1> QED
    BY <1>2, <1>3, <1>4 DEF TransferOneDirection

LEMMA CopyInv ==
    ASSUME RelayInv, NEW n \in {"local", "server"}, CopyBidirectional(n)
    PROVE  RelayInv'
BY EndInv DEF CopyBidirectional

LEMMA RelayStep == RelayInv /\ [RelayNext]_relayVars => RelayInv'
<1> SUFFICES ASSUME RelayInv, [RelayNext]_relayVars PROVE RelayInv'
    OBVIOUS
<1>1. CASE LocalStep
    BY <1>1, LocalConnectInv, LocalFirstPacketInv, TransferInv, CopyInv, Names DEF LocalStep
<1>2. CASE ServerStep
    BY <1>2, ServerAcceptInv, ServerHandshakeInv, IgnoreInv, ServerConnectInv, ServerFirstReadInv,
       TransferInv, CopyInv, Names DEF ServerStep
<1>3. CASE Peers \/ Break
    BY <1>3, PeerBytes, PeerCloses, BreakInv DEF Peers
<1>4. CASE UNCHANGED relayVars
    BY <1>4
       DEF relayVars, RelayInv, RelayTypeOK, BytesKept, OnTheWay, Stages, NothingToSend, EndedEarly,
           DoneIsFlushed, Quiet, Handler, BothDone
<1> QED
    BY <1>1, <1>2, <1>3, <1>4 DEF RelayNext

\* The inductive invariant of the two relays.
THEOREM RelayInvariant == RelaySpec => []RelayInv
<1>1. RelayInit => RelayInv
    BY RelayStarts
<1>2. RelayInv /\ [RelayNext]_relayVars => RelayInv'
    BY RelayStep
<1> QED
    BY <1>1, <1>2, PTL DEF RelaySpec

\* Closing one direction leaves the other open: two relays that end without a
\* fault have passed on every byte of both sides, however many there were.
THEOREM NothingIsLost == RelaySpec => []HalfCloseKeepsTheRest
<1>1. RelayInv => HalfCloseKeepsTheRest
    <2> SUFFICES ASSUME RelayInv, local.st = "Done", server.st = "Done", ~fault, ends.header = "good"
                 PROVE  /\ ends.appGot + hop["app"].n["down"] = ends.targetSent
                        /\ ends.targetGot + hop["far"].n["up"] = ends.appSent
        BY DEF HalfCloseKeepsTheRest, RelayInv
    <2>1. \A h \in Hops, d \in Dirs : hop[h].n[d] \in Nat
        BY DEF RelayInv, RelayTypeOK, Hop
    <2>2. CASE EndedEarly
        <3>1. /\ hop["app"].n["up"] = 0 /\ hop["mid"].n["up"] = 0 /\ hop["far"].n["up"] = 0
              /\ ends.targetSent = 0 /\ ends.targetGot = 0
            BY <2>2 DEF RelayInv, NothingToSend, EndedEarly, Stages
        <3>2. ends.appGot \in Nat /\ ends.appSent \in Nat
            BY DEF RelayInv, RelayTypeOK
        <3>3. OnTheWay("up") + 0 = ends.appSent /\ OnTheWay("down") + ends.appGot = 0
            BY <3>1 DEF RelayInv, BytesKept
        <3> QED
            BY <2>1, <3>1, <3>2, <3>3, Names DEF OnTheWay
    <2>3. CASE ~EndedEarly
        <3>1. Quiet
            BY <2>3 DEF Quiet
        <3>2. \A n \in {"local", "server"}, d \in Dirs : hop[From(n, d)].n[d] = 0
            BY <3>1 DEF RelayInv, DoneIsFlushed, BothDone, Handler, Dirs
        <3>3. /\ hop["app"].n["up"] = 0 /\ hop["mid"].n["up"] = 0
              /\ hop["mid"].n["down"] = 0 /\ hop["far"].n["down"] = 0
            BY <3>2 DEF From, Left, Right, Dirs
        <3> QED
            BY <2>1, <3>3, Names DEF RelayInv, RelayTypeOK, BytesKept, OnTheWay
    <2> QED
        BY <2>2, <2>3
<1>2. RelaySpec => []RelayInv
    BY RelayInvariant
<1> QED
    BY <1>1, <1>2, PTL
=============================================================================
