------------------------------ MODULE ServiceProofs ------------------------------
(***************************************************************************)
(* Theorems about module Service and the modules it extends: what is       *)
(* accepted by validation builds a pool in which backends share an address *)
(* only under two spellings, and then round robin goes round and the IP    *)
(* hash is stable, for every set of files, every number of clients and     *)
(* every width of the counter.                                             *)
(***************************************************************************)
EXTENDS Service, SetLemmas, SequenceTheorems

(***************************************************************************)
(* The IP hash.                                                            *)
(***************************************************************************)
HashRange == 0..6270

Octet == 0..255

\* No step of hash_ip leaves the range of its modulus, and none comes near the
\* limit of a usize of even 32 bits (ip_hash.rs, hash_ip).
THEOREM HashStepInRange ==
    ASSUME NEW hash \in HashRange, NEW byte \in Octet
    PROVE  /\ HashStep(hash, byte) \in HashRange
           /\ hash * 113 + byte < 4294967296
BY SMT DEF HashStep, HashRange, Octet

\* From one hash, two octets lead to two hashes.
LEMMA HashStepSeparates ==
    ASSUME NEW hash \in HashRange, NEW a \in Octet, NEW b \in Octet, a # b
    PROVE  HashStep(hash, a) # HashStep(hash, b)
BY SMTT(30) DEF HashStep, HashRange, Octet

\* The step is one-to-one in the hash too: 113 and 6271 have no common divisor.
LEMMA HashStepInjective ==
    ASSUME NEW g \in HashRange, NEW h \in HashRange, g # h, NEW byte \in Octet
    PROVE  HashStep(g, byte) # HashStep(h, byte)
<1>1. PICK q \in Int : q = (g * 113 + byte) \div 6271
  BY SMT DEF HashRange, Octet
<1>2. PICK r \in Int : r = (h * 113 + byte) \div 6271
  BY SMT DEF HashRange, Octet
<1>3. g * 113 + byte = 6271 * q + HashStep(g, byte)
  BY SMT, <1>1 DEF HashStep, HashRange, Octet
<1>4. h * 113 + byte = 6271 * r + HashStep(h, byte)
  BY SMT, <1>2 DEF HashStep, HashRange, Octet
<1>5. SUFFICES ASSUME HashStep(g, byte) = HashStep(h, byte) PROVE FALSE
  OBVIOUS
<1>6. PICK d \in Int : d = g - h
  BY SMT DEF HashRange
<1>7. PICK e \in Int : e = q - r
  BY SMT
<1>8. HashStep(g, byte) \in Int
  BY SMT DEF HashStep, HashRange, Octet
<1>9. 113 * d = 6271 * e
  BY SMT, <1>3, <1>4, <1>5, <1>6, <1>7, <1>8 DEF HashRange, Octet
<1>10. d # 0 /\ d < 6271 /\ d > -6271
  BY SMT, <1>6 DEF HashRange
<1>11. e < 113 /\ e > -113
  BY SMT, <1>9, <1>10
<1>12. PICK m \in Int : m = d - 55 * e
  BY SMT
<1>13. 113 * m = 56 * e
  BY SMT, <1>9, <1>12
<1>14. PICK k \in Int : k = e - 2 * m
  BY SMT
<1>15. 56 * k = m
  BY SMT, <1>13, <1>14
<1>16. e = 113 * k
  BY SMT, <1>14, <1>15
<1>17. k = 0
  BY SMT, <1>11, <1>16
<1>18. QED
  BY SMT, <1>9, <1>10, <1>16, <1>17

\* it holds the hash after each of the first n octets.
Hashes(octets, n, it) ==
    it = [k \in 0..n |-> IF k = 0 THEN 89 ELSE HashStep(it[k - 1], octets[k])]

LEMMA HashIsLast ==
    ASSUME NEW octets
    PROVE  HashIp(octets) = (CHOOSE it : Hashes(octets, Len(octets), it))[Len(octets)]
BY Zenon DEF HashIp, HashFrom, Hashes

\* The recursion has a solution, with every hash in range.
LEMMA HashesExist ==
    ASSUME NEW octets \in Seq(Octet)
    PROVE  \E it \in [0..Len(octets) -> HashRange] : Hashes(octets, Len(octets), it)
<1> DEFINE P == {n \in Nat : n <= Len(octets) => \E it \in [0..n -> HashRange] : Hashes(octets, n, it)}
<1>1. 0 \in P
  <2> DEFINE it == [k \in 0..0 |-> 89]
  <2>1. it \in [0..0 -> HashRange] /\ Hashes(octets, 0, it)
    BY SMT DEF Hashes, HashRange
  <2>2. QED
    BY <2>1
<1>2. ASSUME NEW n \in Nat, n \in P PROVE n + 1 \in P
  <2>1. SUFFICES ASSUME n + 1 <= Len(octets)
                 PROVE  \E it \in [0..(n + 1) -> HashRange] : Hashes(octets, n + 1, it)
    OBVIOUS
  <2>2. PICK it \in [0..n -> HashRange] : Hashes(octets, n, it)
    BY <1>2, <2>1
  <2> DEFINE next == [k \in 0..(n + 1) |-> IF k = 0 THEN 89 ELSE HashStep(it[k - 1], octets[k])]
  <2>3. \A k \in 0..n : next[k] = it[k]
    BY <2>2 DEF Hashes
  <2>4. \A k \in 0..(n + 1) : k # 0 => k - 1 \in 0..n /\ k - 1 \in 0..(n + 1) /\ k \in 1..Len(octets)
    BY <2>1
  <2>5. next \in [0..(n + 1) -> HashRange]
    <3>1. \A k \in 0..(n + 1) : k # 0 => it[k - 1] \in HashRange
      BY <2>2, <2>4
    <3>2. \A k \in 1..Len(octets) : octets[k] \in Octet
      OBVIOUS
    <3>3. \A k \in 0..(n + 1) : k # 0 => HashStep(it[k - 1], octets[k]) \in HashRange
      BY <2>4, <3>2, <3>1, HashStepInRange
    <3>4. 89 \in HashRange
      BY SMT DEF HashRange
    <3>5. QED
      BY <3>3, <3>4
  <2>6. \A k \in 0..(n + 1) : next[k] = IF k = 0 THEN 89 ELSE HashStep(next[k - 1], octets[k])
    <3>1. \A k \in 0..(n + 1) : k # 0 => next[k - 1] = it[k - 1]
      BY <2>3, <2>4
    <3>2. QED
      BY <3>1
  <2>7. Hashes(octets, n + 1, next)
    <3>1. next = [k \in 0..(n + 1) |-> next[k]]
      OBVIOUS
    <3> HIDE DEF next
    <3>2. QED
      BY <2>6, <3>1 DEF Hashes
  <2>8. QED
    <3> HIDE DEF next
    <3>1. QED
      BY <2>5, <2>7
<1>3. Nat \subseteq P
  <2> HIDE DEF P
  <2>1. QED
    BY <1>1, <1>2, NumberInduction
<1>4. QED
  BY <1>3

\* The first m octets of a and b are the same.
Common(a, b, m) ==
    /\ m \in Nat /\ m <= Len(a) /\ m <= Len(b)
    /\ \A k \in 1..m : a[k] = b[k]

\* Two solutions agree on the octets that they have in common.
LEMMA HashesAgree ==
    ASSUME NEW a \in Seq(Octet), NEW b \in Seq(Octet), NEW m, Common(a, b, m),
           NEW i, Hashes(a, Len(a), i), NEW j, Hashes(b, Len(b), j)
    PROVE  i[m] = j[m]
<1>1. m \in Nat /\ m <= Len(a) /\ m <= Len(b) /\ \A k \in 1..m : a[k] = b[k]
  BY DEF Common
<1> DEFINE P == {k \in Nat : k <= m => i[k] = j[k]}
<1>2. 0 \in P
  BY DEF Hashes
<1>3. ASSUME NEW k \in Nat, k \in P PROVE k + 1 \in P
  <2>1. SUFFICES ASSUME k + 1 <= m PROVE i[k + 1] = j[k + 1]
    OBVIOUS
  <2>2. i[k] = j[k] /\ a[k + 1] = b[k + 1]
    BY <1>1, <1>3, <2>1
  <2>3. i[k + 1] = HashStep(i[k], a[k + 1])
    BY <1>1, <2>1 DEF Hashes
  <2>4. j[k + 1] = HashStep(j[k], b[k + 1])
    BY <1>1, <2>1 DEF Hashes
  <2>5. QED
    BY <2>2, <2>3, <2>4
<1>4. Nat \subseteq P
  <2> HIDE DEF P
  <2>1. QED
    BY <1>2, <1>3, NumberInduction
<1>5. QED
  BY <1>1, <1>4

\* The hash is the last one of such a function.
LEMMA HashIsReached ==
    ASSUME NEW octets \in Seq(Octet)
    PROVE  \E it \in [0..Len(octets) -> HashRange] :
               Hashes(octets, Len(octets), it) /\ HashIp(octets) = it[Len(octets)]
<1>1. PICK i \in [0..Len(octets) -> HashRange] : Hashes(octets, Len(octets), i)
  BY HashesExist
<1>2. PICK j : j = CHOOSE it : Hashes(octets, Len(octets), it)
  OBVIOUS
<1>3. Hashes(octets, Len(octets), j) /\ HashIp(octets) = j[Len(octets)]
  BY <1>1, <1>2, HashIsLast
<1>4. Common(octets, octets, Len(octets))
  BY DEF Common
<1>5. i[Len(octets)] = j[Len(octets)]
  BY <1>1, <1>3, <1>4, HashesAgree
<1>6. QED
  BY <1>1, <1>3, <1>5

(***************************************************************************)
(* The hash of any address, however many octets it has, is below its       *)
(* modulus (ip_hash.rs, hash_ip).                                          *)
(***************************************************************************)
THEOREM HashInRange == ASSUME NEW octets \in Seq(Octet) PROVE HashIp(octets) \in HashRange
<1>1. PICK it \in [0..Len(octets) -> HashRange] : HashIp(octets) = it[Len(octets)]
  BY HashIsReached
<1>2. Len(octets) \in 0..Len(octets)
  OBVIOUS
<1>3. QED
  BY <1>1, <1>2

(***************************************************************************)
(* Two addresses that differ in one octet only, whichever it is, never     *)
(* have one hash before it is reduced to the number of backends            *)
(* (ip_hash.rs, hash_ip).                                                  *)
(***************************************************************************)
THEOREM HashSeparates ==
    ASSUME NEW a \in Seq(Octet), NEW b \in Seq(Octet), Len(a) = Len(b),
           NEW p \in 1..Len(a), a[p] # b[p], \A k \in 1..Len(a) : k # p => a[k] = b[k]
    PROVE  HashIp(a) # HashIp(b)
<1>1. PICK i \in [0..Len(a) -> HashRange] : Hashes(a, Len(a), i) /\ HashIp(a) = i[Len(a)]
  BY HashIsReached
<1>2. PICK j \in [0..Len(b) -> HashRange] : Hashes(b, Len(b), j) /\ HashIp(b) = j[Len(b)]
  BY HashIsReached
<1>3. PICK q \in Nat : q = p - 1
  OBVIOUS
<1>4. i[q] = j[q]
  <2>1. Common(a, b, q)
    BY <1>3 DEF Common
  <2>2. QED
    BY <1>1, <1>2, <2>1, HashesAgree
\* The hash at p, and any later one, is made of the hash before it.
<1>5. ASSUME NEW k \in Nat, k + 1 <= Len(a)
      PROVE  /\ i[k] \in HashRange /\ a[k + 1] \in Octet /\ i[k + 1] = HashStep(i[k], a[k + 1])
             /\ j[k] \in HashRange /\ b[k + 1] \in Octet /\ j[k + 1] = HashStep(j[k], b[k + 1])
  <2>1. k \in 0..Len(a) /\ k + 1 \in 0..Len(a) /\ k + 1 \in 1..Len(a) /\ (k + 1) - 1 = k /\ k + 1 # 0
    BY <1>5
  <2>2. i[k] \in HashRange /\ j[k] \in HashRange
    BY <1>1, <1>2, <2>1
  <2>3. a[k + 1] \in Octet /\ b[k + 1] \in Octet
    BY <2>1
  <2>4. i[k + 1] = HashStep(i[k], a[k + 1]) /\ j[k + 1] = HashStep(j[k], b[k + 1])
    BY <1>1, <1>2, <2>1 DEF Hashes
  <2>5. QED
    BY <2>2, <2>3, <2>4
<1>6. i[p] # j[p]
  <2>1. q + 1 <= Len(a) /\ q + 1 = p
    BY <1>3
  <2>2. i[q] \in HashRange
    BY <1>5, <2>1
  <2>3. i[p] = HashStep(i[q], a[p]) /\ j[p] = HashStep(i[q], b[p])
    BY <1>4, <1>5, <2>1
  <2>4. a[p] \in Octet /\ b[p] \in Octet
    BY <1>5, <2>1
  <2>5. QED
    BY <2>2, <2>3, <2>4, HashStepSeparates
<1> DEFINE P == {k \in Nat : p <= k /\ k <= Len(a) => i[k] # j[k]}
<1>7. 0 \in P
  OBVIOUS
<1>8. ASSUME NEW k \in Nat, k \in P PROVE k + 1 \in P
  <2>1. SUFFICES ASSUME p < k + 1, k + 1 <= Len(a) PROVE i[k + 1] # j[k + 1]
    BY <1>6
  <2>2. i[k] # j[k] /\ a[k + 1] = b[k + 1]
    BY <1>8, <2>1
  <2>3. QED
    BY <1>5, <2>1, <2>2, HashStepInjective
<1>9. Nat \subseteq P
  <2> HIDE DEF P
  <2>1. QED
    BY <1>7, <1>8, NumberInduction
<1>10. QED
  BY <1>1, <1>2, <1>9

(***************************************************************************)
(* Arithmetic of the counter of round robin.                               *)
(***************************************************************************)
\* A number is written in one way as a multiple of n and a remainder.
LEMMA Remainder ==
    ASSUME NEW q \in Nat, NEW r \in Nat, NEW n \in Nat \ {0}, r < n
    PROVE  (n * q + r) % n = r
BY Z3

\* The remainder of the next number is the next remainder.
LEMMA NextRemainder ==
    ASSUME NEW v \in Nat, NEW n \in Nat \ {0}
    PROVE  (v + 1) % n = IF v % n = n - 1 THEN 0 ELSE (v % n) + 1
<1> DEFINE q == v \div n
           r == v % n
<1>1. q \in Nat /\ r \in Nat /\ r < n /\ v = n * q + r
  OBVIOUS
<1> HIDE DEF q, r
<1>2. CASE r = n - 1
  <2>1. v + 1 = n * (q + 1) + 0
    BY <1>1, <1>2, Z3
  <2>2. q + 1 \in Nat /\ 0 \in Nat /\ 0 < n
    BY <1>1
  <2>3. (n * (q + 1) + 0) % n = 0
    BY <2>2, Remainder
  <2>4. QED
    BY <2>1, <2>3, <1>2 DEF r
<1>3. CASE r # n - 1
  <2>1. v + 1 = n * q + (r + 1)
    BY <1>1, Z3
  <2>2. r + 1 \in Nat /\ r + 1 < n
    BY <1>1, <1>3
  <2>3. (n * q + (r + 1)) % n = r + 1
    BY <1>1, <2>2, Remainder
  <2>4. QED
    BY <2>1, <2>3, <1>3 DEF r
<1>4. QED
  BY <1>2, <1>3

\* The last number before a multiple of n leaves the largest remainder.
LEMMA RemainderBefore ==
    ASSUME NEW n \in Nat \ {0}, NEW s \in Nat \ {0}, s % n = 0
    PROVE  (s - 1) % n = n - 1
<1>1. PICK v : v = s - 1
  OBVIOUS
<1>2. v \in Nat /\ v + 1 = s
  BY <1>1
<1>3. s % n = IF v % n = n - 1 THEN 0 ELSE (v % n) + 1
  <2>1. (v + 1) % n = IF v % n = n - 1 THEN 0 ELSE (v % n) + 1
    BY <1>2, NextRemainder
  <2>2. QED
    BY <1>2, <2>1
<1>4. v % n \in 0..(n - 1)
  BY <1>2
<1>5. v % n = n - 1
  BY <1>3, <1>4
<1>6. QED
  BY <1>1, <1>5

---------------------------------------------------------------------------------
(***************************************************************************)
(* Configuration.                                                          *)
(***************************************************************************)
IsList(s) == \E n \in Nat : DOMAIN s = 1..n /\ Len(s) = n

\* What validation has established of the backends of a configuration.
Valid(backends) ==
    /\ IsList(backends)
    /\ Len(backends) # 0
    /\ \A i \in DOMAIN backends : Parses(backends[i].addr)
    /\ \A i, j \in DOMAIN backends : i # j => backends[i].addr # backends[j].addr

\* A function on an initial segment of the numbers is a list of that length.
LEMMA ListOf ==
    ASSUME NEW s, NEW n \in Nat, DOMAIN s = 1..n, s = [i \in 1..n |-> s[i]]
    PROVE  IsList(s) /\ Len(s) = n
<1>1. s \in [1..n -> {s[i] : i \in 1..n}]
  OBVIOUS
<1>2. s \in Seq({s[i] : i \in 1..n})
  BY <1>1
<1>3. Len(s) \in Nat /\ DOMAIN s = 1..Len(s)
  BY <1>2
<1>4. Len(s) = n
  BY <1>3
<1>5. QED
  BY <1>4 DEF IsList

\* As many texts as backends means that no two backends have the same text.
LEMMA CountedDistinct ==
    ASSUME NEW addrs, NEW n \in Nat, DOMAIN addrs = 1..n, addrs = [i \in 1..n |-> addrs[i]],
           Cardinality({addrs[i] : i \in 1..n}) = n
    PROVE  \A i, j \in 1..n : i # j => addrs[i] # addrs[j]
<1> DEFINE T == {addrs[i] : i \in 1..n}
<1>1. IsFiniteSet(1..n) /\ Cardinality(1..n) = n
  BY FS_Interval
<1>2. addrs \in Surjection(1..n, T)
  BY DEF Surjection
<1>3. IsFiniteSet(T)
  BY <1>1, <1>2, FS_Surjection DEF ExistsSurjection
<1>4. addrs \in Injection(1..n, T)
  BY <1>1, <1>2, FS_SurjSameCardinalityImpliesInj
<1>5. QED
  BY <1>4 DEF Injection, IsInjective

\* The addresses of a list are a list of the same length.
LEMMA AddrsFacts ==
    ASSUME NEW backends, IsList(backends)
    PROVE  /\ Addrs(backends) = [i \in DOMAIN backends |-> backends[i].addr]
           /\ DOMAIN Addrs(backends) = DOMAIN backends
           /\ Len(Addrs(backends)) = Len(backends)
           /\ Len(backends) \in Nat /\ DOMAIN backends = 1..Len(backends)
<1>1. PICK n \in Nat : DOMAIN backends = 1..n /\ Len(backends) = n
  BY DEF IsList
<1>2. DOMAIN Addrs(backends) = 1..n /\ Addrs(backends) = [i \in 1..n |-> Addrs(backends)[i]]
  BY <1>1 DEF Addrs
<1>3. Len(Addrs(backends)) = n
  BY <1>2, ListOf
<1>4. QED
  BY <1>1, <1>2, <1>3 DEF Addrs

\* What Validate accepts is valid, and it changes nothing.
LEMMA ValidateFacts ==
    ASSUME NEW c, IsList(c.backends)
    PROVE  \/ Validate(c) = Ok(c) /\ Valid(c.backends)
           \/ \E r \in {"ZeroBackends", "DuplicateBackendAddrs", "InvalidAddrs"} : Validate(c) = Err(r)
<1> DEFINE addrs == Addrs(c.backends)
<1>1. /\ addrs = [i \in DOMAIN c.backends |-> c.backends[i].addr]
      /\ Len(addrs) = Len(c.backends)
      /\ Len(c.backends) \in Nat /\ DOMAIN c.backends = 1..Len(c.backends)
  BY AddrsFacts
<1>2. CASE /\ Len(addrs) # 0
           /\ Cardinality({addrs[i] : i \in DOMAIN addrs}) = Len(addrs)
           /\ \A i \in DOMAIN addrs : Parses(addrs[i])
  <2>1. Validate(c) = Ok(c)
    BY <1>2 DEF Validate
  <2>2. \A i, j \in 1..Len(addrs) : i # j => addrs[i] # addrs[j]
    <3>1. /\ DOMAIN addrs = 1..Len(addrs)
          /\ addrs = [i \in 1..Len(addrs) |-> addrs[i]]
          /\ Cardinality({addrs[i] : i \in 1..Len(addrs)}) = Len(addrs)
      BY <1>1, <1>2
    <3>2. QED
      BY <3>1, <1>1, CountedDistinct
  <2>3. Valid(c.backends)
    <3> DEFINE b == c.backends
    <3>1. /\ IsList(b) /\ Len(b) # 0 /\ DOMAIN b = 1..Len(addrs) /\ DOMAIN addrs = DOMAIN b
          /\ \A i \in DOMAIN b : addrs[i] = b[i].addr
      BY <1>1, <1>2
    <3> HIDE DEF addrs, b
    <3>2. \A i \in DOMAIN b : Parses(b[i].addr)
      BY <1>2, <3>1
    <3>3. \A i, j \in DOMAIN b : i # j => b[i].addr # b[j].addr
      BY <2>2, <3>1
    <3>4. Valid(b)
      BY <3>1, <3>2, <3>3 DEF Valid
    <3>5. QED
      BY <3>4 DEF b
  <2>4. QED
    BY <2>1, <2>3
<1>3. CASE Len(addrs) = 0
  BY <1>3 DEF Validate
<1>4. CASE /\ Len(addrs) # 0
           /\ Cardinality({addrs[i] : i \in DOMAIN addrs}) # Len(addrs)
  BY <1>4 DEF Validate
<1>5. CASE /\ Len(addrs) # 0
           /\ Cardinality({addrs[i] : i \in DOMAIN addrs}) = Len(addrs)
           /\ ~\A i \in DOMAIN addrs : Parses(addrs[i])
  BY <1>5 DEF Validate
<1>6. QED
  BY <1>2, <1>3, <1>4, <1>5

\* What from_file returns.
LEMMA FromFileFacts ==
    ASSUME NEW file \in Files
    PROVE  \/ /\ FromFile(file).ok = TRUE
              /\ Valid(FromFile(file).value.backends)
              /\ FromFile(file).value.algorithm \in Algorithms
           \/ /\ FromFile(file).ok = FALSE
              /\ FromFile(file).reason \in
                    {"Io", "Parse", "ZeroBackends", "DuplicateBackendAddrs", "InvalidAddrs"}
<1> DEFINE given == [i \in DOMAIN file.backends |-> Fill(file.backends[i], DefaultWeight)]
           filled == Fill(Fill([backends |-> given], file.settings), DefaultConfig)
           c == [filled EXCEPT !.health_check = Fill(@, DefaultHealthCheck),
                               !.timeouts = Fill(@, DefaultTimeouts)]
<1>1. CASE ~file.readable
  BY <1>1 DEF FromFile, Err
<1>2. CASE file.readable /\ (~file.toml \/ \E i \in DOMAIN given : "addr" \notin DOMAIN given[i])
  <2>1. FromToml(file) = Err("Parse")
    BY <1>2 DEF FromToml
  <2>2. QED
    BY <1>2, <2>1 DEF FromFile, Err
<1>3. CASE file.readable /\ file.toml /\ ~\E i \in DOMAIN given : "addr" \notin DOMAIN given[i]
  <2>1. FromToml(file) = Ok(c)
    BY <1>3 DEF FromToml
  <2>2. FromFile(file) = Validate(c)
    BY <1>3, <2>1 DEF FromFile, Ok
  <2>3. c.backends = given /\ c.algorithm \in Algorithms
    <3>1. filled = [k \in DOMAIN filled |-> filled[k]]
      BY DEF Fill
    <3>2. "backends" \in DOMAIN filled /\ filled.backends = given
      BY DEF Fill
    <3>3. "algorithm" \in DOMAIN filled /\ filled.algorithm \in Algorithms
      BY <1>3, ServiceAssumption DEF Fill, DefaultConfig, Algorithms
    <3>4. QED
      BY <3>1, <3>2, <3>3
  <2>4. IsList(given)
    <3>1. PICK n \in Nat : DOMAIN file.backends = 1..n
      BY <1>3, ServiceAssumption
    <3>2. QED
      BY <3>1, ListOf
  <2>5. \/ Validate(c) = Ok(c) /\ Valid(c.backends)
        \/ \E r \in {"ZeroBackends", "DuplicateBackendAddrs", "InvalidAddrs"} : Validate(c) = Err(r)
    <3> HIDE DEF c
    <3>1. IsList(c.backends)
      BY <2>3, <2>4
    <3>2. QED
      BY <3>1, ValidateFacts
  <2> HIDE DEF c
  <2>6. QED
    BY <2>2, <2>3, <2>5 DEF Ok, Err
<1>4. QED
  BY <1>1, <1>2, <1>3

\* The pool of a valid configuration, backend by backend.
LEMMA PoolFacts ==
    ASSUME NEW backends, Valid(backends)
    PROVE  /\ PoolFromConfig(backends).ok = TRUE
           /\ DOMAIN PoolFromConfig(backends).value = DOMAIN backends
<1>1. PoolFromConfig(backends) = Ok([i \in DOMAIN backends |-> BackendFromConfig(backends[i])])
  BY DEF PoolFromConfig, Valid
<1>2. QED
  BY <1>1 DEF Ok

\* What init_logging returns.
LEMMA InitLoggingFacts ==
    ASSUME NEW env, NEW level, NEW installed
    PROVE  LET result == InitLogging(env, level, installed)
           IN  \/ result.ok = TRUE
               \/ result.ok = FALSE /\ result.reason \in {"RUST_LOG", "TryInit"}
<1> DEFINE filter == BuildFilter(env, level)
<1>1. \/ filter.ok = TRUE
      \/ filter.ok = FALSE /\ filter.reason = "RUST_LOG"
  BY DEF BuildFilter, Ok, Err
<1>2. QED
  BY <1>1 DEF InitLogging, Err

---------------------------------------------------------------------------------
(***************************************************************************)
(* The invariant.  While the service boots, the configuration it holds is  *)
(* valid and no request has been served.                                   *)
(***************************************************************************)
Booting ==
    /\ stage # "serving" => /\ slice = [c \in Clients |-> {}] /\ turns = NoTurns
                            /\ last = [c \in Clients |-> NoPick]
    /\ stage \in {"configured", "pooled"} => Valid(config)
    /\ stage = "pooled" => DOMAIN pool = DOMAIN config
    /\ IsFiniteSet(DOMAIN pool)

IInv == TypeOK /\ Booting /\ PoolAlwaysBuilds

\* A slice that is not empty has a size, and every strategy an index into it.
LEMMA SliceSize ==
    ASSUME IInv, NEW c \in Clients, slice[c] # {}
    PROVE  /\ Cardinality(slice[c]) \in Nat \ {0}
           /\ RoundRobinIndex(c) \in 1..Cardinality(slice[c])
           /\ IpHashIndex(c) \in 1..Cardinality(slice[c])
<1>1. slice[c] \subseteq DOMAIN pool /\ IsFiniteSet(DOMAIN pool)
  BY DEF IInv, TypeOK, Booting
<1>2. IsFiniteSet(slice[c]) /\ Cardinality(slice[c]) \in Nat
  BY <1>1, FS_Subset, FS_CardinalityType
<1>3. Cardinality(slice[c]) # 0
  BY <1>2, FS_EmptySet
<1>4. counter \in Nat
  BY StrategiesAssumption DEF IInv, TypeOK
<1>5. RoundRobinIndex(c) \in 1..Cardinality(slice[c])
  BY <1>2, <1>3, <1>4 DEF RoundRobinIndex
<1>6. IpHashIndex(c) \in 1..Cardinality(slice[c])
  <2>1. PICK h : h = HashIp(OctetsOf[c])
    OBVIOUS
  <2>2. OctetsOf[c] \in Seq(Octet)
    BY StrategiesAssumption DEF Octet
  <2>3. h \in HashRange
    BY <2>1, <2>2, HashInRange
  <2>4. h \in Nat
    BY SMT, <2>3 DEF HashRange
  <2>5. IpHashIndex(c) = (h % Cardinality(slice[c])) + 1
    BY <2>1 DEF IpHashIndex
  <2>6. QED
    BY <1>2, <1>3, <2>4, <2>5
<1>7. QED
  BY <1>2, <1>3, <1>5, <1>6

\* The turns of round robin keep their type.
LEMMA TurnsType ==
    ASSUME IInv, NEW c \in Clients, SelectRoundRobin(c)
    PROVE  /\ turns'.from = slice[c]
           /\ turns'.indexes \in Seq(1..Cardinality(slice[c]))
<1> DEFINE n == Cardinality(slice[c])
           r == RoundRobinIndex(c)
           s == Append(turns.indexes, r)
<1>1. n \in Nat \ {0} /\ r \in 1..n
  BY SliceSize DEF SelectRoundRobin
<1>2. turns' = [from |-> slice[c], indexes |-> IF Breaks(c) THEN <<r>> ELSE Latest(n, s)]
  BY DEF SelectRoundRobin
<1> HIDE DEF r
<1>3. CASE Breaks(c)
  BY <1>1, <1>2, <1>3
<1>4. CASE ~Breaks(c)
  <2>1. turns.indexes \in Seq(1..n)
    BY <1>4 DEF Breaks, IInv, TypeOK
  <2>2. s \in Seq(1..n) /\ s # <<>>
    BY <1>1, <2>1
  <2> HIDE DEF n, s
  <2>3. Latest(n, s) \in Seq(1..n)
    BY <2>2, HeadTailProperties DEF Latest
  <2>4. QED
    BY <1>2, <1>4, <2>3 DEF n, s
<1>5. QED
  BY <1>3, <1>4

LEMMA InitInvariant == Init => IInv
<1> SUFFICES ASSUME Init PROVE IInv
  OBVIOUS
<1>1. /\ DOMAIN pool = {} /\ IsFiniteSet(DOMAIN pool)
      /\ NoPick \in [from : SUBSET DOMAIN pool, index : Nat]
  BY FS_EmptySet DEF Init, NoPick
<1>2. TypeOK
  <2>1. counter \in 0..(CounterSize - 1)
    BY StrategiesAssumption DEF Init
  <2>2. turns.from = {} /\ turns.indexes = <<>>
    BY DEF Init, NoTurns
  <2>3. QED
    BY <1>1, <2>1, <2>2 DEF Init, TypeOK, Stages, Errors, Algorithms
<1>3. Booting /\ PoolAlwaysBuilds
  BY <1>1 DEF Init, Booting, PoolAlwaysBuilds
<1>4. QED
  BY <1>2, <1>3 DEF IInv

LEMMA StartLoggingStep ==
    ASSUME IInv, NEW env \in Environments, StartLogging(env)
    PROVE  IInv'
<1>1. \/ stage' = "logging" /\ error' = "none"
      \/ stage' = "failed" /\ error' \in {"RUST_LOG", "TryInit"}
  BY InitLoggingFacts DEF StartLogging, Proceed
<1>2. stage = "start" /\ UNCHANGED <<config, pool, algorithm, counter, rotation, slice, last, turns>>
  BY DEF StartLogging, strategyVars
<1>3. TypeOK'
  BY <1>1, <1>2 DEF IInv, TypeOK, Stages, Errors
<1>4. QED
  BY <1>1, <1>2, <1>3 DEF IInv, Booting, PoolAlwaysBuilds

LEMMA LoadStep ==
    ASSUME IInv, NEW file \in Files, Load(file)
    PROVE  IInv'
<1>1. \/ /\ stage' = "configured" /\ error' = "none"
         /\ Valid(config') /\ algorithm' \in Algorithms
      \/ /\ stage' = "failed"
         /\ error' \in {"Io", "Parse", "ZeroBackends", "DuplicateBackendAddrs", "InvalidAddrs"}
         /\ algorithm' = algorithm
  BY FromFileFacts DEF Load, Proceed
<1>2. stage = "logging" /\ UNCHANGED <<pool, counter, rotation, slice, last, turns>>
  BY DEF Load
<1>3. TypeOK'
  BY <1>1, <1>2 DEF IInv, TypeOK, Stages, Errors
<1>4. QED
  BY <1>1, <1>2, <1>3 DEF IInv, Booting, PoolAlwaysBuilds

LEMMA BuildStep ==
    ASSUME IInv, Build
    PROVE  IInv'
<1>1. stage = "configured" /\ Valid(config)
  BY DEF Build, IInv, Booting
<1>2. /\ stage' = "pooled" /\ error' = "none"
      /\ DOMAIN pool' = DOMAIN config /\ rotation' = DOMAIN pool'
  BY <1>1, PoolFacts DEF Build, Proceed
<1>3. UNCHANGED <<config, algorithm, counter, slice, last, turns>>
  BY DEF Build
<1>4. IsFiniteSet(DOMAIN pool')
  BY <1>1, <1>2, FS_Interval DEF Valid, IsList
<1>5. /\ slice = [c \in Clients |-> {}] /\ turns = NoTurns
      /\ last = [c \in Clients |-> NoPick]
  BY <1>1 DEF IInv, Booting
<1>6. turns.from = {} /\ turns.indexes = <<>> /\ \A S : NoPick \in [from : SUBSET S, index : Nat]
  BY <1>5 DEF NoTurns, NoPick
<1>7. TypeOK'
  BY <1>2, <1>3, <1>5, <1>6 DEF IInv, TypeOK, Stages, Errors
<1>8. QED
  BY <1>1, <1>2, <1>3, <1>4, <1>5, <1>7 DEF IInv, Booting, PoolAlwaysBuilds

LEMMA BindStep ==
    ASSUME IInv, Bind
    PROVE  IInv'
<1>1. \/ stage' = "serving" /\ error' = "none"
      \/ stage' = "failed" /\ error' = "Bind"
  BY DEF Bind, Proceed, Ok, Err
<1>2. /\ stage = "pooled" /\ algorithm' = algorithm /\ counter' = 0
      /\ UNCHANGED <<pool, rotation, slice, last, turns>>
  BY DEF Bind, CreateStrategy
<1>3. counter' \in 0..(CounterSize - 1)
  BY <1>2, StrategiesAssumption
<1>4. TypeOK'
  BY <1>1, <1>2, <1>3 DEF IInv, TypeOK, Stages, Errors
<1>5. QED
  BY <1>1, <1>2, <1>4 DEF IInv, Booting, PoolAlwaysBuilds

LEMMA ServeStep ==
    ASSUME IInv, NEW c \in Clients, Serve(c)
    PROVE  IInv'
<1>1. stage = "serving" /\ UNCHANGED <<stage, error, logger, config, pool>>
  BY DEF Serve
<1>2. ASSUME TypeOK' PROVE IInv'
  BY <1>1, <1>2 DEF IInv, Booting, PoolAlwaysBuilds
<1>3. CASE TakeSlice(c)
  BY <1>1, <1>2, <1>3 DEF TakeSlice, IInv, TypeOK
<1>4. CASE SelectRoundRobin(c)
  <2>1. turns'.from = slice[c] /\ turns'.indexes \in Seq(1..Cardinality(slice[c]))
    BY <1>4, TurnsType
  <2>2. slice[c] \subseteq DOMAIN pool
    BY DEF IInv, TypeOK
  <2>3. counter' \in 0..(CounterSize - 1)
    BY <1>4, StrategiesAssumption DEF SelectRoundRobin, IInv, TypeOK
  <2>4. slice' \in [Clients -> SUBSET DOMAIN pool]
    BY <1>4 DEF SelectRoundRobin, IInv, TypeOK
  <2>5. UNCHANGED <<algorithm, rotation, last>>
    BY <1>4 DEF SelectRoundRobin
  <2>6. TypeOK'
    BY <1>1, <2>1, <2>2, <2>3, <2>4, <2>5 DEF IInv, TypeOK
  <2>7. QED
    BY <1>2, <2>6
<1>5. CASE SelectIpHash(c)
  <2>1. PICK pick : pick = [from |-> slice[c], index |-> IpHashIndex(c)]
    OBVIOUS
  <2>2. /\ pick \in [from : SUBSET DOMAIN pool, index : Nat]
        /\ pick.index \in 1..Cardinality(pick.from)
    BY <1>5, <2>1, SliceSize DEF SelectIpHash, IInv, TypeOK
  <2>3. /\ UNCHANGED <<algorithm, counter, rotation, turns>>
        /\ slice' = [slice EXCEPT ![c] = {}] /\ last' = [last EXCEPT ![c] = pick]
    BY <1>5, <2>1 DEF SelectIpHash
  <2>4. TypeOK'
    BY <1>1, <2>2, <2>3 DEF IInv, TypeOK
  <2>5. QED
    BY <1>2, <2>4
<1>6. CASE SelectOther(c)
  BY <1>1, <1>2, <1>6 DEF SelectOther, IInv, TypeOK
<1>7. QED
  BY <1>3, <1>4, <1>5, <1>6 DEF Serve, Select

LEMMA PoolChangesStep ==
    ASSUME IInv, PoolChanges
    PROVE  IInv'
<1>1. rotation' \subseteq DOMAIN pool
  BY DEF PoolChanges, IInv, TypeOK
<1>2. UNCHANGED <<stage, error, config, pool, algorithm, counter, slice, last, turns>>
  BY DEF PoolChanges
<1>3. QED
  BY <1>1, <1>2 DEF IInv, TypeOK, Booting, PoolAlwaysBuilds

LEMMA NextInvariant == IInv /\ [Next]_vars => IInv'
<1> SUFFICES ASSUME IInv, [Next]_vars PROVE IInv'
  OBVIOUS
<1>1. ASSUME NEW env \in Environments, StartLogging(env) PROVE IInv'
  BY <1>1, StartLoggingStep
<1>2. ASSUME NEW file \in Files, Load(file) PROVE IInv'
  BY <1>2, LoadStep
<1>3. CASE Build
  BY <1>3, BuildStep
<1>4. CASE Bind
  BY <1>4, BindStep
<1>5. ASSUME NEW c \in Clients, Serve(c) PROVE IInv'
  BY <1>5, ServeStep
<1>6. CASE PoolChanges
  BY <1>6, PoolChangesStep
<1>7. CASE UNCHANGED vars
  BY <1>7 DEF vars, strategyVars, IInv, TypeOK, Booting, PoolAlwaysBuilds
<1>8. QED
  BY <1>1, <1>2, <1>3, <1>4, <1>5, <1>6, <1>7 DEF Next

LEMMA Invariant == Spec => []IInv
<1>1. QED
  BY InitInvariant, NextInvariant, PTL DEF Spec

\* Every variable has its type in every reachable state, whatever files and
\* environments there are (config.rs, backend.rs, round_robin.rs, ip_hash.rs).
THEOREM ServiceTypeCorrect == Spec => []TypeOK
<1>1. IInv => TypeOK
  BY DEF IInv
<1>2. QED
  BY Invariant, <1>1, PTL

\* A configuration that Config::validate accepts never fails to build a pool,
\* for every file (config.rs, Config::validate; backend.rs, from_config).
THEOREM ServicePoolAlwaysBuilds == Spec => []PoolAlwaysBuilds
<1>1. IInv => PoolAlwaysBuilds
  BY DEF IInv
<1>2. QED
  BY Invariant, <1>1, PTL

\* Backends of the pool share a socket address only when the file spells it in
\* two ways, for every file (config.rs, Config::validate).
THEOREM ServiceAliasesOnly == Spec => []AliasesOnly
<1>1. IInv => AliasesOnly
  BY DEF IInv, Booting, Valid, AliasesOnly
<1>2. QED
  BY Invariant, <1>1, PTL

---------------------------------------------------------------------------------
(***************************************************************************)
(* IP hash: the latest index of a client is a function of its octets and   *)
(* of the slice.                                                           *)
(***************************************************************************)
Hashed ==
    /\ last = [c \in Clients |-> last[c]]
    /\ \A c \in Clients : last[c].index # 0 =>
            last[c].index = (HashIp(OctetsOf[c]) % Cardinality(last[c].from)) + 1

LEMMA HashedInvariant == Spec => []Hashed
<1>1. Init => Hashed
  BY DEF Init, NoPick, Hashed
<1>2. Hashed /\ [Next]_vars => Hashed'
  <2> SUFFICES ASSUME Hashed, [Next]_vars PROVE Hashed'
    OBVIOUS
  <2>1. ASSUME UNCHANGED last PROVE Hashed'
    BY <2>1 DEF Hashed
  <2>2. ASSUME NEW c \in Clients, SelectIpHash(c) PROVE Hashed'
    <3> DEFINE pick == [from |-> slice[c], index |-> IpHashIndex(c)]
    <3>1. last' = [last EXCEPT ![c] = pick]
      BY <2>2 DEF SelectIpHash
    <3>2. pick.index = (HashIp(OctetsOf[c]) % Cardinality(pick.from)) + 1
      BY DEF IpHashIndex
    <3> HIDE DEF pick
    <3>3. QED
      BY <3>1, <3>2 DEF Hashed
  <2>3. ASSUME NEW c \in Clients, Serve(c), ~SelectIpHash(c) PROVE UNCHANGED last
    BY <2>3 DEF Serve, Select, TakeSlice, SelectRoundRobin, SelectOther
  <2>4. QED
    BY <2>1, <2>2, <2>3
    DEF Next, StartLogging, Load, Build, Bind, CreateStrategy, PoolChanges, vars, strategyVars
<1>3. QED
  BY <1>1, <1>2, PTL DEF Spec

\* Clients with one IP address go to one backend of one slice, for any number of
\* clients, any addresses and any changes of rotation (ip_hash.rs, select).
THEOREM ServiceAffinity == Spec => []Affinity
<1>1. Hashed => Affinity
  BY DEF Hashed, Affinity
<1>2. QED
  BY HashedInvariant, <1>1, PTL

---------------------------------------------------------------------------------
(***************************************************************************)
(* Round robin: the latest indexes go round, and the counter stands at the *)
(* one that follows them.                                                  *)
(***************************************************************************)
NextIndex(k, n) == IF k = n THEN 1 ELSE k + 1

Wrap(k, n) == IF k <= n THEN k ELSE k - n

GoesRound(s, n) ==
    /\ Len(s) <= n
    /\ \A i \in 1..Len(s) : s[i] = Wrap(s[1] + i - 1, n)

\* Where the counter wraps and n does not divide its range, the order breaks.
Skips(n) == counter = 0 /\ CounterSize % n # 0

Turning ==
    LET n == Cardinality(turns.from)
        s == turns.indexes
    IN  /\ GoesRound(s, n)
        /\ s # <<>> /\ ~Skips(n) => (counter % n) + 1 = NextIndex(s[Len(s)], n)

\* Adding one to the counter goes to the next index, unless it skips.
LEMMA NextTurn ==
    ASSUME NEW v \in 0..(CounterSize - 1), NEW w, NEW n \in Nat \ {0},
           w = (v + 1) % CounterSize, ~(w = 0 /\ CounterSize % n # 0)
    PROVE  (w % n) + 1 = NextIndex((v % n) + 1, n)
<1>1. v \in Nat /\ CounterSize \in Nat \ {0} /\ v % n \in 0..(n - 1)
  BY StrategiesAssumption
<1>2. CASE v = CounterSize - 1
  <2>1. w = 0
    BY <1>1, <1>2
  <2>2. CounterSize % n = 0
    BY <2>1
  <2>3. v % n = n - 1
    BY <1>1, <1>2, <2>2, RemainderBefore
  <2>4. w % n = 0
    BY <2>1
  <2>5. QED
    BY <2>3, <2>4 DEF NextIndex
<1>3. CASE v # CounterSize - 1
  <2>1. w = v + 1
    BY <1>1, <1>3
  <2>2. w % n = IF v % n = n - 1 THEN 0 ELSE (v % n) + 1
    BY <1>1, <2>1, NextRemainder
  <2>3. QED
    BY <1>1, <2>2 DEF NextIndex
<1>4. QED
  BY <1>2, <1>3

\* The indexes that follow k are those that follow the one after k.
LEMMA WrapNext ==
    ASSUME NEW n \in Nat \ {0}, NEW k \in 1..n, NEW i \in 1..n
    PROVE  Wrap(k + i, n) = Wrap(Wrap(k + 1, n) + i - 1, n)
<1>1. CASE k = n
  <2>1. Wrap(k + 1, n) = 1 /\ Wrap(k + i, n) = i
    BY <1>1 DEF Wrap
  <2>2. Wrap(1 + i - 1, n) = i
    BY DEF Wrap
  <2>3. QED
    BY <2>1, <2>2
<1>2. CASE k # n
  <2>1. Wrap(k + 1, n) = k + 1
    BY <1>2 DEF Wrap
  <2>2. k + 1 + i - 1 = k + i
    OBVIOUS
  <2>3. QED
    BY <2>1, <2>2
<1>3. QED
  BY <1>1, <1>2

\* Indexes less than n apart are different.
LEMMA WrapSeparates ==
    ASSUME NEW n \in Nat, NEW k \in 1..n, NEW i \in 1..n, NEW j \in 1..n, i # j
    PROVE  Wrap(k + i - 1, n) # Wrap(k + j - 1, n)
BY DEF Wrap

\* Indexes that go round still do when the next one is added, and the first
\* dropped when there are more than n.
LEMMA GoesOn ==
    ASSUME NEW n \in Nat \ {0}, NEW s \in Seq(1..n), NEW r \in 1..n,
           GoesRound(s, n), s # <<>> => r = NextIndex(s[Len(s)], n)
    PROVE  LET t == Latest(n, Append(s, r))
           IN  GoesRound(t, n) /\ t # <<>> /\ t[Len(t)] = r
<1> DEFINE L == Len(s)
           a == Append(s, r)
           t == Latest(n, a)
<1>1. /\ a \in Seq(1..n) /\ Len(a) = L + 1 /\ L \in 0..n /\ a[L + 1] = r
      /\ \A i \in 1..L : a[i] = s[i] /\ s[i] \in 1..n
  BY DEF GoesRound
<1>2. CASE L = 0
  <2>1. t = a
    BY <1>1, <1>2 DEF Latest
  <2> HIDE DEF a, t, L
  <2>2. Len(a) = 1 /\ a[1] = r /\ a # <<>>
    BY <1>1, <1>2
  <2>3. a[1] = Wrap(a[1] + 1 - 1, n)
    BY <2>2 DEF Wrap
  <2>4. GoesRound(a, n)
    BY <2>2, <2>3 DEF GoesRound
  <2>5. QED
    BY <2>1, <2>2, <2>4 DEF a, t
<1>3. CASE L # 0
  <2>1. s[1] \in 1..n /\ a[1] = s[1] /\ s[L] = Wrap(s[1] + L - 1, n)
    BY <1>1, <1>3 DEF GoesRound
  <2>2. r = NextIndex(s[L], n)
    BY <1>1, <1>3
  <2>3. r = Wrap(s[1] + L, n)
    BY <1>1, <1>3, <2>1, <2>2 DEF NextIndex, Wrap
  <2>4. \A i \in 1..(L + 1) : a[i] = Wrap(s[1] + i - 1, n)
    BY SMTT(30), <1>1, <2>1, <2>3 DEF GoesRound
  <2>5. CASE L < n
    <3>1. t = a
      BY <1>1, <2>5 DEF Latest
    <3> HIDE DEF a, t, L
    <3>2. a # <<>> /\ \A i \in 1..Len(a) : a[i] = Wrap(a[1] + i - 1, n)
      BY <1>1, <2>1, <2>4
    <3>3. GoesRound(a, n) /\ a[Len(a)] = r
      BY <1>1, <2>5, <3>2 DEF GoesRound
    <3>4. QED
      BY <3>1, <3>2, <3>3 DEF a, t
  <2>6. CASE L = n
    <3>1. t = Tail(a) /\ a # <<>>
      BY <1>1, <2>6 DEF Latest
    <3>2. Len(t) = n /\ \A i \in 1..n : t[i] = a[i + 1]
      <4> HIDE DEF a, t, L
      <4>1. QED
        BY <1>1, <2>6, <3>1, HeadTailProperties
    <3>3. ASSUME NEW i \in 1..n PROVE t[i] = Wrap(s[1] + i, n)
      <4> HIDE DEF a, t, L
      <4>1. i + 1 \in 1..(L + 1) /\ s[1] + (i + 1) - 1 = s[1] + i
        BY <1>1, <2>1, <2>6
      <4>2. QED
        BY <4>1, <2>4, <3>2
    <3> HIDE DEF a, t, L
    <3>4. ASSUME NEW i \in 1..n PROVE t[i] = Wrap(t[1] + i - 1, n)
      <4>1. t[1] = Wrap(s[1] + 1, n) /\ t[i] = Wrap(s[1] + i, n)
        BY <3>3
      <4>2. QED
        BY <4>1, <2>1, WrapNext
    <3>5. t # <<>> /\ t[n] = r
      BY <1>1, <2>6, <3>2
    <3>6. QED
      BY <3>2, <3>4, <3>5 DEF GoesRound, a, t
  <2>7. QED
    BY <1>1, <2>5, <2>6
<1>4. QED
  BY <1>2, <1>3

\* A selection by round robin keeps the order, or starts afresh where it breaks.
LEMMA TurningSelects ==
    ASSUME IInv, Turning, NEW c \in Clients, SelectRoundRobin(c)
    PROVE  Turning'
<1> DEFINE n == Cardinality(slice[c])
           r == RoundRobinIndex(c)
           s == turns.indexes
           t == turns'.indexes
<1>1. /\ n \in Nat \ {0} /\ r \in 1..n
      /\ turns' = [from |-> slice[c], indexes |-> IF Breaks(c) THEN <<r>> ELSE Latest(n, Append(s, r))]
  BY SliceSize DEF SelectRoundRobin
<1>2. turns'.from = slice[c]
  BY <1>1
<1>3. GoesRound(t, n) /\ t # <<>> /\ t[Len(t)] = r
  <2>1. CASE Breaks(c)
    <3>1. t = <<r>>
      BY <1>1, <2>1
    <3> HIDE DEF t, r, n
    <3>2. Len(t) = 1 /\ t[1] = r /\ t # <<>> /\ t[1] = Wrap(t[1] + 1 - 1, n)
      BY <3>1, <1>1 DEF Wrap
    <3>3. QED
      BY <3>2, <1>1 DEF GoesRound
  <2>2. CASE ~Breaks(c)
    <3>1. turns.from = slice[c] /\ ~Skips(n)
      BY <2>2 DEF Breaks, Skips
    <3>2. s \in Seq(1..n) /\ GoesRound(s, n)
      BY <3>1 DEF Turning, IInv, TypeOK
    <3>3. s # <<>> => r = NextIndex(s[Len(s)], n)
      BY <3>1 DEF Turning, RoundRobinIndex
    <3>4. t = Latest(n, Append(s, r))
      BY <1>1, <2>2
    <3> HIDE DEF t, r, n, s
    <3>5. QED
      BY <1>1, <3>2, <3>3, <3>4, GoesOn
  <2>3. QED
    BY <2>1, <2>2
<1>4. ASSUME ~(counter' = 0 /\ CounterSize % n # 0)
      PROVE  (counter' % n) + 1 = NextIndex(r, n)
  <2>1. counter \in 0..(CounterSize - 1) /\ counter' = (counter + 1) % CounterSize
    BY DEF SelectRoundRobin, IInv, TypeOK
  <2>2. r = (counter % n) + 1
    BY DEF RoundRobinIndex
  <2> HIDE DEF n, r
  <2>3. QED
    BY <1>1, <1>4, <2>1, <2>2, NextTurn
<1> HIDE DEF r
<1>5. QED
  BY <1>2, <1>3, <1>4 DEF Turning, Skips

LEMMA TurningInvariant == Spec => []Turning
<1>1. Init => Turning
  <2> SUFFICES ASSUME Init PROVE Turning
    OBVIOUS
  <2>1. turns.indexes = <<>> /\ Cardinality(turns.from) = 0
    BY FS_EmptySet DEF Init, NoTurns
  <2>2. QED
    BY <2>1 DEF Turning, GoesRound
<1>2. IInv /\ Turning /\ [Next]_vars => Turning'
  <2> SUFFICES ASSUME IInv, Turning, [Next]_vars PROVE Turning'
    OBVIOUS
  <2>1. ASSUME UNCHANGED <<turns, counter>> PROVE Turning'
    BY <2>1 DEF Turning, Skips
  <2>2. CASE Bind
    <3>1. turns' = NoTurns /\ turns = NoTurns
      BY <2>2 DEF Bind, CreateStrategy, IInv, Booting
    <3>2. turns'.indexes = <<>> /\ turns' = turns
      BY <3>1 DEF NoTurns
    <3>3. QED
      BY <3>2 DEF Turning
  <2>3. ASSUME NEW c \in Clients, SelectRoundRobin(c) PROVE Turning'
    BY <2>3, TurningSelects
  <2>4. ASSUME NEW c \in Clients, Serve(c), ~SelectRoundRobin(c)
        PROVE  UNCHANGED <<turns, counter>>
    BY <2>4 DEF Serve, Select, TakeSlice, SelectIpHash, SelectOther
  <2>5. QED
    BY <2>1, <2>2, <2>3, <2>4
    DEF Next, StartLogging, Load, Build, PoolChanges, vars, strategyVars
<1>3. QED
  BY <1>1, <1>2, Invariant, PTL DEF Spec

\* Any n selections in a row from one slice of n backends reach all of them, for
\* every number of clients and backends and every width of the counter
\* (round_robin.rs, select).
THEOREM ServiceInTurn == Spec => []InTurn
<1>1. IInv /\ Turning => InTurn
  <2> SUFFICES ASSUME IInv, Turning,
                      NEW i \in DOMAIN turns.indexes, NEW j \in DOMAIN turns.indexes, i # j
               PROVE  turns.indexes[i] # turns.indexes[j]
    BY DEF InTurn
  <2> DEFINE n == Cardinality(turns.from)
             s == turns.indexes
  <2>1. s \in Seq(1..n) /\ IsFiniteSet(turns.from)
    BY FS_Subset DEF IInv, TypeOK, Booting
  <2>2. n \in Nat
    BY <2>1, FS_CardinalityType
  <2>3. Len(s) <= n /\ \A k \in 1..Len(s) : s[k] = Wrap(s[1] + k - 1, n)
    BY DEF Turning, GoesRound
  <2>4. i \in 1..Len(s) /\ j \in 1..Len(s) /\ Len(s) \in Nat
    BY <2>1
  <2> HIDE DEF n, s
  <2>5. s[i] = Wrap(s[1] + i - 1, n) /\ s[j] = Wrap(s[1] + j - 1, n)
    BY <2>3, <2>4
  <2>6. Wrap(s[1] + i - 1, n) # Wrap(s[1] + j - 1, n)
    <3>1. s[1] \in 1..n /\ i \in 1..n /\ j \in 1..n
      BY <2>1, <2>2, <2>3, <2>4
    <3>2. QED
      BY <3>1, <2>2, WrapSeparates
  <2>7. QED
    BY <2>5, <2>6 DEF s
<1>2. QED
  BY Invariant, TurningInvariant, <1>1, PTL
=================================================================================
