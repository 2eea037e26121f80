---------------------------- MODULE PeerRowsProofs ----------------------------
(***************************************************************************)
(* Proofs about PeerRows.                                                  *)
(***************************************************************************)
EXTENDS PeerRows, LeastElement, SequenceTheorems, TLAPS

-----------------------------------------------------------------------------
(* Capabilities                                                            *)

\* Capabilities without a comma, and at least one of them.
Plain(capabilities) ==
  /\ capabilities # <<>>
  /\ \A i \in DOMAIN capabilities : Len(capabilities[i]) = 1

\* How long the concatenation of two sequences is.
LEMMA ConcatLength ==
  ASSUME NEW C, NEW s \in Seq(C), NEW u \in Seq(C)
  PROVE  Len(s \o u) = Len(s) + Len(u)
OBVIOUS

\* A sequence that ends with the only item of another one.
LEMMA ConcatOne ==
  ASSUME NEW C, NEW s \in Seq(C), NEW u \in Seq(C), NEW t \in Seq(C), Len(u) = 1,
         Len(t) = Len(s) + 1, t[Len(t)] = u[1], \A k \in 1 .. Len(s) : t[k] = s[k]
  PROVE  t = s \o u
<1>1. s \o u \in Seq(C)
  OBVIOUS
<1>2. Len(s) \in Nat /\ Len(s \o u) = Len(s) + 1
  <2>1. Len(s) \in Nat
    OBVIOUS
  <2>2. Len(s \o u) = Len(s) + Len(u)
    BY ConcatLength
  <2> QED BY <2>1, <2>2
<1>3. (s \o u)[Len(s) + 1] = u[1]
  BY <1>2
<1>4. \A k \in 1 .. Len(s) : (s \o u)[k] = s[k]
  BY <1>2
<1>5. \A k \in 1 .. Len(t) : (s \o u)[k] = t[k]
  BY <1>2, <1>3, <1>4
<1> QED BY <1>1, <1>2, <1>5, SeqEqual

\* The join of plain capabilities lists them.
LEMMA JoinPlain ==
  ASSUME NEW C, NEW capabilities \in Seq(Seq(C)), Plain(capabilities)
  PROVE  Join(capabilities) = [i \in 1 .. Len(capabilities) |-> capabilities[i][1]]
<1> DEFINE n == Len(capabilities)
           Step(f) == [i \in 1 .. n |-> IF i = 1 THEN capabilities[i]
                                                 ELSE f[i - 1] \o capabilities[i]]
           g == [i \in 1 .. n |-> [k \in 1 .. i |-> capabilities[k][1]]]
           f == CHOOSE h : h = Step(h)
<1>1. n \in Nat \ {0} /\ \A i \in 1 .. n : capabilities[i] \in Seq(C) /\ Len(capabilities[i]) = 1
  BY DEF Plain
<1>8. \A i \in 1 .. n : capabilities[i][1] \in C
  BY <1>1
<1>2. \A i \in 1 .. n : g[i] \in Seq(C) /\ Len(g[i]) = i
  <2> TAKE i \in 1 .. n
  <2>1. g[i] \in [1 .. i -> C]
    BY <1>1, <1>8
  <2> HIDE DEF g
  <2> QED BY <2>1
<1>3. g = Step(g)
  <2>1. \A i \in 1 .. n : i # 1 => g[i] = g[i - 1] \o capabilities[i]
    <3> SUFFICES ASSUME NEW i \in 1 .. n, i # 1 PROVE g[i] = g[i - 1] \o capabilities[i]
      OBVIOUS
    <3>1. g[i - 1] \in Seq(C) /\ Len(g[i - 1]) = i - 1 /\ i - 1 \in 1 .. n
      BY <1>2
    <3>2. \A k \in 1 .. i - 1 : g[i - 1][k] = capabilities[k][1]
      BY <3>1
    <3>5. \A k \in 1 .. i : g[i][k] = capabilities[k][1]
      OBVIOUS
    <3>6. g[i] \in Seq(C) /\ Len(g[i]) = i
      BY <1>2
    <3> HIDE DEF g, n
    <3>7. capabilities[i] \in Seq(C) /\ Len(capabilities[i]) = 1
      BY <1>1
    <3>8. g[i][Len(g[i])] = capabilities[i][1]
      BY <1>1, <3>5, <3>6
    <3>9. \A k \in 1 .. Len(g[i - 1]) : g[i][k] = g[i - 1][k]
      BY <1>1, <3>1, <3>2, <3>5
    <3>10. Len(g[i]) = Len(g[i - 1]) + 1
      BY <1>1, <3>1, <3>6
    <3> QED BY <3>1, <3>6, <3>7, <3>8, <3>9, <3>10, ConcatOne
  <2>2. g[1] = capabilities[1]
    <3> HIDE DEF n
    <3>1. g[1] \in Seq(C) /\ Len(g[1]) = 1 /\ g[1][1] = capabilities[1][1]
      BY <1>1, <1>2
    <3> HIDE DEF g
    <3> QED BY <1>1, <3>1
  <2> QED BY <2>1, <2>2
<1>4. f = Step(f)
  BY <1>3
<1>5. \A i \in 1 .. n : f[i] = g[i]
  <2> DEFINE T == {i \in 1 .. n : f[i] # g[i]}
  <2> SUFFICES ASSUME T # {} PROVE FALSE
    OBVIOUS
  <2> HIDE DEF f, g
  <2>0. T \subseteq Nat
    BY <1>1
  <2>1. PICK i \in T : \A j \in T : i <= j
    <3> HIDE DEF T
    <3> QED BY <2>0, LeastNatural
  <2>2. f[i] = IF i = 1 THEN capabilities[i] ELSE f[i - 1] \o capabilities[i]
    BY <1>4
  <2>3. g[i] = IF i = 1 THEN capabilities[i] ELSE g[i - 1] \o capabilities[i]
    BY <1>3
  <2>4. i # 1 => f[i - 1] = g[i - 1]
    BY <1>1, <2>1
  <2> QED BY <2>1, <2>2, <2>3, <2>4
<1>6. Join(capabilities) = f[n]
  BY <1>1 DEF Join, FlattenSeq
<1>7. g[n] = [k \in 1 .. n |-> capabilities[k][1]]
  BY <1>1
<1> HIDE DEF f, g
<1> QED BY <1>1, <1>5, <1>6, <1>7

\* Plain capabilities are read as they were written.
LEMMA SplitPlain ==
  ASSUME NEW C, NEW capabilities \in Seq(Seq(C)), Plain(capabilities)
  PROVE  Split(Join(capabilities)) = capabilities
<1>1. Join(capabilities) = [i \in 1 .. Len(capabilities) |-> capabilities[i][1]]
  BY JoinPlain
<1>2. \A i \in 1 .. Len(capabilities) : capabilities[i] = <<capabilities[i][1]>>
  <2> TAKE i \in 1 .. Len(capabilities)
  <2>1. capabilities[i] \in Seq(C) /\ Len(capabilities[i]) = 1
    BY DEF Plain
  <2> QED BY <2>1
<1>3. /\ Len(Join(capabilities)) = Len(capabilities)
      /\ \A i \in 1 .. Len(capabilities) : Join(capabilities)[i] = capabilities[i][1]
  BY <1>1
<1>4. Split(Join(capabilities)) = [i \in 1 .. Len(capabilities) |-> capabilities[i]]
  <2> HIDE DEF Join
  <2> QED BY <1>2, <1>3 DEF Split
<1> QED BY <1>4

-----------------------------------------------------------------------------
(* Rows                                                                    *)

\* Where the columns are.
LEMMA Positions ==
  /\ Columns[0 + 1] = "id" /\ Columns[1 + 1] = "ip" /\ Columns[2 + 1] = "client_name"
  /\ Columns[3 + 1] = "client_version" /\ Columns[4 + 1] = "client_build"
  /\ Columns[5 + 1] = "client_arch" /\ Columns[6 + 1] = "os"
  /\ Columns[7 + 1] = "client_language" /\ Columns[8 + 1] = "enode_url"
  /\ Columns[9 + 1] = "port" /\ Columns[10 + 1] = "chain"
  /\ Columns[11 + 1] = "genesis_hash" /\ Columns[12 + 1] = "best_block"
  /\ Columns[13 + 1] = "total_difficulty" /\ Columns[14 + 1] = "country"
  /\ Columns[15 + 1] = "city" /\ Columns[16 + 1] = "last_seen"
  /\ Columns[17 + 1] = "capabilities" /\ Columns[18 + 1] = "eth_version"
  /\ Columns[19 + 1] = "synced" /\ Columns[20 + 1] = "isp"
BY DEF Columns

\* SQLite returns in every field what was written, the capabilities joined and split:
\* the positions of FromRow are those of the columns of the statement.
THEOREM SqliteRoundTrip ==
  ASSUME NEW p
  PROVE  FromRow(Row(p)) = Kept(p)
BY Positions DEF FromRow, ReadRow, AsIs, Row, Kept, PeerData

\* So does PostgreSQL, whose casts lose nothing of a u16 and a u8.
THEOREM PostgresRoundTrip ==
  ASSUME NEW p, U16(p.tcp_port), U8(p.eth_version)
  PROVE  FromPostgresRow(Row(p)) = Kept(p)
<1>1. \A n : U16(n) => AsU16(n) = n
  BY DEF AsU16, U16
<1>2. \A n : U8(n) => AsU8(n) = n
  BY DEF AsU8, U8
<1>3. AsU16(p.tcp_port) = p.tcp_port /\ AsU8(p.eth_version) = p.eth_version
  BY <1>1, <1>2, Zenon
<1> QED BY <1>3, Positions DEF FromPostgresRow, PostgresColumns, ReadRow, Row, Kept, PeerData

\* A row keeps plain capabilities, and with them every field.
THEOREM PlainKept ==
  ASSUME NEW C, NEW p, p.capabilities \in Seq(Seq(C)), Plain(p.capabilities)
  PROVE  Kept(p) = PeerData(p, p.capabilities, p.client_arch)
<1>1. Split(Join(p.capabilities)) = p.capabilities
  BY SplitPlain
<1> QED BY <1>1, Zenon DEF Kept

\* The second database keeps what the first one kept: whatever capabilities had a
\* comma or were none, all that is lost is lost in PostgreSQL.  A join is a text.
THEOREM KeptTwice ==
  ASSUME NEW C, NEW p, Join(p.capabilities) \in Seq(C), Join(p.capabilities) # <<>>
  PROVE  Kept(Kept(p)) = Kept(p)
<1> DEFINE J == Join(p.capabilities)
           K == Split(J)
<1>1. J \in Seq(C) /\ J # <<>>
  OBVIOUS
<1>2. Kept(p) = PeerData(p, K, p.client_arch)
  BY DEF Kept
<1> HIDE DEF J
<1>3. /\ Len(J) \in Nat /\ Len(J) > 0 /\ K = [k \in 1 .. Len(J) |-> <<J[k]>>]
      /\ \A k \in 1 .. Len(J) : J[k] \in C
  BY <1>1 DEF Split
<1> HIDE DEF K
<1>4. K \in Seq(Seq(C)) /\ Plain(K)
  <2>1. \A k \in 1 .. Len(J) : <<J[k]>> \in Seq(C) /\ Len(<<J[k]>>) = 1
    BY <1>3
  <2> DEFINE D == Seq(C)
  <2>2. \A k \in 1 .. Len(J) : K[k] \in D /\ Len(K[k]) = 1
    BY <1>3, <2>1
  <2> HIDE DEF D
  <2>3. K \in Seq(D) /\ Len(K) = Len(J) /\ K # <<>>
    <3>1. K = [k \in 1 .. Len(J) |-> K[k]] /\ DOMAIN K = 1 .. Len(J)
      BY <1>3, Zenon
    <3>2. K \in [1 .. Len(J) -> D]
      BY <2>2, <3>1, Zenon
    <3>3. K \in Seq(D)
      BY <1>3, <3>2, SeqDef
    <3>4. Len(K) = Len(J)
      BY <1>3, <3>1, <3>3, LenProperties
    <3> QED BY <1>3, <3>3, <3>4, EmptySeq
  <2>4. K \in Seq(Seq(C))
    BY <2>3 DEF D
  <2>5. DOMAIN K = 1 .. Len(J)
    BY <1>3
  <2> QED BY <2>2, <2>3, <2>4, <2>5 DEF Plain
<1>5. Split(Join(K)) = K
  BY <1>4, SplitPlain
<1>6. Kept(p).capabilities = K /\ Kept(p).client_arch = p.client_arch
  BY <1>2 DEF PeerData
<1>7. Kept(Kept(p)) = PeerData(Kept(p), K, p.client_arch)
  BY <1>5, <1>6 DEF Kept
<1> QED BY <1>2, <1>7 DEF PeerData

\* DynamoDB returns every field but client_arch, which it reads under another key.
THEOREM ItemRoundTrip ==
  ASSUME NEW C, NEW p, NEW None, U16(p.tcp_port), U8(p.eth_version),
         p.capabilities \in Seq(C), p.synced \in BOOLEAN \union {None}, None \notin BOOLEAN
  PROVE  FromItem(Item(p), None) = PeerData(p, p.capabilities, <<>>)
<1>1. /\ AsString(Get(Item(p), "enode_url")) = p.enode_url
      /\ AsString(Get(Item(p), "peer_id")) = p.id
      /\ AsString(Get(Item(p), "peer_ip")) = p.address
      /\ AsString(Get(Item(p), "client_name")) = p.client_name
      /\ AsString(Get(Item(p), "client_version")) = p.client_version
      /\ AsString(Get(Item(p), "client_build")) = p.client_build
      /\ AsString(Get(Item(p), "os")) = p.os
      /\ AsString(Get(Item(p), "client_language")) = p.client_language
      /\ AsString(Get(Item(p), "last_seen")) = p.last_seen
      /\ AsString(Get(Item(p), "country")) = p.country
      /\ AsString(Get(Item(p), "city")) = p.city
      /\ AsString(Get(Item(p), "genesis_block_hash")) = p.genesis_block_hash
      /\ AsString(Get(Item(p), "best_block")) = p.best_block
      /\ AsString(Get(Item(p), "total_difficulty")) = p.total_difficulty
      /\ AsString(Get(Item(p), "chain")) = p.chain
      /\ AsString(Get(Item(p), "isp")) = p.isp
  BY DEF Get, Item, S, AsString
<1>2. AsString(Get(Item(p), "client_architecture")) = <<>>
  BY DEF Get, Item, AsString
<1>3. /\ AsNumber(Get(Item(p), "port"), 65535, 30303) = p.tcp_port
      /\ AsNumber(Get(Item(p), "eth_version"), 255, 0) = p.eth_version
  <2>1. Get(Item(p), "port") = N(p.tcp_port) /\ Get(Item(p), "eth_version") = N(p.eth_version)
    BY DEF Get, Item
  <2>2. \A limit \in Nat, n \in Nat : \A default : n <= limit =>
          AsNumber(N(n), limit, default) = n
    BY DEF N, AsNumber
  <2>3. /\ AsNumber(N(p.tcp_port), 65535, 30303) = p.tcp_port
        /\ AsNumber(N(p.eth_version), 255, 0) = p.eth_version
    BY <2>2 DEF U8, U16
  <2> HIDE DEF Get, Item
  <2> QED BY <2>1, <2>3, SMT
<1>4. AsStrings(Get(Item(p), "capabilities")) = p.capabilities
  <2>1. Get(Item(p), "capabilities") =
          [type |-> "L", value |-> [k \in DOMAIN p.capabilities |-> S(p.capabilities[k])]]
    BY DEF Get, Item
  <2>2. AsStrings(Get(Item(p), "capabilities")) =
          [k \in DOMAIN p.capabilities |-> AsString(S(p.capabilities[k]))]
    BY <2>1 DEF AsStrings
  <2>3. \A k \in DOMAIN p.capabilities : AsString(S(p.capabilities[k])) = p.capabilities[k]
    BY DEF S, AsString
  <2> DEFINE c == p.capabilities
  <2>4. c = [k \in DOMAIN c |-> c[k]]
    <3> HIDE DEF c
    <3>1. c \in Seq(C)
      BY DEF c
    <3> QED BY <3>1
  <2> QED BY <2>2, <2>3, <2>4
<1>5. AsOptionBool(Get(Item(p), "synced"), None) = p.synced
  BY DEF Get, Item, AsOptionBool
<1> HIDE DEF Get
<1> QED BY <1>1, <1>2, <1>3, <1>4, <1>5 DEF FromItem, PeerData

-----------------------------------------------------------------------------
(* Client versions                                                         *)

\* A part is its words before the first separator, the separator and the words after
\* it, and there is none before.
THEOREM SplitOnceWhole ==
  ASSUME NEW W, NEW part \in Seq(W), NEW separator, Has(part, separator)
  PROVE  LET words == SplitOnce(part, separator) IN
         part = words[1] \o <<separator>> \o words[2] /\ ~Has(words[1], separator)
<1> DEFINE first(i) == part[i] = separator /\ \A j \in 1 .. i - 1 : part[j] # separator
           T == {i \in DOMAIN part : part[i] = separator}
           k == CHOOSE i \in DOMAIN part : first(i)
           before == SubSeq(part, 1, k - 1)
           after == SubSeq(part, k + 1, Len(part))
<1>1. \E i \in DOMAIN part : first(i)
  <2>1. T \subseteq Nat /\ T # {}
    BY DEF Has
  <2>2. PICK i \in T : \A j \in T : i <= j
    <3> HIDE DEF T
    <3> QED BY <2>1, LeastNatural
  <2>3. \A j \in 1 .. i - 1 : part[j] # separator
    BY <2>2
  <2> QED BY <2>2, <2>3
<1>2. k \in 1 .. Len(part) /\ first(k)
  <2> HIDE DEF first
  <2>1. k \in DOMAIN part /\ first(k)
    BY <1>1
  <2> QED BY <2>1
<1>0. Len(part) \in Nat
  OBVIOUS
<1>3. SplitOnce(part, separator) = <<before, after>>
  BY DEF SplitOnce
<1> HIDE DEF k
<1>4. /\ before \in Seq(W) /\ Len(before) = k - 1
      /\ \A i \in 1 .. k - 1 : before[i] = part[i]
  BY <1>2
<1>5. /\ after \in Seq(W) /\ Len(after) = Len(part) - k
      /\ \A i \in 1 .. Len(part) - k : after[i] = part[k + i]
  BY <1>2
<1>6. separator \in W
  BY <1>2
<1>7. part = before \o <<separator>> \o after
  <2> HIDE DEF before, after
  <2> DEFINE left == before \o <<separator>>
  <2>1. /\ left \in Seq(W) /\ Len(left) = k
        /\ \A i \in 1 .. k : left[i] = part[i]
    BY <1>2, <1>4, <1>6
  <2> HIDE DEF left
  <2> DEFINE whole == left \o after
  <2>2. whole \in Seq(W) /\ Len(whole) = Len(part)
    <3>1. left \in Seq(W) /\ after \in Seq(W)
      BY <1>5, <2>1
    <3>2. whole \in Seq(W)
      BY <3>1
    <3>3. Len(whole) = Len(left) + Len(after)
      BY <3>1, ConcatLength
    <3> QED BY <1>0, <1>2, <1>5, <2>1, <3>2, <3>3
  <2>3. \A i \in 1 .. Len(part) : whole[i] = part[i]
    <3> TAKE i \in 1 .. Len(part)
    <3>1. CASE i <= k
      BY <1>2, <1>5, <2>1, <3>1
    <3>2. CASE i > k
      <4>1. whole[i] = after[i - k]
        BY <1>2, <1>5, <2>1, <3>2
      <4> QED BY <1>2, <1>5, <3>2, <4>1
    <3>3. i \in Nat /\ k \in Nat
      BY <1>2
    <3> HIDE DEF whole
    <3> QED BY <3>1, <3>2, <3>3, SMT
  <2> HIDE DEF whole
  <2>4. whole = part
    BY <2>2, <2>3, SeqEqual
  <2> QED BY <2>4 DEF whole, left
<1>8. ~Has(before, separator)
  <2> HIDE DEF before
  <2> QED BY <1>2, <1>4 DEF Has
<1> HIDE DEF before, after
<1> QED BY <1>3, <1>7, <1>8

-----------------------------------------------------------------------------
(* Times                                                                   *)

\* The numbers of a time.
LEMMA TimeFields ==
  ASSUME NEW t \in Time
  PROVE  t.s \in Int /\ t.ms \in Nat /\ t.us \in Nat /\ t.ns \in Nat
<1>1. Group \subseteq Nat
  BY DEF Group
<1> QED BY <1>1 DEF Time

\* No text precedes itself or one that precedes it.
LEMMA LessAsymmetric ==
  ASSUME NEW a \in Seq(Int), NEW b \in Seq(Int), Less(a, b)
  PROVE  ~Less(b, a)
<1> SUFFICES ASSUME Less(b, a) PROVE FALSE
  OBVIOUS
<1>1. PICK k \in 1 .. Len(b) : /\ k > Len(a) \/ (k <= Len(a) /\ a[k] < b[k])
                               /\ \A j \in 1 .. k - 1 : j <= Len(a) /\ a[j] = b[j]
  BY DEF Less
<1>2. PICK l \in 1 .. Len(a) : /\ l > Len(b) \/ (l <= Len(b) /\ b[l] < a[l])
                               /\ \A j \in 1 .. l - 1 : j <= Len(b) /\ b[j] = a[j]
  BY DEF Less
<1>3. \A i \in 1 .. Len(a) : a[i] \in Int
  OBVIOUS
<1>4. \A i \in 1 .. Len(b) : b[i] \in Int
  OBVIOUS
<1> QED BY <1>1, <1>2, <1>3, <1>4

\* A text between two characters.
LEMMA Between ==
  ASSUME NEW x \in Int, NEW f \in Seq(Int), NEW y \in Int, NEW z, z = <<x>> \o f \o <<y>>
  PROVE  /\ z \in Seq(Int) /\ Len(z) = Len(f) + 2
         /\ z[1] = x /\ z[Len(f) + 2] = y
         /\ \A i \in 1 .. Len(f) : z[i + 1] = f[i]
<1> DEFINE left == <<x>> \o f
<1>1. /\ left \in Seq(Int) /\ Len(left) = Len(f) + 1
      /\ left[1] = x /\ \A i \in 1 .. Len(f) : left[i + 1] = f[i]
  OBVIOUS
<1>2. z = left \o <<y>>
  OBVIOUS
<1> HIDE DEF left
<1>3. /\ z \in Seq(Int) /\ Len(z) = Len(left) + 1 /\ z[Len(left) + 1] = y
      /\ \A i \in 1 .. Len(left) : z[i] = left[i]
  BY <1>1, <1>2
<1>4. Len(f) \in Nat
  OBVIOUS
<1>5. Len(z) = Len(f) + 2 /\ z[1] = x /\ z[Len(f) + 2] = y
  BY <1>1, <1>3, <1>4
<1>6. ASSUME NEW i \in 1 .. Len(f) PROVE z[i + 1] = f[i]
  <2>1. i + 1 \in 1 .. Len(left) /\ left[i + 1] = f[i]
    BY <1>1, <1>4
  <2> QED BY <1>3, <2>1
<1> QED BY <1>3, <1>5, <1>6

\* Where the groups of the stamp z of t are.
Groups(t, z) ==
  /\ z \in Seq(Int) /\ Len(z) >= 2 /\ z[1] = Digits(t.s)
  /\ IF t.ms = 0 /\ t.us = 0 /\ t.ns = 0 THEN z[2] = Blank
     ELSE /\ Len(z) >= 4 /\ z[2] = Dot /\ z[3] = Digits(t.ms)
          /\ IF t.us = 0 /\ t.ns = 0 THEN z[4] = Blank
             ELSE /\ Len(z) >= 5 /\ z[4] = Digits(t.us)
                  /\ IF t.ns = 0 THEN z[5] = Blank ELSE z[5] = Digits(t.ns)

\* A stamp is made of its groups.
LEMMA StampForm ==
  ASSUME NEW t \in Time, t.s >= 0
  PROVE  Groups(t, Stamp(t))
<1> DEFINE f == Fraction(t)
           z == <<Digits(t.s)>> \o f \o <<Blank>>
<1>0. /\ t.ms \in Int /\ t.us \in Int /\ t.ns \in Int
      /\ Digits(t.s) \in Int /\ Digits(t.ms) \in Int /\ Digits(t.us) \in Int
      /\ Digits(t.ns) \in Int /\ Blank \in Int /\ Dot \in Int
  BY TimeFields DEF Digits, Blank, Dot
<1>1. /\ f \in Seq(Int)
      /\ IF t.ms = 0 /\ t.us = 0 /\ t.ns = 0 THEN Len(f) = 0
         ELSE /\ f[1] = Dot /\ f[2] = Digits(t.ms)
              /\ IF t.us = 0 /\ t.ns = 0 THEN Len(f) = 2
                 ELSE /\ f[3] = Digits(t.us)
                      /\ IF t.ns = 0 THEN Len(f) = 3 ELSE Len(f) = 4 /\ f[4] = Digits(t.ns)
  BY <1>0 DEF Fraction
<1>2. Stamp(t) = z
  <2>1. ~(t.s < 0)
    BY TimeFields
  <2> QED BY <2>1, Zenon DEF Stamp
<1> HIDE DEF f
<1>3. /\ z \in Seq(Int) /\ Len(z) = Len(f) + 2 /\ z[1] = Digits(t.s) /\ z[Len(f) + 2] = Blank
      /\ \A i \in 1 .. Len(f) : z[i + 1] = f[i]
  <2>1. f \in Seq(Int) /\ Digits(t.s) \in Int /\ Blank \in Int
    BY <1>0, <1>1, Zenon
  <2>2. z = <<Digits(t.s)>> \o f \o <<Blank>>
    OBVIOUS
  <2> HIDE DEF z
  <2> QED BY <2>1, <2>2, Between
<1> HIDE DEF z
<1>4. CASE Len(f) = 0
  BY <1>1, <1>2, <1>3, <1>4 DEF Groups
<1>5. CASE Len(f) = 2
  <2>1. z[2] = f[1] /\ z[3] = f[2] /\ z[4] = Blank
    BY <1>3, <1>5
  <2> QED BY <1>1, <1>2, <1>3, <1>5, <2>1 DEF Groups
<1>6. CASE Len(f) = 3
  <2>1. z[2] = f[1] /\ z[3] = f[2] /\ z[4] = f[3] /\ z[5] = Blank
    BY <1>3, <1>6
  <2> QED BY <1>1, <1>2, <1>3, <1>6, <2>1 DEF Groups
<1>7. CASE Len(f) = 4
  <2>1. z[2] = f[1] /\ z[3] = f[2] /\ z[4] = f[3] /\ z[5] = f[4]
    BY <1>3, <1>7
  <2> QED BY <1>1, <1>2, <1>3, <1>7, <2>1 DEF Groups
<1> QED BY <1>1, <1>4, <1>5, <1>6, <1>7

\* The stamp of an earlier time is less.
LEMMA StampMonotone ==
  ASSUME NEW a \in Time, NEW b \in Time, a.s >= 0, b.s >= 0, Earlier(a, b)
  PROVE  Less(Stamp(a), Stamp(b))
<1> DEFINE A == Stamp(a)
           B == Stamp(b)
           at(k) == /\ k \in 1 .. Len(B)
                    /\ k <= Len(A) /\ A[k] < B[k]
                    /\ \A j \in 1 .. k - 1 : A[j] = B[j]
<1>0. /\ a.s \in Int /\ a.ms \in Nat /\ a.us \in Nat /\ a.ns \in Nat
      /\ b.s \in Int /\ b.ms \in Nat /\ b.us \in Nat /\ b.ns \in Nat
  BY TimeFields
<1>g. Groups(a, A) /\ Groups(b, B)
  BY StampForm
<1> HIDE DEF A, B
<1>h. /\ Len(A) \in Nat /\ Len(A) >= 2 /\ Len(B) \in Nat /\ Len(B) >= 2
      /\ A[1] = Digits(a.s) /\ B[1] = Digits(b.s)
  <2>1. /\ A \in Seq(Int) /\ Len(A) >= 2 /\ A[1] = Digits(a.s)
        /\ B \in Seq(Int) /\ Len(B) >= 2 /\ B[1] = Digits(b.s)
    BY <1>g, Zenon DEF Groups
  <2>2. Len(A) \in Nat /\ Len(B) \in Nat
    BY <2>1
  <2> QED BY <2>1, <2>2
<1>n. /\ (a.ms = 0 /\ a.us = 0 /\ a.ns = 0) => A[2] = Blank
      /\ ~(a.ms = 0 /\ a.us = 0 /\ a.ns = 0) =>
           /\ Len(A) >= 4 /\ A[2] = Dot /\ A[3] = Digits(a.ms)
           /\ (a.us = 0 /\ a.ns = 0) => A[4] = Blank
           /\ ~(a.us = 0 /\ a.ns = 0) =>
                /\ Len(A) >= 5 /\ A[4] = Digits(a.us)
                /\ a.ns = 0 => A[5] = Blank
                /\ a.ns # 0 => A[5] = Digits(a.ns)
  BY <1>g DEF Groups
<1>m. /\ ~(b.ms = 0 /\ b.us = 0 /\ b.ns = 0) =>
           /\ Len(B) >= 4 /\ B[2] = Dot /\ B[3] = Digits(b.ms)
           /\ ~(b.us = 0 /\ b.ns = 0) =>
                /\ Len(B) >= 5 /\ B[4] = Digits(b.us)
                /\ b.ns # 0 => B[5] = Digits(b.ns)
  BY <1>g DEF Groups
<1>i. /\ \A j \in 1 .. 2 - 1 : j = 1
      /\ \A j \in 1 .. 3 - 1 : j = 1 \/ j = 2
      /\ \A j \in 1 .. 4 - 1 : j = 1 \/ j = 2 \/ j = 3
      /\ \A j \in 1 .. 5 - 1 : j = 1 \/ j = 2 \/ j = 3 \/ j = 4
  OBVIOUS
<1>1. at(1) \/ at(2) \/ at(3) \/ at(4) \/ at(5)
  <2>1. CASE a.s < b.s
    <3>1. at(1)
      BY SMTT(30), <1>0, <1>h, <2>1 DEF Digits
    <3> QED BY <3>1
  <2>2. CASE a.s = b.s /\ a.ms < b.ms
    <3>1. CASE a.ms = 0 /\ a.us = 0 /\ a.ns = 0
      <4>1. at(2)
        BY <1>0, <1>h, <1>n, <1>m, <2>2, <3>1 DEF Digits, Blank, Dot
      <4> QED BY <4>1
    <3>2. CASE ~(a.ms = 0 /\ a.us = 0 /\ a.ns = 0)
      <4>1. at(3)
        <5>1. A[1] = B[1] /\ A[2] = B[2]
          BY <1>0, <1>h, <1>n, <1>m, <2>2, <3>2
        <5>2. A[3] < B[3] /\ Len(A) >= 3 /\ Len(B) >= 3
          BY <1>0, <1>h, <1>n, <1>m, <2>2, <3>2 DEF Digits, Blank
        <5> QED BY <1>h, <1>i, <5>1, <5>2
      <4> QED BY <4>1
    <3> QED BY <3>1, <3>2
  <2>3. CASE a.s = b.s /\ a.ms = b.ms /\ a.us < b.us
    <3>1. CASE a.ms = 0 /\ a.us = 0 /\ a.ns = 0
      <4>1. at(2)
        BY <1>0, <1>h, <1>n, <1>m, <2>3, <3>1 DEF Digits, Blank, Dot
      <4> QED BY <4>1
    <3>2. CASE ~(a.ms = 0 /\ a.us = 0 /\ a.ns = 0)
      <4>1. at(4)
        <5>1. A[1] = B[1] /\ A[2] = B[2] /\ A[3] = B[3]
          BY <1>0, <1>h, <1>n, <1>m, <2>3, <3>2
        <5>2. A[4] < B[4] /\ Len(A) >= 4 /\ Len(B) >= 4
          <6>1. Len(A) >= 4 /\ (A[4] = Blank \/ A[4] = Digits(a.us))
            BY <1>n, <3>2
          <6>2. Len(B) >= 4 /\ B[4] = Digits(b.us)
            BY <1>0, <1>m, <2>3
          <6> QED BY <1>0, <2>3, <6>1, <6>2 DEF Digits, Blank
        <5> QED BY <1>h, <1>i, <5>1, <5>2
      <4> QED BY <4>1
    <3> QED BY <3>1, <3>2
  <2>4. CASE a.s = b.s /\ a.ms = b.ms /\ a.us = b.us /\ a.ns < b.ns
    <3>1. CASE a.ms = 0 /\ a.us = 0 /\ a.ns = 0
      <4>1. at(2)
        BY <1>0, <1>h, <1>n, <1>m, <2>4, <3>1 DEF Digits, Blank, Dot
      <4> QED BY <4>1
    <3>2. CASE ~(a.ms = 0 /\ a.us = 0 /\ a.ns = 0) /\ a.us = 0 /\ a.ns = 0
      <4>1. at(4)
        <5>1. A[1] = B[1] /\ A[2] = B[2] /\ A[3] = B[3]
          BY <1>0, <1>h, <1>n, <1>m, <2>4, <3>2
        <5>2. A[4] < B[4] /\ Len(A) >= 4 /\ Len(B) >= 4
          BY <1>0, <1>h, <1>n, <1>m, <2>4, <3>2 DEF Digits, Blank
        <5> QED BY <1>h, <1>i, <5>1, <5>2
      <4> QED BY <4>1
    <3>3. CASE ~(a.us = 0 /\ a.ns = 0)
      <4>1. at(5)
        <5>1. A[1] = B[1] /\ A[2] = B[2] /\ A[3] = B[3] /\ A[4] = B[4]
          BY <1>0, <1>h, <1>n, <1>m, <2>4, <3>3
        <5>2. A[5] < B[5] /\ Len(A) >= 5 /\ Len(B) >= 5
          BY SMTT(30), <1>0, <1>h, <1>n, <1>m, <2>4, <3>3 DEF Digits, Blank
        <5> QED BY <1>h, <1>i, <5>1, <5>2
      <4> QED BY <4>1
    <3> QED BY <3>1, <3>2, <3>3
  <2> QED BY <2>1, <2>2, <2>3, <2>4 DEF Earlier
<1>2. Len(A) \in Nat
  BY <1>g DEF Groups
<1>3. ASSUME NEW k \in 1 .. 5, at(k) PROVE Less(A, B)
  BY <1>2, <1>3 DEF Less
<1> QED BY <1>1, <1>3 DEF A, B

\* The order of stamps is the order of times: for a row's year from 0 on the text
\* comparison of the active statements selects what is later than the cutoff.
THEOREM StampOrder ==
  ASSUME NEW a \in Time, NEW b \in Time, b.s >= 0
  PROVE  Less(Stamp(a), Stamp(b)) <=> Earlier(a, b)
<1>0. /\ a.s \in Int /\ a.ms \in Nat /\ a.us \in Nat /\ a.ns \in Nat
      /\ b.s \in Int /\ b.ms \in Nat /\ b.us \in Nat /\ b.ns \in Nat
  BY TimeFields
<1>1. CASE a.s >= 0
  <2>1. Earlier(a, b) => Less(Stamp(a), Stamp(b))
    BY <1>1, StampMonotone
  <2>2. Earlier(b, a) => ~Less(Stamp(a), Stamp(b))
    BY <1>1, StampMonotone, StampForm, LessAsymmetric DEF Groups
  <2>3. ~Earlier(a, b) => a = b \/ Earlier(b, a)
    BY <1>0 DEF Earlier, Time
  <2>4. a = b => ~Less(Stamp(a), Stamp(b))
    BY <1>1, StampForm, LessAsymmetric DEF Groups
  <2>5. Earlier(b, a) => ~Earlier(a, b)
    BY <1>0 DEF Earlier
  <2> QED BY <2>1, <2>2, <2>3, <2>4
<1>2. CASE a.s < 0
  <2>1. Stamp(a)[1] = Minus /\ Len(Stamp(a)) >= 1
    BY <1>0, <1>2 DEF Stamp, Fraction, Digits
  <2>2. Stamp(b)[1] = Digits(b.s) /\ Len(Stamp(b)) >= 1 /\ Len(Stamp(b)) \in Nat
    BY StampForm DEF Groups
  <2>3. Less(Stamp(a), Stamp(b))
    BY SMTT(30), <1>0, <2>1, <2>2 DEF Less, Minus, Digits
  <2> QED BY <1>0, <1>2, <2>3 DEF Earlier
<1> QED BY <1>0, <1>1, <1>2

=============================================================================
