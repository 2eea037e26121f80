------------------------------- MODULE PeerRows -------------------------------
(***************************************************************************)
(* How a PeerData is written and read by the three databases: as a row of  *)
(* SQLite and PostgreSQL and as an item of DynamoDB; how the client        *)
(* version of a hello becomes six of its fields; and how its last_seen     *)
(* compares with a cutoff, which both are texts.                           *)
(*                                                                         *)
(* A text that the code takes apart is a sequence: a capability of its     *)
(* pieces between commas, a client version of its parts between slashes,   *)
(* and a part of words and separators.                                     *)
(***************************************************************************)
EXTENDS Integers, SequencesExt

-----------------------------------------------------------------------------
(* Rows                                                                    *)

\* The fields of p, with these capabilities and this client_arch.
PeerData(p, capabilities, client_arch) == [
  enode_url |-> p.enode_url, id |-> p.id, address |-> p.address, tcp_port |-> p.tcp_port,
  client_name |-> p.client_name, client_version |-> p.client_version,
  client_build |-> p.client_build, client_arch |-> client_arch, os |-> p.os,
  client_language |-> p.client_language, capabilities |-> capabilities,
  last_seen |-> p.last_seen, country |-> p.country, city |-> p.city,
  genesis_block_hash |-> p.genesis_block_hash, best_block |-> p.best_block,
  total_difficulty |-> p.total_difficulty, chain |-> p.chain,
  eth_version |-> p.eth_version, synced |-> p.synced, isp |-> p.isp ]

\* capabilities.join(","): a comma looks the same between two capabilities and in
\* one, and the join of none is the empty text, which is one empty piece.
Join(capabilities) ==
  IF capabilities = <<>> THEN <<"">> ELSE FlattenSeq(capabilities)

\* split(',')
Split(text) == [k \in 1 .. Len(text) |-> <<text[k]>>]

\* CREATE TABLE of SQLite: the order in which SELECT * returns the columns.
Columns == <<
  "id", "ip", "client_name", "client_version", "client_build", "client_arch", "os",
  "client_language", "enode_url", "port", "chain", "genesis_hash", "best_block",
  "total_difficulty", "country", "city", "last_seen", "capabilities", "eth_version",
  "synced", "isp" >>

\* External: the program creates no table in PostgreSQL.  That the operator's has its
\* columns in this order too is an assumption which the reader of the rows makes.
PostgresColumns == Columns

\* INSERT: the value of each named column.  The casts to i32 keep the numbers.
Row(p) == [
  id |-> p.id, ip |-> p.address, client_name |-> p.client_name,
  client_version |-> p.client_version, client_build |-> p.client_build,
  client_arch |-> p.client_arch, os |-> p.os, client_language |-> p.client_language,
  enode_url |-> p.enode_url, port |-> p.tcp_port, chain |-> p.chain,
  genesis_hash |-> p.genesis_block_hash, best_block |-> p.best_block,
  total_difficulty |-> p.total_difficulty, country |-> p.country, city |-> p.city,
  last_seen |-> p.last_seen, capabilities |-> Join(p.capabilities),
  eth_version |-> p.eth_version, synced |-> p.synced, isp |-> p.isp ]

\* SELECT *: columns are read by their position, from 0 on, the numbers with a cast.
ReadRow(row, columns, AsPort(_), AsVersion(_)) == LET get(k) == row[columns[k + 1]] IN [
  id |-> get(0), address |-> get(1), client_name |-> get(2), client_version |-> get(3),
  client_build |-> get(4), client_arch |-> get(5), os |-> get(6),
  client_language |-> get(7), enode_url |-> get(8), tcp_port |-> AsPort(get(9)),
  chain |-> get(10), genesis_block_hash |-> get(11), best_block |-> get(12),
  total_difficulty |-> get(13), country |-> get(14), city |-> get(15),
  last_seen |-> get(16), capabilities |-> Split(get(17)),
  eth_version |-> AsVersion(get(18)), synced |-> get(19), isp |-> get(20) ]

\* The widths of the numbers of a PeerData.
U8(n)  == n \in Nat /\ n < 256
U16(n) == n \in Nat /\ n < 65536

AsIs(n)  == n
AsU8(n)  == n % 256
AsU16(n) == n % 65536

FromRow(row) == ReadRow(row, Columns, AsIs, AsIs)

\* Mutant: both numbers are read as bytes.
FromBytes(row) == ReadRow(row, PostgresColumns, AsU8, AsU8)

\* PostgreSQL has i32 numbers, which are read "as u16" and "as u8".
FromPostgresRow(row) == ReadRow(row, PostgresColumns, AsU16, AsU8)

\* What a row keeps of a PeerData.
Kept(p) == PeerData(p, Split(Join(p.capabilities)), p.client_arch)

-----------------------------------------------------------------------------
(* Items of DynamoDB                                                       *)

S(text)   == [type |-> "S", value |-> text]
N(number) == [type |-> "N", value |-> number]

AsString(value) == IF value.type = "S" THEN value.value ELSE <<>>

\* Mutant: the limit is out of range.
AsNumberBelow(value, limit, default) ==
  IF value.type = "N" /\ value.value < limit THEN value.value ELSE default

\* parse::<u16> and parse::<u8> read a number up to the limit.
AsNumber(value, limit, default) ==
  IF value.type = "N" /\ value.value \in 0 .. limit THEN value.value ELSE default

AsStrings(value) ==
  IF value.type = "L" THEN [k \in DOMAIN value.value |-> AsString(value.value[k])] ELSE <<>>

AsOptionBool(value, default) == IF value.type = "Bool" THEN value.value ELSE default

\* put_item.  The keys peer-id and peer-ip are peer_id and peer_ip here.
Item(p) == [
  peer_id |-> S(p.id), peer_ip |-> S(p.address), client_name |-> S(p.client_name),
  client_version |-> S(p.client_version), client_build |-> S(p.client_build),
  client_arch |-> S(p.client_arch), os |-> S(p.os),
  client_language |-> S(p.client_language), enode_url |-> S(p.enode_url),
  port |-> N(p.tcp_port), chain |-> S(p.chain), country |-> S(p.country),
  city |-> S(p.city),
  capabilities |-> [type |-> "L", value |-> [k \in DOMAIN p.capabilities |-> S(p.capabilities[k])]],
  eth_version |-> N(p.eth_version), last_seen |-> S(p.last_seen),
  genesis_block_hash |-> S(p.genesis_block_hash), best_block |-> S(p.best_block),
  total_difficulty |-> S(p.total_difficulty),
  synced |-> IF p.synced \in BOOLEAN THEN [type |-> "Bool", value |-> p.synced]
                                     ELSE [type |-> "Null", value |-> TRUE],
  isp |-> S(p.isp) ]

Get(item, key) ==
  IF key \in DOMAIN item THEN item[key] ELSE [type |-> "none", value |-> <<>>]

\* From<&HashMap>: what is missing or of another type has a default.
FromItem(item, None) ==
  LET text(key) == AsString(Get(item, key))
  IN [ enode_url |-> text("enode_url"), id |-> text("peer_id"), address |-> text("peer_ip"),
       tcp_port |-> AsNumber(Get(item, "port"), 65535, 30303), client_name |-> text("client_name"),
       client_version |-> text("client_version"), client_build |-> text("client_build"),
       client_arch |-> text("client_architecture"), os |-> text("os"),
       client_language |-> text("client_language"),
       capabilities |-> AsStrings(Get(item, "capabilities")), last_seen |-> text("last_seen"),
       country |-> text("country"), city |-> text("city"),
       genesis_block_hash |-> text("genesis_block_hash"), best_block |-> text("best_block"),
       total_difficulty |-> text("total_difficulty"), chain |-> text("chain"),
       eth_version |-> AsNumber(Get(item, "eth_version"), 255, 0),
       synced |-> AsOptionBool(Get(item, "synced"), None), isp |-> text("isp") ]

-----------------------------------------------------------------------------
(* Client versions                                                         *)

\* Mutant: rsplit_once, which splits at the last separator.
SplitLast(part, separator) ==
  LET k == CHOOSE i \in DOMAIN part :
             part[i] = separator /\ \A j \in i + 1 .. Len(part) : part[j] # separator
  IN <<SubSeq(part, 1, k - 1), SubSeq(part, k + 1, Len(part))>>

\* The words before and after the first separator, if there is one.
SplitOnce(part, separator) ==
  LET k == CHOOSE i \in DOMAIN part :
             part[i] = separator /\ \A j \in 1 .. i - 1 : part[j] # separator
  IN <<SubSeq(part, 1, k - 1), SubSeq(part, k + 1, Len(part))>>

Has(part, separator) == \E i \in DOMAIN part : part[i] = separator

SplitAtDashOrPlus(part) ==
  IF Has(part, "-") THEN SplitOnce(part, "-")
  ELSE IF Has(part, "+") THEN SplitOnce(part, "+") ELSE <<part, <<>>>>

\* The fields of a client version of four parts; any other is the name.  A name is
\* a sequence of parts, as the client version is.
SplitVersion(input) ==
  IF Len(input) # 4
  THEN [name |-> input, version |-> <<>>, build |-> <<>>, arch |-> <<>>, os |-> <<>>,
        language |-> <<>>]
  ELSE LET release == SplitAtDashOrPlus(input[2])
           system  == SplitAtDashOrPlus(input[3])
       IN [name |-> <<input[1]>>, version |-> release[1], build |-> release[2],
           arch |-> system[2], os |-> system[1], language |-> input[4]]

-----------------------------------------------------------------------------
(* Times                                                                   *)

\* Seconds since the year 0 and the three groups of digits of the fraction.
Group == 0 .. 999
Time == [s : Int, ms : Group, us : Group, ns : Group]

Earlier(a, b) ==
  \/ a.s < b.s
  \/ a.s = b.s /\ a.ms < b.ms
  \/ a.s = b.s /\ a.ms = b.ms /\ a.us < b.us
  \/ a.s = b.s /\ a.ms = b.ms /\ a.us = b.us /\ a.ns < b.ns

\* The characters of a text that decide comparisons, in the order of their codes.
Blank == 0
Minus == 1
Dot   == 2
Digits(n) == 3 + n

\* Display of DateTime<Utc>: date and time, as many groups of the fraction as it
\* needs, a blank and UTC.  Years before 0 have a sign.
Fraction(t) ==
  IF t.ms = 0 /\ t.us = 0 /\ t.ns = 0 THEN <<>>
  ELSE IF t.us = 0 /\ t.ns = 0 THEN <<Dot, Digits(t.ms)>>
  ELSE IF t.ns = 0 THEN <<Dot, Digits(t.ms), Digits(t.us)>>
  ELSE <<Dot, Digits(t.ms), Digits(t.us), Digits(t.ns)>>

Stamp(t) ==
  (IF t.s < 0 THEN <<Minus, Digits(-t.s)>> ELSE <<Digits(t.s)>>) \o Fraction(t) \o <<Blank>>

\* The order of texts, byte by byte.
Less(a, b) ==
  \E k \in 1 .. Len(b) :
    /\ k > Len(a) \/ (k <= Len(a) /\ a[k] < b[k])
    /\ \A j \in 1 .. k - 1 : j <= Len(a) /\ a[j] = b[j]

=============================================================================
