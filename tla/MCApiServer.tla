------------------------------ MODULE MCApiServer ------------------------------
(* Two peers at one address; one of them moves and announces another version.  *)
EXTENDS ApiServer

CONSTANTS p1, p2, a1, a2

Told(id, address, hello, capabilities, synced) == [
  id |-> id, address |-> address, hello |-> hello, capabilities |-> capabilities,
  synced |-> synced, tcp_port |-> 65535, eth_version |-> 255,
  enode_url |-> <<"enode">>, country |-> <<"country">>, city |-> <<"city">>,
  genesis_block_hash |-> <<"genesis">>, best_block |-> <<"block">>,
  total_difficulty |-> <<"difficulty">>, chain |-> <<"chain">>, isp |-> <<>> ]

SomeTexts == {"Geth", "v1", "-", "stable", "+", "b1", "linux", "amd64", "go", "Nethermind",
  "b2", "dotnet", "Other", "v2", "b3", "eth/66", "eth/67", "one", "comma"}
Geth == << <<"Geth">>, <<"v1", "-", "stable", "-", "b1">>, <<"linux", "-", "amd64">>, <<"go">> >>
Nethermind == << <<"Nethermind">>, <<"v1", "+", "b2">>, <<"linux">>, <<"dotnet">> >>
Other == << <<"Other">>, <<"v2", "-", "b3">> >>

SomeContacts == {
  Told(p1, a1, Geth, << <<"eth/66">>, <<"eth/67">> >>, TRUE),
  Told(p1, a2, Other, << <<"one", "comma">> >>, None),
  Told(p2, a1, Nethermind, <<>>, FALSE) }

At(s, ms, us, ns) == [s |-> s, ms |-> ms, us |-> us, ns |-> ns]
SomeTimes == << At(1, 0, 0, 0), At(1, 1, 0, 0), At(1, 1, 0, 1), At(2, 1, 0, 0) >>
SomeParams == {None, 0, 3, 4}
SomeFirst == -1

=============================================================================
