--------------------------------- MODULE MCDht ---------------------------------
EXTENDS Dht

CONSTANTS none

Self == <<0, 0, 0>>
n1 == <<0, 0, 1>>
n4 == <<1, 0, 0>>
n5 == <<1, 0, 1>>
n6 == <<1, 1, 0>>
Nodes == {n1, n4, n5, n6}
Boot == {n4}
Hash == <<1, 1, 1>>
Topology ==
  n4 :> <<n5, n6, n1, Self>> @@ n5 :> <<n4>> @@ n6 :> <<n5, n1>> @@ n1 :> <<>>
=============================================================================
