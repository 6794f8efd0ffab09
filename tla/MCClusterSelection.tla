-------------------------- MODULE MCClusterSelection --------------------------
(* A small instance of ClusterSelection for TLC: a kubeconfig with two        *)
(* configured contexts, one of whose list entries is not a string, another    *)
(* with every context of its file, the name of which holds a slash.           *)
EXTENDS ClusterSelection

MCCluster(k, x, m) ==
  [kubeconfig |-> <<k>>, context |-> x, namespace |-> <<"a">>, name |-> <<m>>]

K1 == MCCluster("a", <<"a">>, "a")
K2 == MCCluster("a", <<"a">>, "b")
K3 == MCCluster("a", <<"b">>, "a")
KSlash == MCCluster("b", <<"a", "b">>, "a")

MCSegment == {"", "a", "b", "c"}
MCUniverse == <<K1, K2, K3, KSlash>>
MCFickle == {K2}

MCSources ==
  << [name |-> <<"a">>, contexts |-> <<<<"a">>, <<>>, <<"b">>>>, file |-> <<<<"c">>>>],
     [name |-> <<"b">>, contexts |-> <<>>, file |-> <<<<"a", "b">>>>] >>

MCPatterns ==
  { <<"">>, <<"a">>, <<"b">>, <<"a", "a">>, <<"a", "">>, <<"a", "a", "a">>,
    <<"a", "a", "a", "a">>, <<"a", "a", "a", "b">>, <<"a", "", "a", "a">>,
    <<"b", "a", "a", "b">>, <<"b", "a", "b", "a", "a">> }

MCRequests ==
  {<<>>} \cup {<<p>> : p \in MCPatterns} \cup
  { <<<<"a", "a", "a", "b">>, <<"a">>>>,
    <<<<"a", "b">>, <<"a", "a">>>>,
    <<<<"b">>, <<"a", "a", "a", "a">>, <<"a", "a">>>>,
    <<<<"a", "a", "a", "a">>, <<"a", "a", "a", "a">>>>,
    <<<<"a">>, <<"">>>> }

MCListings == {Chosen(MCUniverse, S) : S \in SUBSET ToSet(MCUniverse)}

ASSUME AsARule == PlainNames /\ ContextsOnce
=============================================================================
