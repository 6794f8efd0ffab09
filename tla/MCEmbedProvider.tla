--------------------------- MODULE MCEmbedProvider ---------------------------
(* Small instances of EmbedProvider, and with it of KubeconfigCache, for TLC. *)
EXTENDS EmbedProvider, TLC

CONSTANT Namespace

(* Clusters that differ in their namespace only.                             *)
PlainClusters ==
  {[kubeconfig |-> <<"prod">>, context |-> <<"admin">>, namespace |-> <<n>>, name |-> <<"web">>] :
     n \in Namespace}

Symmetry == Permutations(Request) \cup Permutations(Namespace)
=============================================================================
