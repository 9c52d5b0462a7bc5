------------------------------ MODULE Cluster ------------------------------
(***************************************************************************)
(* cluster.py: routing over an inventory of nodes, and the cluster         *)
(* evidence manifest that puts nodes and decisions together.               *)
(*                                                                         *)
(* The module keeps no state of its own: who calls it holds the inventory, *)
(* routes with it while nodes join, leave and report, and builds a         *)
(* manifest in the end.  A node id is a number, ordered as the strings     *)
(* are; the fallback's is None.  The backend, the API base URL and the     *)
(* reason of a decision are left out: routing again does not need them.    *)
(*                                                                         *)
(* The report a node writes is left out too: nothing reads it, and a       *)
(* manifest takes the paths it is given for every id without opening them. *)
(***************************************************************************)
EXTENDS Integers, Sequences, SequencesExt

CONSTANTS
  Models,
  Nodes,         \* what a ClusterNode may say
  Claims,        \* decisions from elsewhere than route_to_model()
  None,          \* no node
  MaxNodes,      \* bound on the inventory
  MaxDecisions   \* bound on the routed requests

NodeType ==
  [node_id : Nat, models : SUBSET Models, queue_depth : Nat,
   ready : BOOLEAN, healthy : BOOLEAN, wellformed : BOOLEAN]

DecisionType ==
  [node_id : Nat \cup {None}, model_id : Models, fallback : BOOLEAN]

ASSUME NodesAssumption == Nodes \subseteq NodeType
ASSUME ClaimsAssumption == Claims \subseteq DecisionType
ASSUME NoneAssumption == None \notin Nat
ASSUME BoundsAssumption == MaxNodes \in Nat /\ MaxDecisions \in Nat

VARIABLES
  inventory,  \* the nodes that the caller knows, in its order
  decisions,  \* the decisions that the caller keeps
  current,    \* current[i]: route_to_model() returned decisions[i], and nothing
              \* spoke against it since (history)
  manifest    \* the manifest that the last step built; nobody changes it

vars == <<inventory, decisions, current, manifest>>

NoManifest == [nodes |-> <<>>, decisions |-> <<>>, current |-> <<>>]

Init ==
  /\ inventory = <<>>
  /\ decisions = <<>>
  /\ current = <<>>
  /\ manifest = NoManifest

\* Whether register_cluster_node() returns the node, rather than raise.
register_cluster_node(node) == node.wellformed

AllRegister(nodes) == \A i \in DOMAIN nodes : register_cluster_node(nodes[i])

Serves(node, model) == node.healthy /\ node.ready /\ model \in node.models

Candidates(nodes, model) == {i \in DOMAIN nodes : Serves(nodes[i], model)}

\* Mutant: the key of min() is the queue depth alone, and the first one wins.
ByQueueOnly(nodes, i, j) ==
  \/ nodes[i].queue_depth < nodes[j].queue_depth
  \/ nodes[i].queue_depth = nodes[j].queue_depth /\ i <= j

\* min() by (queue_depth, node_id) takes i rather than j; of equals, the first.
Precedes(nodes, i, j) ==
  \/ nodes[i].queue_depth < nodes[j].queue_depth
  \/ /\ nodes[i].queue_depth = nodes[j].queue_depth
     /\ \/ nodes[i].node_id < nodes[j].node_id
        \/ nodes[i].node_id = nodes[j].node_id /\ i <= j

Selected(nodes, model) ==
  CHOOSE i \in Candidates(nodes, model) :
    \A j \in Candidates(nodes, model) : Precedes(nodes, i, j)

route_to_model(nodes, model) ==
  IF Candidates(nodes, model) = {}
  THEN [node_id |-> None, model_id |-> model, fallback |-> TRUE]
  ELSE [node_id |-> nodes[Selected(nodes, model)].node_id,
        model_id |-> model, fallback |-> FALSE]
-----------------------------------------------------------------------------
\* The inventory, which the caller keeps

Ids(nodes) == {nodes[i].node_id : i \in DOMAIN nodes}
Distinct(nodes) == \A i, j \in DOMAIN nodes : nodes[i].node_id = nodes[j].node_id => i = j

\* new has no more to offer than old.
NoBetter(new, old) ==
  /\ new.node_id = old.node_id
  /\ new.queue_depth >= old.queue_depth
  /\ \A model \in Models : Serves(new, model) => Serves(old, model)

\* The inventory becomes nodes; harmless[i] if that is no reason to decide
\* otherwise than decisions[i] did.
Becomes(nodes, harmless) ==
  /\ inventory' = nodes
  /\ current' = [i \in DOMAIN current |-> current[i] /\ harmless[i]]
  /\ manifest' = NoManifest
  /\ UNCHANGED decisions

Join(node) ==
  /\ Len(inventory) < MaxNodes
  /\ Becomes(Append(inventory, node),
             [i \in DOMAIN decisions |-> ~Serves(node, decisions[i].model_id)])

Leave(k) ==
  Becomes(RemoveAt(inventory, k),
          [i \in DOMAIN decisions |-> decisions[i].node_id # inventory[k].node_id])

Report(k, node) ==
  /\ node.node_id = inventory[k].node_id
  /\ node # inventory[k]
  /\ Becomes([inventory EXCEPT ![k] = node],
             [i \in DOMAIN decisions |->
                /\ decisions[i].node_id # node.node_id
                /\ NoBetter(node, inventory[k])])

Reorder ==
  /\ Len(inventory) > 1
  /\ \E k \in 2..Len(inventory) :
       Becomes(<<inventory[k]>> \o RemoveAt(inventory, k),
               [i \in DOMAIN decisions |-> TRUE])
-----------------------------------------------------------------------------
\* Calls of the module

\* One malformed node and route_to_model() raises, whatever the model.
Route(model) ==
  /\ Len(decisions) < MaxDecisions
  /\ AllRegister(inventory)
  /\ decisions' = Append(decisions, route_to_model(inventory, model))
  /\ current' = Append(current, Distinct(inventory))
  /\ manifest' = NoManifest
  /\ UNCHANGED inventory

\* The caller has a decision that was not made here, or not with this inventory.
Claim(decision) ==
  /\ Len(decisions) < MaxDecisions
  /\ decisions' = Append(decisions, decision)
  /\ current' = Append(current, FALSE)
  /\ manifest' = NoManifest
  /\ UNCHANGED inventory

\* A decision is a fallback or names one of the nodes.
References(nodes, i) ==
  decisions[i].fallback \/ decisions[i].node_id \in Ids(nodes)

\* The manifest is built of what the caller holds, with well-formed paths for
\* the evidence of exactly the nodes' ids.
build_cluster_evidence_manifest ==
  /\ inventory # <<>> /\ AllRegister(inventory)
  /\ decisions # <<>> /\ \A i \in DOMAIN decisions : References(inventory, i)
  /\ manifest' = [nodes |-> inventory, decisions |-> decisions, current |-> current]
  /\ UNCHANGED <<inventory, decisions, current>>

Next ==
  \/ \E node \in Nodes : Join(node)
  \/ \E k \in DOMAIN inventory :
       Leave(k) \/ \E node \in Nodes : Report(k, node)
  \/ Reorder
  \/ \E model \in Models : Route(model)
  \/ \E decision \in Claims : Claim(decision)
  \/ build_cluster_evidence_manifest

Spec == Init /\ [][Next]_vars
-----------------------------------------------------------------------------
\* A decision in a manifest is what route_to_model() returns for the manifest's
\* own nodes, in whatever order they are now, unless it was made elsewhere, or
\* since it was taken its node left or reported, or another one joined or got
\* better; two nodes of one id are not told apart.  Nothing else keeps a manifest
\* from holding decisions that its nodes contradict.
DecisionsReplay ==
  Distinct(manifest.nodes) =>
    \A i \in DOMAIN manifest.decisions : manifest.current[i] =>
      manifest.decisions[i] = route_to_model(manifest.nodes, manifest.decisions[i].model_id)
=============================================================================
