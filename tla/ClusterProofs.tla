--------------------------- MODULE ClusterProofs ---------------------------
(***************************************************************************)
(* The decisions of a manifest are right, for any nodes, models and        *)
(* bounds.                                                                 *)
(***************************************************************************)
EXTENDS Cluster, WellFoundedInduction, SequenceTheorems, TLAPS

-----------------------------------------------------------------------------
(* What a decision means, whatever the order of the nodes.                 *)

Entries(nodes) == {nodes[i] : i \in DOMAIN nodes}

NoLater(e, f) ==
  \/ e.queue_depth < f.queue_depth
  \/ e.queue_depth = f.queue_depth /\ e.node_id <= f.node_id

\* d is the fallback and no entry serves its model, or d names one that does
\* and that no other one comes before.
Right(entries, d) ==
  \/ /\ d.fallback /\ d.node_id = None
     /\ \A e \in entries : ~Serves(e, d.model_id)
  \/ /\ ~d.fallback
     /\ \E e \in entries :
          /\ e.node_id = d.node_id
          /\ Serves(e, d.model_id)
          /\ \A f \in entries : Serves(f, d.model_id) => NoLater(e, f)

\* A set of numbers has a least one.
LEMMA LeastNumber ==
  ASSUME NEW S \in SUBSET Nat, S # {}
  PROVE  \E m \in S : \A n \in S : m <= n
<1> DEFINE Less == {ss \in Nat \X Nat : ss[1] < ss[2]}
<1>1. IsWellFoundedOn(Less, Nat)
  BY NatLessThanWellFounded, Zenon DEF OpToRel
<1> HIDE DEF Less
<1>2. PICK m \in S : \A n \in S : ~(<<n, m>> \in Less)
  BY <1>1, WFMin, Zenon
<1>3. ASSUME NEW n \in S  PROVE  m <= n
  <2>1. m \in Nat /\ n \in Nat
    OBVIOUS
  <2>2. n < m => <<n, m>> \in Less
    BY <2>1 DEF Less
  <2>3. ~(n < m)
    BY <1>2, <2>2
  <2>4. QED  BY <2>1, <2>3
<1>4. QED  BY <1>3

\* min() has a result.
LEMMA SelectedExists ==
  ASSUME NEW nodes \in Seq(NodeType), NEW model \in Models,
         Candidates(nodes, model) # {}
  PROVE  /\ Selected(nodes, model) \in Candidates(nodes, model)
         /\ \A j \in Candidates(nodes, model) :
              Precedes(nodes, Selected(nodes, model), j)
<1> DEFINE C == Candidates(nodes, model)
           Queues == {nodes[i].queue_depth : i \in C}
<1>1. \A i \in C : i \in Nat /\ nodes[i] \in NodeType
  BY DEF Candidates
<1>2. \A i \in C : nodes[i].queue_depth \in Nat /\ nodes[i].node_id \in Nat
  BY <1>1 DEF NodeType
<1>3. PICK q \in Queues : \A n \in Queues : q <= n
  <2>1. Queues \in SUBSET Nat /\ Queues # {}
    BY <1>2
  <2>2. QED  BY <2>1, LeastNumber
<1> DEFINE Least == {i \in C : nodes[i].queue_depth = q}
           LeastIds == {nodes[i].node_id : i \in Least}
<1>4. PICK id \in LeastIds : \A n \in LeastIds : id <= n
  <2>1. LeastIds \in SUBSET Nat /\ LeastIds # {}
    BY <1>2, <1>3
  <2>2. QED  BY <2>1, LeastNumber
<1> DEFINE Firsts == {i \in Least : nodes[i].node_id = id}
<1>5. PICK k \in Firsts : \A n \in Firsts : k <= n
  <2>1. Firsts \in SUBSET Nat /\ Firsts # {}
    BY <1>1, <1>4
  <2>2. QED  BY <2>1, LeastNumber
<1>6. ASSUME NEW j \in C  PROVE  Precedes(nodes, k, j)
  <2>1. /\ k \in C /\ nodes[k].queue_depth = q /\ nodes[k].node_id = id
        /\ q \in Nat /\ id \in Nat
    BY <1>2, <1>5
  <2>2. nodes[j].queue_depth \in Nat /\ nodes[j].node_id \in Nat /\ q <= nodes[j].queue_depth
    BY <1>2, <1>3
  <2>3. CASE q < nodes[j].queue_depth
    BY <2>1, <2>3 DEF Precedes
  <2>4. CASE q = nodes[j].queue_depth
    <3>1. j \in Least /\ id <= nodes[j].node_id
      BY <2>4, <1>4
    <3>2. CASE id < nodes[j].node_id
      BY <2>1, <2>4, <3>2 DEF Precedes
    <3>3. CASE id = nodes[j].node_id
      BY <2>1, <2>4, <3>1, <3>3, <1>5 DEF Precedes
    <3>4. QED  BY <2>1, <2>2, <3>1, <3>2, <3>3
  <2>5. QED  BY <2>1, <2>2, <2>3, <2>4
<1>7. \E i \in C : \A j \in C : Precedes(nodes, i, j)
  BY <1>5, <1>6
<1>8. QED  BY <1>7 DEF Selected

\* What route_to_model() returns is right.
LEMMA RouteIsRight ==
  ASSUME NEW nodes \in Seq(NodeType), NEW model \in Models
  PROVE  /\ route_to_model(nodes, model) \in DecisionType
         /\ Right(Entries(nodes), route_to_model(nodes, model))
<1> DEFINE d == route_to_model(nodes, model)
<1>1. CASE Candidates(nodes, model) = {}
  BY <1>1 DEF route_to_model, DecisionType, Right, Entries, Candidates
<1>2. CASE Candidates(nodes, model) # {}
  <2> DEFINE k == Selected(nodes, model)
  <2>1. /\ k \in DOMAIN nodes /\ Serves(nodes[k], model)
        /\ \A j \in Candidates(nodes, model) : Precedes(nodes, k, j)
    BY <1>2, SelectedExists DEF Candidates
  <2>2. \A j \in DOMAIN nodes : nodes[j] \in NodeType
    OBVIOUS
  <2>3. \A j \in DOMAIN nodes : nodes[j].node_id \in Nat /\ nodes[j].queue_depth \in Nat
    BY <2>2 DEF NodeType
  <2>4. d = [node_id |-> nodes[k].node_id, model_id |-> model, fallback |-> FALSE]
    BY <1>2 DEF route_to_model
  <2>5. \A f \in Entries(nodes) : Serves(f, model) => NoLater(nodes[k], f)
    <3>1. SUFFICES ASSUME NEW j \in DOMAIN nodes, Serves(nodes[j], model)
                   PROVE  NoLater(nodes[k], nodes[j])
      BY DEF Entries
    <3>2. Precedes(nodes, k, j)
      BY <2>1, <3>1 DEF Candidates
    <3>3. QED  BY <2>1, <2>3, <3>2 DEF Precedes, NoLater
  <2>6. d \in DecisionType
    BY <2>1, <2>3, <2>4 DEF DecisionType
  <2>7. nodes[k] \in Entries(nodes)
    BY <2>1 DEF Entries
  <2>8. QED  BY <2>1, <2>4, <2>5, <2>6, <2>7 DEF Right
<1>3. QED  BY <1>1, <1>2

\* Among nodes of distinct ids, only one decision is right.
LEMMA RightReplays ==
  ASSUME NEW nodes \in Seq(NodeType), NEW d \in DecisionType,
         Distinct(nodes), Right(Entries(nodes), d)
  PROVE  d = route_to_model(nodes, d.model_id)
<1> DEFINE m == d.model_id
<1>1. m \in Models /\ d = [node_id |-> d.node_id, model_id |-> m, fallback |-> d.fallback]
  BY DEF DecisionType
<1>2. \A j \in DOMAIN nodes : nodes[j].node_id \in Nat /\ nodes[j].queue_depth \in Nat
  <2>1. \A j \in DOMAIN nodes : nodes[j] \in NodeType
    OBVIOUS
  <2>2. QED  BY <2>1 DEF NodeType
<1>3. CASE d.fallback
  <2>1. Candidates(nodes, m) = {}
    BY <1>3 DEF Right, Entries, Candidates
  <2>2. d.node_id = None /\ d.fallback = TRUE
    BY <1>3 DEF Right, DecisionType
  <2>3. QED  BY <1>1, <2>1, <2>2 DEF route_to_model
<1>4. CASE ~d.fallback
  <2>1. PICK k \in DOMAIN nodes :
          /\ nodes[k].node_id = d.node_id
          /\ Serves(nodes[k], m)
          /\ \A f \in Entries(nodes) : Serves(f, m) => NoLater(nodes[k], f)
    BY <1>4 DEF Right, Entries
  <2>2. k \in Candidates(nodes, m)
    BY <2>1 DEF Candidates
  <2> DEFINE s == Selected(nodes, m)
  <2>3. s \in Candidates(nodes, m) /\ Precedes(nodes, s, k)
    BY <1>1, <2>2, SelectedExists
  <2>4. s \in DOMAIN nodes /\ Serves(nodes[s], m)
    BY <2>3 DEF Candidates
  <2>5. NoLater(nodes[k], nodes[s])
    BY <2>1, <2>4 DEF Entries
  <2>6. nodes[s].node_id = nodes[k].node_id
    BY <1>2, <2>3, <2>4, <2>5 DEF Precedes, NoLater
  <2>7. d.fallback = FALSE
    BY <1>4 DEF DecisionType
  <2>8. QED  BY <1>1, <2>1, <2>2, <2>6, <2>7 DEF route_to_model
<1>5. QED  BY <1>3, <1>4

\* A decision stays right if every entry that serves its model was there
\* before, no better, and the entries of its own node are left alone.
LEMMA RightStays ==
  ASSUME NEW old \in SUBSET NodeType, NEW new \in SUBSET NodeType,
         NEW d \in DecisionType, Right(old, d),
         \A f \in new : Serves(f, d.model_id) => \E e \in old : NoBetter(f, e),
         \A e \in old : e.node_id = d.node_id => e \in new
  PROVE  Right(new, d)
<1> DEFINE m == d.model_id
<1>1. m \in Models
  BY DEF DecisionType
<1>2. ASSUME NEW f \in new, Serves(f, m)
      PROVE  \E e \in old : Serves(e, m) /\ NoBetter(f, e)
  BY <1>1, <1>2 DEF NoBetter
<1>3. CASE d.fallback
  BY <1>2, <1>3 DEF Right
<1>4. CASE ~d.fallback
  <2>1. PICK e \in old : /\ e.node_id = d.node_id
                         /\ Serves(e, m)
                         /\ \A f \in old : Serves(f, m) => NoLater(e, f)
    BY <1>4 DEF Right
  <2>2. ASSUME NEW f \in new, Serves(f, m)  PROVE  NoLater(e, f)
    <3>1. PICK g \in old : Serves(g, m) /\ NoBetter(f, g)
      BY <1>2, <2>2
    <3>2. NoLater(e, g)
      BY <2>1, <3>1
    <3>3. /\ e.queue_depth \in Nat /\ f.queue_depth \in Nat /\ g.queue_depth \in Nat
          /\ e.node_id \in Nat /\ f.node_id \in Nat /\ g.node_id \in Nat
      BY DEF NodeType
    <3>4. QED  BY <3>1, <3>2, <3>3 DEF NoLater, NoBetter
  <2>3. e \in new
    BY <2>1
  <2>4. QED  BY <1>4, <2>1, <2>2, <2>3 DEF Right
<1>5. QED  BY <1>3, <1>4
-----------------------------------------------------------------------------
(* The steps of the caller.                                                *)

\* RemoveAt() takes one place away and adds nothing.
LEMMA EntriesOfRemoveAt ==
  ASSUME NEW nodes \in Seq(NodeType), NEW k \in DOMAIN nodes
  PROVE  /\ RemoveAt(nodes, k) \in Seq(NodeType)
         /\ Entries(RemoveAt(nodes, k)) \subseteq Entries(nodes)
         /\ Entries(nodes) \subseteq Entries(RemoveAt(nodes, k)) \cup {nodes[k]}
<1> DEFINE before == SubSeq(nodes, 1, k - 1)
           after == SubSeq(nodes, k + 1, Len(nodes))
<1>1. /\ before \in Seq(NodeType) /\ Len(before) = k - 1
      /\ \A i \in 1..(k - 1) : before[i] = nodes[i]
      /\ after \in Seq(NodeType) /\ Len(after) = Len(nodes) - k
      /\ \A i \in 1..(Len(nodes) - k) : after[i] = nodes[k + i]
  OBVIOUS
<1>2. RemoveAt(nodes, k) = before \o after
  BY DEF RemoveAt
<1> DEFINE rest == before \o after
<1> HIDE DEF before, after
<1>3. Len(nodes) \in Nat /\ k \in 1..Len(nodes) /\ DOMAIN nodes = 1..Len(nodes)
  OBVIOUS
<1>4. /\ rest \in Seq(NodeType)
      /\ DOMAIN rest = 1..(Len(nodes) - 1)
      /\ \A i \in 1..(Len(nodes) - 1) :
           rest[i] = IF i <= k - 1 THEN before[i] ELSE after[i - (k - 1)]
  <2>1. /\ rest \in Seq(NodeType)
        /\ Len(rest) = Len(before) + Len(after)
        /\ \A i \in 1..(Len(before) + Len(after)) :
             rest[i] = IF i <= Len(before) THEN before[i] ELSE after[i - Len(before)]
    BY <1>1, ConcatProperties
  <2>2. Len(before) + Len(after) = Len(nodes) - 1
    BY <1>1, <1>3
  <2> HIDE DEF rest
  <2>3. QED  BY <1>1, <2>1, <2>2
<1> HIDE DEF rest
<1>5. ASSUME NEW i \in 1..(Len(nodes) - 1)
      PROVE  rest[i] = IF i <= k - 1 THEN nodes[i] ELSE nodes[i + 1]
  <2>1. CASE i <= k - 1
    BY <1>1, <1>3, <1>4, <2>1
  <2>2. CASE ~(i <= k - 1)
    <3>1. i - (k - 1) \in 1..(Len(nodes) - k) /\ k + (i - (k - 1)) = i + 1
      BY <1>3, <2>2
    <3>2. QED  BY <1>1, <1>3, <1>4, <2>2, <3>1
  <2>3. QED  BY <2>1, <2>2
<1>6. ASSUME NEW i \in DOMAIN rest  PROVE  rest[i] \in Entries(nodes)
  <2>1. i \in DOMAIN nodes /\ i + 1 \in DOMAIN nodes
    BY <1>3, <1>4
  <2>2. rest[i] = nodes[i] \/ rest[i] = nodes[i + 1]
    BY <1>4, <1>5
  <2>3. QED  BY <2>1, <2>2 DEF Entries
<1>7. ASSUME NEW i \in DOMAIN nodes, i # k  PROVE  nodes[i] \in Entries(rest)
  <2>1. CASE i < k
    <3>1. i \in DOMAIN rest /\ rest[i] = nodes[i]
      BY <1>3, <1>4, <1>5, <2>1
    <3>2. QED  BY <3>1 DEF Entries
  <2>2. CASE i > k
    <3>1. i - 1 \in 1..(Len(nodes) - 1) /\ ~(i - 1 <= k - 1) /\ (i - 1) + 1 = i
      BY <1>3, <2>2
    <3>2. i - 1 \in DOMAIN rest /\ rest[i - 1] = nodes[i]
      BY <1>4, <1>5, <3>1
    <3>3. QED  BY <3>2 DEF Entries
  <2>3. QED  BY <1>3, <1>7, <2>1, <2>2
<1>8. RemoveAt(nodes, k) = rest
  BY <1>2 DEF rest
<1>9. Entries(rest) \subseteq Entries(nodes)
  BY <1>6 DEF Entries
<1>10. Entries(nodes) \subseteq Entries(rest) \cup {nodes[k]}
  BY <1>7 DEF Entries
<1>11. QED  BY <1>4, <1>8, <1>9, <1>10

\* The manifest of the last step, if it built one, is of what the caller holds.
Built ==
  manifest = [nodes |-> inventory, decisions |-> decisions, current |-> current]

Inv ==
  /\ inventory \in Seq(NodeType)
  /\ decisions \in Seq(DecisionType)
  /\ current \in Seq(BOOLEAN) /\ Len(current) = Len(decisions)
  /\ \A i \in DOMAIN decisions :
       current[i] => Right(Entries(inventory), decisions[i])
  /\ manifest = NoManifest \/ Built

\* An empty inventory keeps every part of Inv.
LEMMA ClusterInit == Init => Inv
BY DEF Init, Inv

\* An inventory whose change is as harmless as it says keeps the invariant.
LEMMA BecomesKeeps ==
  ASSUME Inv, NEW nodes \in Seq(NodeType), NEW harmless, Becomes(nodes, harmless),
         \A i \in DOMAIN decisions :
           harmless[i] /\ Right(Entries(inventory), decisions[i])
             => Right(Entries(nodes), decisions[i])
  PROVE  Inv'
<1>1. /\ current' = [i \in 1..Len(current) |-> current[i] /\ harmless[i]]
      /\ Len(current) \in Nat
  BY DEF Inv, Becomes
<1>2. current' \in Seq(BOOLEAN) /\ Len(current') = Len(current)
  BY <1>1
<1>3. ASSUME NEW i \in DOMAIN decisions, current'[i]
      PROVE  current[i] /\ harmless[i]
  <2>1. i \in 1..Len(current)
    BY DEF Inv
  <2>2. current'[i] = (current[i] /\ harmless[i])
    BY <1>1, <2>1, Zenon
  <2>3. QED  BY <1>3, <2>2, Zenon
<1>4. QED  BY <1>2, <1>3 DEF Inv, Becomes

\* An entry is no better than itself.
LEMMA NoBetterReflexive ==
  ASSUME NEW e \in NodeType  PROVE  NoBetter(e, e)
<1>1. e.queue_depth \in Nat
  BY DEF NodeType
<1>2. QED  BY <1>1 DEF NoBetter

\* The nodes of a list of nodes are nodes.
LEMMA EntriesTyped ==
  ASSUME NEW nodes \in Seq(NodeType)  PROVE  Entries(nodes) \in SUBSET NodeType
BY DEF Entries

\* A node that joins keeps the invariant.
LEMMA JoinKeeps ==
  ASSUME Inv, NEW node \in Nodes, Join(node)  PROVE  Inv'
<1> DEFINE nodes == Append(inventory, node)
           harmless == [i \in DOMAIN decisions |-> ~Serves(node, decisions[i].model_id)]
<1>1. inventory \in Seq(NodeType) /\ node \in NodeType
  BY NodesAssumption DEF Inv
<1>2. nodes \in Seq(NodeType) /\ Entries(nodes) = Entries(inventory) \cup {node}
  BY <1>1 DEF Entries
<1>3. ASSUME NEW i \in DOMAIN decisions, harmless[i],
             Right(Entries(inventory), decisions[i])
      PROVE  Right(Entries(nodes), decisions[i])
  <2>1. decisions[i] \in DecisionType
    BY DEF Inv
  <2>2. \A f \in Entries(nodes) : Serves(f, decisions[i].model_id)
          => \E e \in Entries(inventory) : NoBetter(f, e)
    BY <1>1, <1>2, <1>3, EntriesTyped, NoBetterReflexive
  <2>3. QED  BY <1>1, <1>2, <1>3, <2>1, <2>2, EntriesTyped, RightStays
<1>4. Becomes(nodes, harmless)
  BY DEF Join
<1> HIDE DEF nodes, harmless
<1>5. QED  BY <1>2, <1>3, <1>4, BecomesKeeps

\* ... one that leaves ...
LEMMA LeaveKeeps ==
  ASSUME Inv, NEW k \in DOMAIN inventory, Leave(k)  PROVE  Inv'
<1> DEFINE nodes == RemoveAt(inventory, k)
           harmless == [i \in DOMAIN decisions |->
                          decisions[i].node_id # inventory[k].node_id]
<1>1. inventory \in Seq(NodeType)
  BY DEF Inv
<1>2. /\ nodes \in Seq(NodeType)
      /\ Entries(nodes) \subseteq Entries(inventory)
      /\ Entries(inventory) \subseteq Entries(nodes) \cup {inventory[k]}
  BY <1>1, EntriesOfRemoveAt
<1>3. ASSUME NEW i \in DOMAIN decisions, harmless[i],
             Right(Entries(inventory), decisions[i])
      PROVE  Right(Entries(nodes), decisions[i])
  <2>1. decisions[i] \in DecisionType
    BY DEF Inv
  <2>2. \A f \in Entries(nodes) : NoBetter(f, f)
    BY <1>2, EntriesTyped, NoBetterReflexive
  <2>3. \A e \in Entries(inventory) : e.node_id = decisions[i].node_id => e \in Entries(nodes)
    BY <1>2, <1>3
  <2>4. QED  BY <1>1, <1>2, <1>3, <2>1, <2>2, <2>3, EntriesTyped, RightStays
<1>4. Becomes(nodes, harmless)
  BY DEF Leave
<1> HIDE DEF nodes, harmless
<1>5. QED  BY <1>2, <1>3, <1>4, BecomesKeeps

\* ... one that reports something else ...
LEMMA ReportKeeps ==
  ASSUME Inv, NEW k \in DOMAIN inventory, NEW node \in Nodes, Report(k, node)
  PROVE  Inv'
<1> DEFINE nodes == [inventory EXCEPT ![k] = node]
           harmless == [i \in DOMAIN decisions |->
                          /\ decisions[i].node_id # node.node_id
                          /\ NoBetter(node, inventory[k])]
<1>1. inventory \in Seq(NodeType) /\ node \in NodeType /\ node.node_id = inventory[k].node_id
  BY NodesAssumption DEF Inv, Report
<1>2. /\ nodes \in Seq(NodeType)
      /\ DOMAIN nodes = DOMAIN inventory
      /\ nodes[k] = node
      /\ \A j \in DOMAIN inventory : j # k => nodes[j] = inventory[j]
  BY <1>1
<1>3. ASSUME NEW i \in DOMAIN decisions, harmless[i],
             Right(Entries(inventory), decisions[i])
      PROVE  Right(Entries(nodes), decisions[i])
  <2>1. decisions[i] \in DecisionType
    BY DEF Inv
  <2>2. ASSUME NEW f \in Entries(nodes)
        PROVE  \E e \in Entries(inventory) : NoBetter(f, e)
    <3>1. PICK j \in DOMAIN inventory : f = nodes[j]
      BY <1>2 DEF Entries
    <3>2. inventory[j] \in Entries(inventory) /\ inventory[j] \in NodeType
      BY <1>1 DEF Entries
    <3>3. NoBetter(f, inventory[j])
      BY <1>2, <1>3, <3>1, <3>2, NoBetterReflexive
    <3>4. QED  BY <3>2, <3>3
  <2>3. \A e \in Entries(inventory) : e.node_id = decisions[i].node_id => e \in Entries(nodes)
    BY <1>1, <1>2, <1>3 DEF Entries
  <2>4. Entries(nodes) \in SUBSET NodeType /\ Entries(inventory) \in SUBSET NodeType
    BY <1>1, <1>2, EntriesTyped
  <2> HIDE DEF nodes, harmless
  <2>5. QED  BY <1>3, <2>1, <2>2, <2>3, <2>4, RightStays
<1>4. Becomes(nodes, harmless)
  BY DEF Report
<1> HIDE DEF nodes, harmless
<1>5. QED  BY <1>2, <1>3, <1>4, BecomesKeeps

\* ... and the nodes in another order.
LEMMA ReorderKeeps ==
  ASSUME Inv, Reorder  PROVE  Inv'
<1> DEFINE harmless == [i \in DOMAIN decisions |-> TRUE]
<1>1. PICK k \in 2..Len(inventory) :
        Becomes(<<inventory[k]>> \o RemoveAt(inventory, k), harmless)
  BY DEF Reorder
<1> DEFINE rest == RemoveAt(inventory, k)
           nodes == <<inventory[k]>> \o rest
<1>2. inventory \in Seq(NodeType) /\ k \in DOMAIN inventory
  BY DEF Inv
<1>3. /\ rest \in Seq(NodeType)
      /\ Entries(rest) \subseteq Entries(inventory)
      /\ Entries(inventory) \subseteq Entries(rest) \cup {inventory[k]}
  BY <1>2, EntriesOfRemoveAt
<1> HIDE DEF rest
<1>4. nodes \in Seq(NodeType) /\ Entries(nodes) = {inventory[k]} \cup Entries(rest)
  <2>1. /\ nodes \in Seq(NodeType) /\ Len(nodes) = Len(rest) + 1
        /\ nodes[1] = inventory[k]
        /\ \A j \in 1..Len(rest) : nodes[j + 1] = rest[j]
    BY <1>2, <1>3
  <2> HIDE DEF nodes
  <2>2. ASSUME NEW j \in DOMAIN nodes
        PROVE  nodes[j] \in {inventory[k]} \cup Entries(rest)
    <3>1. CASE j = 1
      BY <2>1, <3>1
    <3>2. CASE j # 1
      <4>1. j - 1 \in 1..Len(rest) /\ nodes[j] = rest[j - 1]
        BY <1>3, <2>1, <3>2
      <4>2. QED  BY <1>3, <4>1 DEF Entries
    <3>3. QED  BY <3>1, <3>2
  <2>3. ASSUME NEW j \in DOMAIN rest  PROVE  rest[j] \in Entries(nodes)
    <3>1. j + 1 \in DOMAIN nodes /\ nodes[j + 1] = rest[j]
      BY <1>3, <2>1
    <3>2. QED  BY <3>1 DEF Entries
  <2>4. inventory[k] \in Entries(nodes)
    <3>1. 1 \in DOMAIN nodes
      BY <1>3, <2>1
    <3>2. QED  BY <2>1, <3>1 DEF Entries
  <2>5. QED  BY <2>1, <2>2, <2>3, <2>4 DEF Entries
<1>5. Entries(nodes) = Entries(inventory)
  BY <1>2, <1>3, <1>4 DEF Entries
<1>6. Becomes(nodes, harmless)
  BY <1>1 DEF rest
<1> HIDE DEF nodes, harmless
<1>7. QED  BY <1>4, <1>5, <1>6, BecomesKeeps

\* A routed request adds a decision that is right.
LEMMA RouteKeeps ==
  ASSUME Inv, NEW model \in Models, Route(model)  PROVE  Inv'
<1> DEFINE d == route_to_model(inventory, model)
<1>1. d \in DecisionType /\ Right(Entries(inventory), d)
  BY RouteIsRight DEF Inv
<1> HIDE DEF d
<1>2. /\ decisions' = Append(decisions, d)
      /\ current' = Append(current, Distinct(inventory))
      /\ inventory' = inventory /\ manifest' = NoManifest
  BY DEF Route, d
<1>3. Distinct(inventory) \in BOOLEAN
  BY DEF Distinct
<1>4. /\ decisions' \in Seq(DecisionType) /\ Len(decisions') = Len(decisions) + 1
      /\ decisions'[Len(decisions) + 1] = d
      /\ \A i \in 1..Len(decisions) : decisions'[i] = decisions[i]
  BY <1>1, <1>2 DEF Inv
<1>5. /\ current' \in Seq(BOOLEAN) /\ Len(current') = Len(current) + 1
      /\ \A i \in 1..Len(current) : current'[i] = current[i]
  BY <1>2, <1>3 DEF Inv
<1>6. ASSUME NEW i \in DOMAIN decisions', current'[i]
      PROVE  Right(Entries(inventory), decisions'[i])
  <2>1. CASE i \in 1..Len(decisions)
    BY <1>4, <1>5, <1>6, <2>1 DEF Inv
  <2>2. CASE i = Len(decisions) + 1
    BY <1>1, <1>4, <2>2
  <2>3. QED  BY <1>4, <2>1, <2>2 DEF Inv
<1>7. QED  BY <1>2, <1>4, <1>5, <1>6 DEF Inv

\* A decision from elsewhere is not taken for a current one.
LEMMA ClaimKeeps ==
  ASSUME Inv, NEW decision \in Claims, Claim(decision)  PROVE  Inv'
<1> DEFINE stale == FALSE
<1>0. stale \in BOOLEAN /\ ~stale
  OBVIOUS
<1>1. /\ decisions' = Append(decisions, decision) /\ decision \in DecisionType
      /\ current' = Append(current, stale)
      /\ inventory' = inventory /\ manifest' = NoManifest
  BY ClaimsAssumption DEF Claim
<1> HIDE DEF stale
<1>2. /\ decisions' \in Seq(DecisionType) /\ Len(decisions') = Len(decisions) + 1
      /\ \A i \in 1..Len(decisions) : decisions'[i] = decisions[i]
  BY <1>1 DEF Inv
<1>3. /\ current' \in Seq(BOOLEAN) /\ Len(current') = Len(current) + 1
      /\ \A i \in 1..Len(current) : current'[i] = current[i]
      /\ current'[Len(current) + 1] = stale
  BY <1>0, <1>1 DEF Inv
<1>4. ASSUME NEW i \in DOMAIN decisions', current'[i]
      PROVE  Right(Entries(inventory), decisions'[i])
  <2>1. i \in 1..Len(decisions)
    <3>1. i \in 1..(Len(current) + 1) /\ Len(current) \in Nat
      BY <1>2, <1>4 DEF Inv
    <3>2. i # Len(current) + 1
      BY <1>0, <1>3, <1>4
    <3>3. QED  BY <3>1, <3>2 DEF Inv
  <2>2. QED  BY <1>2, <1>3, <1>4, <2>1 DEF Inv
<1>5. QED  BY <1>1, <1>2, <1>3, <1>4 DEF Inv

\* Every step of the caller keeps the invariant.
LEMMA ClusterNext == Inv /\ [Next]_vars => Inv'
<1> SUFFICES ASSUME Inv, [Next]_vars PROVE Inv'  OBVIOUS
<1>1. CASE UNCHANGED vars
  BY <1>1 DEF Inv, Built, vars
<1>2. CASE build_cluster_evidence_manifest
  BY <1>2 DEF Inv, Built, build_cluster_evidence_manifest
<1>3. QED
  BY <1>1, <1>2, JoinKeeps, LeaveKeeps, ReportKeeps, ReorderKeeps, RouteKeeps,
     ClaimKeeps
     DEF Next

\* A decision in a manifest is what route_to_model() returns for the manifest's
\* own nodes, in any order, for any inventory, any models and any number of
\* requests, unless there was a reason to decide otherwise.
THEOREM DecisionsAlwaysReplay == Spec => []DecisionsReplay
<1>1. Inv => DecisionsReplay
  <2> SUFFICES ASSUME Inv PROVE DecisionsReplay  OBVIOUS
  <2>1. CASE manifest = NoManifest
    BY <2>1 DEF DecisionsReplay, NoManifest
  <2>2. CASE Built
    <3>1. ASSUME Distinct(inventory), NEW i \in DOMAIN decisions, current[i]
          PROVE  decisions[i] = route_to_model(inventory, decisions[i].model_id)
      <4>1. decisions[i] \in DecisionType /\ Right(Entries(inventory), decisions[i])
        BY <3>1 DEF Inv
      <4>2. QED  BY <3>1, <4>1, RightReplays DEF Inv
    <3>2. QED  BY <2>2, <3>1 DEF DecisionsReplay, Built
  <2>3. QED  BY <2>1, <2>2 DEF Inv
<1>2. QED  BY <1>1, ClusterInit, ClusterNext, PTL DEF Spec
=============================================================================
