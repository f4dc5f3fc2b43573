------------------------------ MODULE VfsProofs ------------------------------
(* The node tree, the open records and the driver's handle stay sound        *)
(* together (Vfs): no directory gets two children of one name, an fs_file in *)
(* use has one descriptor, and the handle of a device opened once at a time  *)
(* is kept.  Name lookup is a recursive function; its values are reached     *)
(* through the equation WalkEquation.  The second half shows that what the    *)
(* paths resolve to changes as Namespace says: names are the edges of a       *)
(* forest, and its paths are followed by induction on their length.           *)
EXTENDS Vfs, SetLemmas, SequenceTheorems

(* A function on 0 .. n that a step from each value to the next defines.   *)
LEMMA WalkEquation ==
  ASSUME NEW root, NEW rel, Len(rel) \in Nat
  PROVE  Walk(root, rel) =
           [i \in 0 .. Len(rel) |-> IF i = 0 THEN root ELSE lookup(Walk(root, rel)[i - 1], rel[i])]
<1> DEFINE n == Len(rel)
           Eq(w, k) == w = [i \in 0 .. k |-> IF i = 0 THEN root ELSE lookup(w[i - 1], rel[i])]
           Bad == {k \in 0 .. n : ~ \E w : Eq(w, k)}
<1>1. Bad = {}
  <2> SUFFICES ASSUME Bad # {} PROVE FALSE
    OBVIOUS
  <2>1. Bad \in SUBSET Nat
    OBVIOUS
  <2>2. PICK k \in Bad : \A m \in Bad : k <= m
    <3> HIDE DEF Bad
    <3> QED BY <2>1, MinExists
  <2>3. k \in 0 .. n /\ ~ \E w : Eq(w, k)
    OBVIOUS
  <2>4. CASE k = 0
    <3> DEFINE w == [i \in 0 .. 0 |-> root]
    <3>1. Eq(w, 0)
      OBVIOUS
    <3> QED BY <2>3, <2>4, <3>1
  <2>5. CASE k # 0
    <3>0. k - 1 \in 0 .. n /\ ~ (k <= k - 1) /\ k \in Nat
      BY <2>3, <2>5
    <3>1. k - 1 \in 0 .. n /\ k - 1 \notin Bad
      <4> HIDE DEF Bad
      <4> QED BY <2>2, <3>0
    <3>2. PICK v : Eq(v, k - 1)
      BY <3>1
    <3> DEFINE w == [i \in 0 .. k |-> IF i = k THEN lookup(v[k - 1], rel[k]) ELSE v[i]]
    <3>3. k \in Nat /\ k >= 1
      BY <2>3, <2>5
    <3>4. Eq(w, k)
      <4>1. ASSUME NEW i \in 0 .. k
            PROVE  w[i] = IF i = 0 THEN root ELSE lookup(w[i - 1], rel[i])
        <5>1. CASE i = k
          BY <3>3, <5>1
        <5>2. CASE i # k
          <6>1. i \in 0 .. k - 1 /\ (i # 0 => i - 1 \in 0 .. k - 1)
            BY <3>3, <5>2
          <6>2. v[i] = IF i = 0 THEN root ELSE lookup(v[i - 1], rel[i])
            BY <3>2, <6>1
          <6>3. w[i] = v[i] /\ (i # 0 => w[i - 1] = v[i - 1])
            BY <3>3, <5>2, <6>1
          <6> QED BY <6>2, <6>3
        <5> QED BY <5>1, <5>2
      <4>2. w = [i \in 0 .. k |-> w[i]]
        OBVIOUS
      <4> HIDE DEF w
      <4> QED BY <4>1, <4>2
    <3> QED BY <2>3, <3>4
  <2> QED BY <2>4, <2>5
<1>2. \E w : Eq(w, n)
  BY <1>1
<1>3. Eq(CHOOSE w : Eq(w, n), n)
  <2> HIDE DEF Eq
  <2> QED BY <1>2
<1>4. Walk(root, rel) = CHOOSE w : Eq(w, n)
  BY DEF Walk
<1> QED BY <1>3, <1>4

-----------------------------------------------------------------------------
NodeRecords == [name : Names \cup {"/"}, type : {"FS_DIR", "FS_FILE", "FS_DEV"},
                fs : {"tmpfs", "devfs"}]
Known == 1 .. Len(nodes)

(* Children are nodes, and a node not made yet has none.                   *)
TreeInv ==
  /\ Len(nodes) \in 4 .. MaxNodes
  /\ \A d \in 1 .. MaxNodes : \A i \in 1 .. Len(children[d]) : children[d][i] \in Known
  /\ \A d \in 1 .. MaxNodes : d > Len(nodes) => children[d] = <<>>

(* Records in use and descriptors in use correspond one to one, and a      *)
(* device that was never opened twice at a time has one record.            *)
OpenInv ==
  /\ \A f \in FileIds : node[f] # None <=> \E d \in Fds : fds[d] = f
  /\ \A d, e \in Fds : fds[d] = fds[e] /\ fds[d] # None => d = e
  /\ ~ shared => \A f, g \in Openers(DevNode) : f = g

VfsInv == TypeOK /\ TreeInv /\ OpenInv /\ NamesUnique /\ HandleKept

(* The parts of the type invariant in the form the proofs use.             *)
LEMMA NodesTyped ==
  ASSUME TypeOK
  PROVE  /\ nodes \in Seq(NodeRecords) /\ Len(nodes) \in Nat
         /\ \A n \in Known : nodes[n] \in NodeRecords
         /\ \A d \in 1 .. MaxNodes : children[d] \in Seq(1 .. MaxNodes) /\ Len(children[d]) \in Nat
<1>1. nodes \in Seq(NodeRecords) /\ children \in [1 .. MaxNodes -> Seq(1 .. MaxNodes)]
  BY DEF TypeOK, NodeRecords
<1> HIDE DEF NodeRecords
<1> DEFINE S == 1 .. MaxNodes
<1>2. children \in [S -> Seq(S)]
  BY <1>1
<1>3. \A d \in S : children[d] \in Seq(S) /\ Len(children[d]) \in Nat
  <2> HIDE DEF S
  <2> QED BY <1>2
<1> QED BY <1>1, <1>3 DEF Known

(* The first child of a name, where there is one.                          *)
LEMMA PlaceIsFirst ==
  ASSUME NEW dir, NEW name, Len(children[dir]) \in Nat,
         NEW i \in 1 .. Len(children[dir]), HasName(dir, i, name)
  PROVE  /\ Place(dir, name) \in 1 .. Len(children[dir])
         /\ HasName(dir, Place(dir, name), name)
<1> DEFINE P == {k \in 1 .. Len(children[dir]) : HasName(dir, k, name)}
<1>1. P \in SUBSET Nat /\ P # {}
  OBVIOUS
<1>2. PICK k \in P : \A m \in P : k <= m
  <2> HIDE DEF P
  <2> QED BY <1>1, MinExists
<1>3. /\ k \in 1 .. Len(children[dir]) /\ HasName(dir, k, name)
      /\ \A j \in 1 .. k - 1 : ~ HasName(dir, j, name)
  <2>1. \A j \in 1 .. k - 1 : j \in 1 .. Len(children[dir]) /\ ~ (k <= j)
    OBVIOUS
  <2> QED BY <1>2, <2>1
<1> QED BY <1>3 DEF Place

(* lookup returns a node of the tree or none, and none only if no child    *)
(* has the name.                                                           *)
LEMMA LookupFinds ==
  ASSUME TypeOK, TreeInv, NEW dir \in Known, NEW name
  PROVE  /\ lookup(dir, name) \in 0 .. Len(nodes)
         /\ nodes[dir].type = "FS_DIR" /\ lookup(dir, name) = None =>
              \A i \in 1 .. Len(children[dir]) : ~ HasName(dir, i, name)
<1>1. dir \in 1 .. MaxNodes /\ Len(children[dir]) \in Nat /\ Len(nodes) \in Nat
      /\ \A i \in 1 .. Len(children[dir]) : children[dir][i] \in 1 .. Len(nodes)
  <2>1. dir \in 1 .. MaxNodes
    BY VfsAssumption DEF TreeInv, Known
  <2> QED BY <2>1, NodesTyped DEF TreeInv, Known
<1>2. CASE \/ nodes[dir].type # "FS_DIR"
           \/ \A i \in 1 .. Len(children[dir]) : ~ HasName(dir, i, name)
  BY <1>1, <1>2 DEF lookup, None
<1>3. CASE /\ nodes[dir].type = "FS_DIR"
           /\ ~ \A i \in 1 .. Len(children[dir]) : ~ HasName(dir, i, name)
  <2>1. Place(dir, name) \in 1 .. Len(children[dir])
    BY <1>1, <1>3, PlaceIsFirst
  <2>2. dir # None
    BY <1>1 DEF None
  <2>3. lookup(dir, name) = children[dir][Place(dir, name)]
    BY <1>3, <2>2 DEF lookup
  <2> QED BY <1>1, <2>1, <2>3 DEF None
<1> QED BY <1>2, <1>3

(* Following names from a node of the tree never leaves the tree.          *)
LEMMA WalkStays ==
  ASSUME TypeOK, TreeInv, NEW root \in Known, NEW rel, Len(rel) \in Nat
  PROVE  \A i \in 0 .. Len(rel) : Walk(root, rel)[i] \in 0 .. Len(nodes)
<1> DEFINE n == Len(rel)
           w == Walk(root, rel)
           Bad == {k \in 0 .. n : w[k] \notin 0 .. Len(nodes)}
<1>1. SUFFICES ASSUME Bad # {} PROVE FALSE
  OBVIOUS
<1>2. PICK k \in Bad : \A m \in Bad : k <= m
  <2>1. Bad \in SUBSET Nat
    OBVIOUS
  <2> HIDE DEF Bad
  <2> QED BY <1>1, <2>1, MinExists
<1>3. \A i \in 0 .. n : w[i] = IF i = 0 THEN root ELSE lookup(w[i - 1], rel[i])
  <2> HIDE DEF w
  <2>1. w = [i \in 0 .. n |-> IF i = 0 THEN root ELSE lookup(w[i - 1], rel[i])]
    BY WalkEquation DEF w
  <2> QED BY <2>1
<1> HIDE DEF w
<1>4. k \in 0 .. n /\ w[k] \notin 0 .. Len(nodes)
  BY <1>2
<1>5. Len(nodes) \in Nat /\ root \in 0 .. Len(nodes)
  BY NodesTyped DEF Known
<1>6. CASE k = 0
  BY <1>3, <1>4, <1>5, <1>6
<1>7. CASE k # 0
  <2>1. k - 1 \in 0 .. n /\ ~ (k <= k - 1)
    BY <1>4, <1>7
  <2>2. w[k - 1] \in 0 .. Len(nodes)
    BY <1>2, <2>1
  <2>3. w[k] = lookup(w[k - 1], rel[k])
    BY <1>3, <1>4, <1>7
  <2>4. lookup(None, rel[k]) = None
    BY DEF lookup
  <2>5. w[k - 1] \in Known => lookup(w[k - 1], rel[k]) \in 0 .. Len(nodes)
    BY LookupFinds
  <2>6. w[k - 1] = None \/ w[k - 1] \in Known
    BY <1>5, <2>2 DEF None, Known
  <2> QED BY <1>4, <1>5, <2>3, <2>4, <2>5, <2>6 DEF None
<1> QED BY <1>6, <1>7

(* The mount and what is left of a path.                                   *)
LEMMA MountOf ==
  ASSUME NEW path \in Seq(Names)
  PROVE  /\ find_mnt(path).root \in {Root, DevRoot}
         /\ find_mnt(path).rel \in Seq(Names)
<1> DEFINE A == [root |-> Root, rel |-> <<>>]
           B == [root |-> DevRoot, rel |-> Tail(path)]
           C == [root |-> DevRoot, rel |-> <<Suffix[path[1]]>> \o Tail(path)]
           D == [root |-> Root, rel |-> path]
<1>1. CASE path = <<>>
  <2>1. find_mnt(path) = A
    BY <1>1, Zenon DEF find_mnt
  <2>2. <<>> \in Seq(Names)
    OBVIOUS
  <2> QED BY <2>1, <2>2
<1>2. CASE path # <<>> /\ path[1] = "dev"
  <2>1. "dev" \notin DOMAIN Suffix
    BY VfsAssumption
  <2>2. find_mnt(path) = B
    BY <1>2, <2>1, Zenon DEF find_mnt
  <2>3. Tail(path) \in Seq(Names)
    BY <1>2
  <2> QED BY <2>2, <2>3
<1>3. CASE path # <<>> /\ path[1] # "dev" /\ path[1] \in DOMAIN Suffix
  <2>1. find_mnt(path) = C
    BY <1>3, Zenon DEF find_mnt
  <2>2. Suffix[path[1]] \in Names
    BY <1>3, VfsAssumption
  <2>3. <<Suffix[path[1]]>> \o Tail(path) \in Seq(Names)
    BY <1>3, <2>2
  <2> QED BY <2>1, <2>3
<1>4. CASE path # <<>> /\ path[1] # "dev" /\ path[1] \notin DOMAIN Suffix
  <2>1. find_mnt(path) = D
    BY <1>4, Zenon DEF find_mnt
  <2> QED BY <2>1
<1> QED BY <1>1, <1>2, <1>3, <1>4

(* fs_resolve returns a node of the tree or none.                          *)
LEMMA ResolveStays ==
  ASSUME TypeOK, TreeInv, NEW path \in Seq(Names)
  PROVE  fs_resolve(path) \in 0 .. Len(nodes)
<1> DEFINE m == find_mnt(path)
<1>1. m.root \in Known /\ Len(m.rel) \in Nat
  <2>1. {Root, DevRoot} \subseteq Known
    BY NodesTyped DEF TreeInv, Known, Root, DevRoot
  <2>2. m.root \in {Root, DevRoot} /\ m.rel \in Seq(Names)
    BY MountOf
  <2> HIDE DEF m
  <2> QED BY <2>1, <2>2
<1>2. fs_resolve(path) = Walk(m.root, m.rel)[Len(m.rel)]
  BY DEF fs_resolve
<1> HIDE DEF m
<1> QED BY <1>1, <1>2, WalkStays

(* A path of the model is a sequence of at least one name.                 *)
LEMMA PathsAreSequences ==
  ASSUME NEW path \in Paths
  PROVE  /\ path \in Seq(Names) /\ Len(path) \in Nat /\ Len(path) >= 1
         /\ Front(path) \in Seq(Names) /\ Last(path) \in Names
<1>1. PICK k \in 1 .. Depth : path \in [1 .. k -> Names]
  BY DEF Paths
<1>2. k \in Nat /\ k >= 1
  BY <1>1, VfsAssumption
<1>3. path \in Seq(Names) /\ Len(path) = k
  BY <1>1, <1>2
<1>4. Front(path) \in Seq(Names)
  BY <1>2, <1>3 DEF Front
<1>5. Last(path) \in Names
  BY <1>1, <1>2, <1>3 DEF Last
<1> QED BY <1>2, <1>3, <1>4, <1>5

(* The directory an operation works in is a node of the tree.              *)
LEMMA ParentIsKnown ==
  ASSUME VfsInv, NEW path \in Paths, Parent(path) # None
  PROVE  Parent(path) \in Known
<1>1. Parent(path) \in 0 .. Len(nodes) /\ Len(nodes) \in Nat
  BY PathsAreSequences, ResolveStays, NodesTyped DEF VfsInv, Parent
<1> QED BY <1>1 DEF None, Known

-----------------------------------------------------------------------------
(* One more child in front; one child taken out.                           *)
LEMMA PushFront ==
  ASSUME NEW S, NEW c \in Seq(S), NEW x \in S
  PROVE  /\ <<x>> \o c \in Seq(S) /\ Len(<<x>> \o c) = Len(c) + 1
         /\ (<<x>> \o c)[1] = x
         /\ \A i \in 2 .. Len(c) + 1 : i - 1 \in 1 .. Len(c) /\ (<<x>> \o c)[i] = c[i - 1]
  OBVIOUS

(* Taking one element out of a sequence moves the later ones up.           *)
LEMMA TakeOut ==
  ASSUME NEW S, NEW c \in Seq(S), NEW k \in 1 .. Len(c)
  PROVE  /\ RemoveAt(c, k) \in Seq(S) /\ Len(RemoveAt(c, k)) = Len(c) - 1
         /\ \A i \in 1 .. Len(c) - 1 :
              RemoveAt(c, k)[i] = IF i < k THEN c[i] ELSE c[i + 1]
<1> DEFINE a == SubSeq(c, 1, k - 1)
           b == SubSeq(c, k + 1, Len(c))
<1>1. Len(c) \in Nat /\ k \in Nat /\ k >= 1 /\ k <= Len(c)
  OBVIOUS
<1>2. a \in Seq(S) /\ Len(a) = k - 1 /\ \A i \in 1 .. k - 1 : a[i] = c[i]
  BY <1>1
<1>3. b \in Seq(S) /\ Len(b) = Len(c) - k /\ \A i \in 1 .. Len(c) - k : b[i] = c[k + i]
  BY <1>1
<1>4. RemoveAt(c, k) = a \o b
  BY DEF RemoveAt
<1> HIDE DEF a, b
<1>5. /\ a \o b \in Seq(S) /\ Len(a \o b) = Len(c) - 1
      /\ \A i \in 1 .. Len(a) : (a \o b)[i] = a[i]
      /\ \A i \in Len(a) + 1 .. Len(a) + Len(b) : (a \o b)[i] = b[i - Len(a)]
  <2>1. /\ a \o b \in Seq(S) /\ Len(a \o b) = Len(a) + Len(b)
        /\ \A i \in 1 .. Len(a) + Len(b) :
             (a \o b)[i] = IF i <= Len(a) THEN a[i] ELSE b[i - Len(a)]
    BY <1>2, <1>3, ConcatProperties
  <2>2. Len(a) \in Nat /\ Len(b) \in Nat /\ Len(a) + Len(b) = Len(c) - 1
    BY <1>1, <1>2, <1>3
  <2> QED BY <2>1, <2>2
<1>6. ASSUME NEW i \in 1 .. Len(c) - 1
      PROVE  (a \o b)[i] = IF i < k THEN c[i] ELSE c[i + 1]
  <2>1. CASE i < k
    BY <1>1, <1>2, <1>5, <2>1
  <2>2. CASE ~ (i < k)
    <3>1. i \in Len(a) + 1 .. Len(a) + Len(b) /\ i - Len(a) \in 1 .. Len(c) - k
          /\ k + (i - Len(a)) = i + 1
      BY <1>1, <1>2, <1>3, <2>2
    <3>2. (a \o b)[i] = b[i - Len(a)] /\ b[i - Len(a)] = c[k + (i - Len(a))]
      BY <1>3, <1>5, <3>1
    <3> QED BY <2>2, <3>1, <3>2
  <2> QED BY <2>1, <2>2
<1> QED BY <1>4, <1>5, <1>6

(* A node made under a directory: where everything is afterwards.          *)
LEMMA AddedShape ==
  ASSUME VfsInv, NEW dir \in Known, NEW name \in Names, NEW type \in {"FS_DIR", "FS_FILE"},
         Len(nodes) < MaxNodes, Added(dir, name, type)
  PROVE  /\ nodes' \in Seq(NodeRecords) /\ Len(nodes') = Len(nodes) + 1
         /\ nodes'[Len(nodes) + 1].name = name
         /\ \A n \in Known : nodes'[n] = nodes[n]
         /\ children' \in [1 .. MaxNodes -> Seq(1 .. MaxNodes)]
         /\ \A d \in 1 .. MaxNodes : d # dir => children'[d] = children[d]
         /\ Len(children'[dir]) = Len(children[dir]) + 1
         /\ children'[dir][1] = Len(nodes) + 1
         /\ \A i \in 2 .. Len(children[dir]) + 1 :
              i - 1 \in 1 .. Len(children[dir]) /\ children'[dir][i] = children[dir][i - 1]
<1> DEFINE new == Len(nodes) + 1
           rec == [name |-> name, type |-> type, fs |-> nodes[dir].fs]
           c == children[dir]
           c2 == <<new>> \o c
           S == 1 .. MaxNodes
<1>1. /\ nodes \in Seq(NodeRecords) /\ Len(nodes) \in Nat /\ MaxNodes \in Nat
      /\ \A n \in Known : nodes[n] \in NodeRecords
      /\ children \in [S -> Seq(S)] /\ \A d \in S : children[d] \in Seq(S) /\ Len(children[d]) \in Nat
  BY NodesTyped, VfsAssumption DEF VfsInv, TypeOK, TreeInv
<1>2. /\ nodes' = Append(nodes, rec) /\ children' = [children EXCEPT ![dir] = c2]
  BY DEF Added
<1>3. new \in S /\ dir \in S
  BY <1>1 DEF Known
<1>4. rec \in NodeRecords /\ rec.name = name
  BY <1>1 DEF NodeRecords
<1> HIDE DEF rec, NodeRecords
<1>5. /\ nodes' \in Seq(NodeRecords) /\ Len(nodes') = new /\ nodes'[new] = rec
      /\ \A n \in Known : nodes'[n] = nodes[n]
  BY <1>1, <1>2, <1>4 DEF Known
<1>6. /\ c2 \in Seq(S) /\ Len(c2) = Len(c) + 1 /\ c2[1] = new
      /\ \A i \in 2 .. Len(c) + 1 : i - 1 \in 1 .. Len(c) /\ c2[i] = c[i - 1]
  <2>1. c \in Seq(S) /\ new \in S /\ Len(c) \in Nat
    BY <1>1, <1>3
  <2> HIDE DEF c, S, new
  <2> QED BY <2>1, PushFront
<1> HIDE DEF c2
<1>7. /\ children' \in [S -> Seq(S)] /\ children'[dir] = c2
      /\ \A d \in S : d # dir => children'[d] = children[d]
  <2> HIDE DEF S, c
  <2> QED BY <1>1, <1>2, <1>3, <1>6
<1> QED BY <1>4, <1>5, <1>6, <1>7

(* A node made under a directory that does not have the name.              *)
LEMMA AddedTree ==
  ASSUME VfsInv, NEW dir \in Known, NEW name \in Names, NEW type \in {"FS_DIR", "FS_FILE"},
         Takes(dir, name), Len(nodes) < MaxNodes, Added(dir, name, type)
  PROVE  /\ nodes' \in Seq(NodeRecords) /\ children' \in [1 .. MaxNodes -> Seq(1 .. MaxNodes)]
         /\ TreeInv' /\ NamesUnique'
<1> DEFINE new == Len(nodes) + 1
           c == children[dir]
           c2 == children'[dir]
           S == 1 .. MaxNodes
<1>1. /\ nodes \in Seq(NodeRecords) /\ Len(nodes) \in Nat /\ MaxNodes \in Nat
      /\ \A d \in S : Len(children[d]) \in Nat
      /\ Len(nodes) \in 4 .. MaxNodes
  BY NodesTyped, VfsAssumption DEF VfsInv, TypeOK, TreeInv
<1>3. new \in S /\ dir \in S /\ new # dir /\ Known \subseteq S /\ new \in Nat /\ dir # None
  BY <1>1 DEF Known, None
<1> HIDE DEF NodeRecords
<1>5. /\ nodes' \in Seq(NodeRecords) /\ Len(nodes') = new /\ nodes'[new].name = name
      /\ \A n \in Known : nodes'[n] = nodes[n]
  BY AddedShape
<1>6. /\ Len(c2) = Len(c) + 1 /\ c2[1] = new /\ Len(c) \in Nat
      /\ \A i \in 2 .. Len(c) + 1 : i - 1 \in 1 .. Len(c) /\ c2[i] = c[i - 1]
  BY <1>1, <1>3, AddedShape
<1>7. /\ children' \in [S -> Seq(S)] /\ children'[dir] = c2
      /\ \A d \in S : d # dir => children'[d] = children[d]
  BY AddedShape
<1> HIDE DEF c2
<1>8. /\ \A d \in S : \A i \in 1 .. Len(children[d]) : children[d][i] \in Known
      /\ \A d \in S : d > Len(nodes) => children[d] = <<>>
  BY DEF VfsInv, TreeInv
<1>9. TreeInv'
  <2>1. Len(nodes') \in 4 .. MaxNodes
    BY <1>1, <1>5
  <2>2. ASSUME NEW d \in S, NEW i \in 1 .. Len(children'[d]) PROVE children'[d][i] \in 1 .. Len(nodes')
    <3>1. CASE d = dir
      <4>1. c2[i] = new \/ (i - 1 \in 1 .. Len(c) /\ c2[i] = c[i - 1])
        BY <1>6, <1>7, <2>2, <3>1
      <4>2. CASE c2[i] = new
        <5>1. children'[d][i] = new /\ new \in 1 .. new
          BY <1>3, <1>7, <3>1, <4>2
        <5> QED BY <1>5, <5>1
      <4>3. CASE i - 1 \in 1 .. Len(c) /\ c2[i] = c[i - 1]
        <5>1. c[i - 1] \in Known
          BY <1>3, <1>8, <4>3
        <5>2. Known \subseteq 1 .. new /\ children'[d][i] = c[i - 1]
          BY <1>1, <1>7, <3>1, <4>3 DEF Known
        <5> HIDE DEF c, new
        <5>3. children'[d][i] \in 1 .. new
          BY <5>1, <5>2
        <5> QED BY <1>5, <5>3
      <4> QED BY <4>1, <4>2, <4>3
    <3>2. CASE d # dir
      <4>1. children[d][i] \in Known
        BY <1>7, <1>8, <2>2, <3>2
      <4>2. Known \subseteq 1 .. new
        BY <1>1 DEF Known
      <4> HIDE DEF new, S
      <4>3. children'[d][i] = children[d][i]
        BY <1>7, <3>2
      <4>4. children'[d][i] \in 1 .. new
        BY <4>1, <4>2, <4>3
      <4> QED BY <1>5, <4>4
    <3> QED BY <3>1, <3>2
  <2>3. ASSUME NEW d \in S, d > Len(nodes') PROVE children'[d] = <<>>
    <3>1. d > Len(nodes) /\ d # dir
      BY <1>1, <1>5, <2>3 DEF Known
    <3> QED BY <1>7, <1>8, <3>1
  <2> QED BY <2>1, <2>2, <2>3 DEF TreeInv, Known
<1>10. NamesUnique'
  <2>1. SUFFICES ASSUME NEW d \in 1 .. Len(nodes'), nodes'[d].type = "FS_DIR",
                        NEW i \in 1 .. Len(children'[d]), NEW j \in 1 .. Len(children'[d]),
                        nodes'[children'[d][i]].name = nodes'[children'[d][j]].name
                 PROVE  i = j
    BY DEF NamesUnique
  <2>2. \A e \in Known : nodes[e].type = "FS_DIR" =>
          \A k, l \in 1 .. Len(children[e]) :
            nodes[children[e][k]].name = nodes[children[e][l]].name => k = l
    BY DEF VfsInv, NamesUnique, Known
  <2>3. CASE d = new
    <3>1. new > Len(nodes) /\ children'[new] = children[new]
      <4>1. new > Len(nodes) /\ new \in S /\ new # dir
        BY <1>1, <1>3
      <4> HIDE DEF new, S
      <4> QED BY <1>7, <4>1
    <3>2. Len(children'[d]) = 0
      BY <1>3, <1>8, <2>3, <3>1
    <3> QED BY <2>1, <3>2
  <2>4. CASE d # new /\ d # dir
    <3>1. d \in Known /\ d \in S /\ children'[d] = children[d]
      <4>1. d \in 1 .. new /\ d # new
        BY <1>5, <2>1, <2>4
      <4>2. d \in Known
        BY <1>1, <4>1 DEF Known
      <4> QED BY <1>3, <1>7, <2>4, <4>2
    <3>2. nodes[d].type = "FS_DIR" /\ children[d][i] \in Known /\ children[d][j] \in Known
      BY <1>5, <1>8, <2>1, <3>1
    <3>3. nodes[children[d][i]].name = nodes[children[d][j]].name
      BY <1>5, <2>1, <3>1, <3>2
    <3> QED BY <2>1, <2>2, <3>1, <3>2, <3>3
  <2>5. CASE d = dir
    <3>1. nodes[dir].type = "FS_DIR"
      BY <1>5, <2>1, <2>5
    <3>2. \A k \in 1 .. Len(c) : c[k] \in Known /\ nodes'[c[k]].name # name
      <4>1. lookup(dir, name) = None
        BY DEF Takes
      <4>2. \A k \in 1 .. Len(c) : ~ HasName(dir, k, name)
        BY <3>1, <4>1, LookupFinds DEF VfsInv
      <4>3. \A k \in 1 .. Len(c) : c[k] \in Known
        BY <1>3, <1>8
      <4> QED BY <1>5, <4>2, <4>3 DEF HasName
    <3>3. nodes'[c2[1]].name = name
      BY <1>5, <1>6
    <3>4. i \in 1 .. Len(c) + 1 /\ j \in 1 .. Len(c) + 1
          /\ nodes'[c2[i]].name = nodes'[c2[j]].name
      BY <1>6, <1>7, <2>1, <2>5
    <3> HIDE DEF c
    <3>5. CASE i = 1 \/ j = 1
      <4>1. \A k \in 2 .. Len(c) + 1 : nodes'[c2[k]].name # name
        BY <1>6, <3>2
      <4>2. (i = 1 \/ i \in 2 .. Len(c) + 1) /\ (j = 1 \/ j \in 2 .. Len(c) + 1)
        BY <1>6, <3>4
      <4> QED BY <3>3, <3>4, <3>5, <4>1, <4>2
    <3>6. CASE i # 1 /\ j # 1
      <4>1. /\ i - 1 \in 1 .. Len(c) /\ c2[i] = c[i - 1]
            /\ j - 1 \in 1 .. Len(c) /\ c2[j] = c[j - 1]
        BY <1>6, <3>4, <3>6, SMTT(60)
      <4>2. nodes[c[i - 1]].name = nodes[c[j - 1]].name
        BY <1>5, <3>2, <3>4, <4>1
      <4>3. i - 1 = j - 1
        BY <2>2, <3>1, <4>1, <4>2 DEF c
      <4> QED BY <3>4, <4>3
    <3> QED BY <3>5, <3>6
  <2> QED BY <2>3, <2>4, <2>5
<1> QED BY <1>5, <1>7, <1>9, <1>10

(* The first child of a name leaves the list.                              *)
Unlinks(dir, name) == children' = [children EXCEPT ![dir] = Unlinked(dir, name)]

(* One child is taken out of one directory: the one lookup found.          *)
LEMMA UnlinkedShape ==
  ASSUME VfsInv, NEW dir \in Known, NEW name, lookup(dir, name) # None,
         Unlinks(dir, name)
  PROVE  /\ children' \in [1 .. MaxNodes -> Seq(1 .. MaxNodes)]
         /\ \A d \in 1 .. MaxNodes : d # dir => children'[d] = children[d]
         /\ Len(children'[dir]) = Len(children[dir]) - 1
         /\ \E k \in 1 .. Len(children[dir]) :
              /\ lookup(dir, name) = children[dir][k]
              /\ \A i \in 1 .. Len(children[dir]) - 1 :
                   children'[dir][i] = IF i < k THEN children[dir][i] ELSE children[dir][i + 1]
<1> DEFINE S == 1 .. MaxNodes
           c == children[dir]
           k == Place(dir, name)
           c2 == RemoveAt(c, k)
<1>1. /\ children \in [S -> Seq(S)] /\ dir \in S /\ c \in Seq(S) /\ Len(c) \in Nat
  BY NodesTyped, VfsAssumption DEF VfsInv, TypeOK, TreeInv, Known
<1>2. k \in 1 .. Len(c) /\ lookup(dir, name) = c[k]
  <2>1. \E i \in 1 .. Len(c) : HasName(dir, i, name)
    BY DEF lookup
  <2>2. k \in 1 .. Len(c)
    BY <1>1, <2>1, PlaceIsFirst
  <2> QED BY <2>2 DEF lookup
<1>3. /\ c2 \in Seq(S) /\ Len(c2) = Len(c) - 1
      /\ \A i \in 1 .. Len(c) - 1 : c2[i] = IF i < k THEN c[i] ELSE c[i + 1]
  <2> HIDE DEF c, S, k
  <2> QED BY <1>1, <1>2, TakeOut
<1>4. children' = [children EXCEPT ![dir] = c2]
  BY DEF Unlinks, Unlinked
<1> HIDE DEF c2
<1>5. /\ children' \in [S -> Seq(S)] /\ children'[dir] = c2
      /\ \A d \in S : d # dir => children'[d] = children[d]
  <2> HIDE DEF S, c, k
  <2> QED BY <1>1, <1>3, <1>4
<1> HIDE DEF k
<1> QED BY <1>2, <1>3, <1>5

(* fs_unlink keeps the tree sound and names unique.                        *)
LEMMA UnlinkedTree ==
  ASSUME VfsInv, NEW dir \in Known, NEW name, lookup(dir, name) # None,
         Unlinks(dir, name), nodes' = nodes
  PROVE  /\ children' \in [1 .. MaxNodes -> Seq(1 .. MaxNodes)]
         /\ TreeInv' /\ NamesUnique'
<1> DEFINE S == 1 .. MaxNodes
           c == children[dir]
           c2 == children'[dir]
<1>1. /\ Len(nodes) \in 4 .. MaxNodes /\ MaxNodes \in Nat /\ Len(nodes) \in Nat
      /\ \A d \in S : Len(children[d]) \in Nat
      /\ dir \in S
      /\ \A d \in S : \A i \in 1 .. Len(children[d]) : children[d][i] \in Known
      /\ \A d \in S : d > Len(nodes) => children[d] = <<>>
  BY NodesTyped, VfsAssumption DEF VfsInv, TypeOK, TreeInv, Known
<1>2. PICK k \in 1 .. Len(c) :
        \A i \in 1 .. Len(c) - 1 : c2[i] = IF i < k THEN c[i] ELSE c[i + 1]
  BY UnlinkedShape
<1>3. Len(c2) = Len(c) - 1 /\ Len(c) \in Nat
  BY <1>1, UnlinkedShape
<1>5. /\ children' \in [S -> Seq(S)] /\ children'[dir] = c2
      /\ \A d \in S : d # dir => children'[d] = children[d]
  BY UnlinkedShape
<1> HIDE DEF c2
<1> DEFINE old(i) == IF i < k THEN i ELSE i + 1
<1>6. /\ \A i \in 1 .. Len(c2) : old(i) \in 1 .. Len(c) /\ c2[i] = c[old(i)]
      /\ \A i, j \in 1 .. Len(c2) : old(i) = old(j) => i = j
  <2> HIDE DEF c
  <2>1. ASSUME NEW i \in 1 .. Len(c2) PROVE old(i) \in 1 .. Len(c) /\ c2[i] = c[old(i)]
    BY <1>2, <1>3
  <2>2. ASSUME NEW i \in 1 .. Len(c2), NEW j \in 1 .. Len(c2), old(i) = old(j) PROVE i = j
    BY <1>2, <1>3, <2>2
  <2> QED BY <2>1, <2>2
<1> HIDE DEF old
<1>7. TreeInv'
  <2>1. ASSUME NEW d \in S, NEW i \in 1 .. Len(children'[d]) PROVE children'[d][i] \in Known
    <3>1. CASE d = dir
      BY <1>1, <1>5, <1>6, <2>1, <3>1
    <3>2. CASE d # dir
      BY <1>1, <1>5, <2>1, <3>2
    <3> QED BY <3>1, <3>2
  <2>2. ASSUME NEW d \in S, d > Len(nodes) PROVE children'[d] = <<>>
    <3>1. d # dir
      BY <1>1, <2>2 DEF Known
    <3> QED BY <1>1, <1>5, <2>2, <3>1
  <2> QED BY <1>1, <2>1, <2>2 DEF TreeInv, Known
<1>8. NamesUnique'
  <2>1. SUFFICES ASSUME NEW d \in 1 .. Len(nodes), nodes[d].type = "FS_DIR",
                        NEW i \in 1 .. Len(children'[d]), NEW j \in 1 .. Len(children'[d]),
                        nodes[children'[d][i]].name = nodes[children'[d][j]].name
                 PROVE  i = j
    BY DEF NamesUnique
  <2>2. \A m, l \in 1 .. Len(children[d]) :
            nodes[children[d][m]].name = nodes[children[d][l]].name => m = l
    BY <2>1 DEF VfsInv, NamesUnique
  <2>3. d \in S
    BY <1>1
  <2>4. CASE d # dir
    BY <1>5, <2>1, <2>2, <2>3, <2>4
  <2>5. CASE d = dir
    <3>1. i \in 1 .. Len(c2) /\ j \in 1 .. Len(c2)
      BY <1>5, <2>1, <2>5
    <3>2. nodes[c[old(i)]].name = nodes[c[old(j)]].name
      BY <1>5, <1>6, <2>1, <2>5, <3>1
    <3>3. old(i) = old(j)
      BY <1>6, <2>2, <2>5, <3>1, <3>2
    <3> QED BY <1>6, <3>1, <3>3
  <2> QED BY <2>4, <2>5
<1> QED BY <1>5, <1>7, <1>8

-----------------------------------------------------------------------------
(* The record and descriptor part of an action keeps OpenInv.              *)
OpenTyped == /\ handle \in BOOLEAN /\ present \in BOOLEAN /\ shared \in BOOLEAN
             /\ node \in [FileIds -> 0 .. MaxNodes]
             /\ fds \in [Fds -> FileIds \cup {None}]

(* fs_alloc_fd returns a descriptor nobody has.                            *)
LEMMA FreeDescriptor ==
  ASSUME fs_alloc_fd # None
  PROVE  fs_alloc_fd \in Fds /\ fds[fs_alloc_fd] = None
<1>1. FreeFd \in SUBSET Nat /\ FreeFd # {} /\ fs_alloc_fd = Lowest(FreeFd)
  BY VfsAssumption DEF fs_alloc_fd, FreeFd, Fds
<1>2. Lowest(FreeFd) \in FreeFd
  <2>1. \E d \in FreeFd : \A e \in FreeFd : d <= e
    BY <1>1, MinExists
  <2> QED BY <2>1 DEF Lowest
<1> QED BY <1>1, <1>2 DEF FreeFd

(* An open, granted or refused half way, keeps records and descriptors one *)
(* to one.                                                                 *)
LEMMA OpenedSound ==
  ASSUME OpenTyped, OpenInv, HandleKept, NEW n \in 1 .. MaxNodes, Opened(n), UNCHANGED present
  PROVE  OpenTyped' /\ OpenInv' /\ HandleKept'
<1>0. n # None /\ handle' = HandleAfterOpen(n) /\ handle' \in BOOLEAN /\ n \in 0 .. MaxNodes
  BY VfsAssumption DEF Opened, HandleAfterOpen, OpenTyped, None
<1>1. CASE OpenRefused(n) \/ fs_alloc_fd = None
  <2>1. UNCHANGED <<node, fds, shared>>
    BY <1>1 DEF Opened
  <2>2. OpenTyped' /\ OpenInv'
    BY <1>0, <2>1 DEF OpenTyped, OpenInv, Openers
  <2>3. HandleKept'
    BY <1>0, <2>1 DEF HandleKept, Openers, HandleAfterOpen
  <2> QED BY <2>2, <2>3
<1>2. CASE ~ (OpenRefused(n) \/ fs_alloc_fd = None)
  <2> DEFINE d == fs_alloc_fd
  <2>1. PICK f \in FileIds :
          /\ node[f] = None
          /\ node' = [node EXCEPT ![f] = n]
          /\ fds' = [fds EXCEPT ![d] = f]
          /\ shared' = IF n = DevNode THEN shared \/ Openers(n) # {} ELSE shared
    BY <1>2 DEF Opened
  <2>2. d \in Fds /\ fds[d] = None
    BY <1>2, FreeDescriptor
  <2>3. f # None /\ \A e \in Fds : fds[e] # f
    BY <2>1, VfsAssumption DEF OpenInv, None
  <2> HIDE DEF d
  <2>4. OpenTyped'
    BY <1>0, <2>1, <2>2 DEF OpenTyped
  <2>5. /\ \A g \in FileIds : node'[g] = IF g = f THEN n ELSE node[g]
        /\ \A e \in Fds : fds'[e] = IF e = d THEN f ELSE fds[e]
    BY <2>1, <2>2 DEF OpenTyped
  <2>6. \A g \in FileIds : node'[g] # None <=> \E e \in Fds : fds'[e] = g
    <3>1. ASSUME NEW g \in FileIds, g # f
          PROVE  (\E e \in Fds : fds'[e] = g) <=> (\E e \in Fds : fds[e] = g)
      <4>1. g # None
        BY VfsAssumption DEF None
      <4> QED BY <2>2, <2>5, <3>1, <4>1
    <3>2. \A g \in FileIds : node[g] # None <=> \E e \in Fds : fds[e] = g
      BY DEF OpenInv
    <3> QED BY <1>0, <2>2, <2>5, <3>1, <3>2
  <2>7. \A e, g \in Fds : fds'[e] = fds'[g] /\ fds'[e] # None => e = g
    BY <2>2, <2>3, <2>5 DEF OpenInv
  <2>8. Openers(DevNode)' = IF n = DevNode THEN Openers(DevNode) \cup {f} ELSE Openers(DevNode)
    <3>1. DevNode # None
      BY DEF DevNode, None
    <3> QED BY <2>1, <2>5, <3>1 DEF Openers
  <2>9. ~ shared' => \A g, h \in Openers(DevNode)' : g = h
    BY <2>1, <2>8, ZenonT(60) DEF OpenInv, OpenTyped
  <2>10. HandleKept'
    <3>1. CASE n = DevNode
      BY <1>0, <3>1 DEF HandleKept, HandleAfterOpen
    <3>2. CASE n # DevNode
      BY <1>0, <2>1, <2>8, <3>2 DEF HandleKept, HandleAfterOpen
    <3> QED BY <3>1, <3>2
  <2> QED BY <2>4, <2>6, <2>7, <2>9, <2>10 DEF OpenInv
<1> QED BY <1>1, <1>2

(* fs_close gives up the record, the descriptor and the handle together.   *)
LEMMA ClosedSound ==
  ASSUME OpenTyped, OpenInv, HandleKept, NEW fd \in Fds, fs_close(fd)
  PROVE  OpenTyped' /\ OpenInv' /\ HandleKept'
<1> DEFINE f == fds[fd]
<1>1. f \in FileIds /\ f # None /\ node[f] # None
  BY DEF fs_close, OpenTyped, OpenInv
<1>2. /\ \A g \in FileIds : node'[g] = IF g = f THEN None ELSE node[g]
      /\ \A e \in Fds : fds'[e] = IF e = fd THEN None ELSE fds[e]
      /\ handle' = IF node[f] = DevNode THEN FALSE ELSE handle
      /\ shared' = IF Openers(DevNode) \subseteq {f} THEN FALSE ELSE shared
      /\ present' = present
  BY <1>1 DEF fs_close, ClosedRecords, OpenTyped
<1>3. OpenTyped'
  <2>1. node' = [g \in FileIds |-> IF g = f THEN None ELSE node[g]]
    BY DEF fs_close, ClosedRecords
  <2>2. None \in 0 .. MaxNodes
    BY VfsAssumption DEF None
  <2> QED BY <1>1, <2>1, <2>2 DEF fs_close, OpenTyped
<1> HIDE DEF f
<1>4. \A g \in FileIds : node'[g] # None <=> \E e \in Fds : fds'[e] = g
  <2>1. \A e \in Fds : fds[e] = f <=> e = fd
    BY <1>1 DEF OpenInv, f
  <2>2. ASSUME NEW g \in FileIds, g # f
        PROVE  (\E e \in Fds : fds'[e] = g) <=> (\E e \in Fds : fds[e] = g)
    <3>1. g # None /\ fds[fd] = f
      BY VfsAssumption DEF None, f
    <3> QED BY <1>2, <2>2, <3>1
  <2>3. \A g \in FileIds : node[g] # None <=> \E e \in Fds : fds[e] = g
    BY DEF OpenInv
  <2> QED BY <1>1, <1>2, <2>1, <2>2, <2>3
<1>5. \A e, g \in Fds : fds'[e] = fds'[g] /\ fds'[e] # None => e = g
  BY <1>2 DEF OpenInv
<1>6. Openers(DevNode)' = Openers(DevNode) \ {f}
  <2>1. DevNode # None
    BY DEF DevNode, None
  <2> QED BY <1>2, <2>1 DEF Openers
<1>7. ~ shared' => \A g, h \in Openers(DevNode)' : g = h
  BY <1>2, <1>6 DEF OpenInv
<1>8. HandleKept'
  <2>1. SUFFICES ASSUME present, ~ shared', Openers(DevNode)' # {}
                 PROVE  handle'
    BY <1>2 DEF HandleKept
  <2>2. ~ (Openers(DevNode) \subseteq {f}) /\ ~ shared /\ Openers(DevNode) # {}
    BY <1>2, <1>6, <2>1
  <2>3. node[f] # DevNode
    BY <1>1, <2>2 DEF OpenInv, Openers
  <2> QED BY <1>2, <2>1, <2>2, <2>3 DEF HandleKept
<1> QED BY <1>3, <1>4, <1>5, <1>7, <1>8 DEF OpenInv

(* The tree and the mounts at boot satisfy the invariant.                  *)
LEMMA InitVfsInv == Init => VfsInv
<1> SUFFICES ASSUME Init PROVE VfsInv
  OBVIOUS
<1>1. /\ nodes \in Seq(NodeRecords) /\ Len(nodes) = 4
      /\ nodes[1].name = "/" /\ nodes[2].name = "dev" /\ nodes[3].name = "dev"
      /\ nodes[4].type = "FS_DEV"
  BY VfsAssumption DEF Init, NodeRecords
<1>2. MaxNodes \in Nat /\ MaxNodes >= 4
  BY VfsAssumption
<1>3. /\ \A n \in 1 .. MaxNodes : children[n] \in Seq(1 .. MaxNodes)
      /\ children[1] = <<2>> /\ children[3] = <<4>>
      /\ \A n \in 1 .. MaxNodes : n # 1 /\ n # 3 => children[n] = <<>>
  <2>1. children = [n \in 1 .. MaxNodes |-> IF n = 1 THEN <<2>> ELSE IF n = 3 THEN <<4>> ELSE <<>>]
    BY DEF Init, Root, DevRoot, DevDir, DevNode
  <2>2. 1 \in 1 .. MaxNodes /\ 2 \in 1 .. MaxNodes /\ 3 \in 1 .. MaxNodes /\ 4 \in 1 .. MaxNodes
    BY <1>2
  <2> DEFINE S == 1 .. MaxNodes
  <2> HIDE DEF S
  <2>3. <<2>> \in Seq(S) /\ <<4>> \in Seq(S) /\ <<>> \in Seq(S)
    BY <2>2 DEF S
  <2>4. \A n \in S : children[n] = IF n = 1 THEN <<2>> ELSE IF n = 3 THEN <<4>> ELSE <<>>
    BY <2>1 DEF S
  <2> QED BY <2>2, <2>3, <2>4 DEF S
<1>4. children \in [1 .. MaxNodes -> Seq(1 .. MaxNodes)]
  <2>1. children = [n \in 1 .. MaxNodes |-> children[n]]
    BY DEF Init
  <2> DEFINE S == 1 .. MaxNodes
  <2>2. \A n \in S : children[n] \in Seq(S)
    BY <1>3
  <2>3. children = [n \in S |-> children[n]]
    BY <2>1
  <2> HIDE DEF S
  <2>4. children \in [S -> Seq(S)]
    BY <2>2, <2>3
  <2> QED BY <2>4 DEF S
<1>5. OpenTyped
  <2>1. node \in [FileIds -> 0 .. MaxNodes]
    <3>1. 0 \in 0 .. MaxNodes
      BY <1>2
    <3> QED BY <3>1 DEF Init, None
  <2>2. fds \in [Fds -> FileIds \cup {None}]
    BY DEF Init
  <2>3. handle \in BOOLEAN /\ present \in BOOLEAN /\ shared \in BOOLEAN
    BY DEF Init
  <2> QED BY <2>1, <2>2, <2>3 DEF OpenTyped
<1>6. TypeOK
  <2> HIDE DEF NodeRecords
  <2>1. Len(nodes) <= MaxNodes
    BY <1>1, <1>2
  <2>2. nodes \in Seq([name : Names \cup {"/"}, type : {"FS_DIR", "FS_FILE", "FS_DEV"},
                       fs : {"tmpfs", "devfs"}])
    BY <1>1 DEF NodeRecords
  <2> QED BY <1>4, <1>5, <2>1, <2>2 DEF TypeOK, OpenTyped
<1>7. \A d \in 1 .. MaxNodes : \/ Len(children[d]) = 0 /\ children[d] = <<>>
                               \/ Len(children[d]) = 1 /\ children[d][1] \in 1 .. 4 /\ d \in {1, 3}
  <2> SUFFICES ASSUME NEW d \in 1 .. MaxNodes
               PROVE  \/ Len(children[d]) = 0 /\ children[d] = <<>>
                      \/ Len(children[d]) = 1 /\ children[d][1] \in 1 .. 4 /\ d \in {1, 3}
    OBVIOUS
  <2>0. /\ Len(children[1]) = 1 /\ children[1][1] = 2
        /\ Len(children[3]) = 1 /\ children[3][1] = 4
    <3> HIDE DEF Init
    <3>1. \A x : Len(<<x>>) = 1 /\ <<x>>[1] = x
      OBVIOUS
    <3> QED BY <1>3, <3>1
  <2> HIDE DEF Init
  <2>1. CASE d = 1
    BY <2>0, <2>1
  <2>2. CASE d = 3
    BY <2>0, <2>2
  <2>3. CASE d # 1 /\ d # 3
    BY <1>3, <2>3
  <2> QED BY <2>1, <2>2, <2>3
<1>8. TreeInv
  <2>1. ASSUME NEW d \in 1 .. MaxNodes, NEW i \in 1 .. Len(children[d])
        PROVE  children[d][i] \in 1 .. 4
    BY <1>2, <1>7
  <2>2. ASSUME NEW d \in 1 .. MaxNodes, d > 4
        PROVE  children[d] = <<>>
    BY <1>2, <1>7, <2>2
  <2>3. Len(nodes) \in 4 .. MaxNodes
    BY <1>1, <1>2
  <2> HIDE DEF Init
  <2> QED BY <1>1, <2>1, <2>2, <2>3 DEF TreeInv, Known
<1>9. NamesUnique
  <2>1. ASSUME NEW d \in 1 .. Len(nodes), NEW i \in 1 .. Len(children[d]),
               NEW j \in 1 .. Len(children[d])
        PROVE  i = j
    <3>1. Len(children[d]) \in {0, 1}
      BY <1>1, <1>2, <1>7
    <3>2. i \in 1 .. 1 /\ j \in 1 .. 1
      <4> DEFINE l == Len(children[d])
      <4>1. i \in 1 .. l /\ j \in 1 .. l /\ l \in {0, 1}
        BY <2>1, <3>1
      <4> HIDE DEF l
      <4> QED BY <4>1
    <3> QED BY <3>2
  <2> QED BY <2>1 DEF NamesUnique
<1>10. OpenInv /\ HandleKept
  BY VfsAssumption DEF Init, OpenInv, HandleKept, Openers, DevNode, None
<1> QED BY <1>6, <1>8, <1>9, <1>10 DEF VfsInv

(* Every operation keeps the invariant.                                    *)
LEMMA NextVfsInv == VfsInv /\ [Next]_vars => VfsInv'
<1> SUFFICES ASSUME VfsInv, [Next]_vars PROVE VfsInv'
  OBVIOUS
<1> DEFINE TreeTyped == nodes \in Seq(NodeRecords) /\ children \in [1 .. MaxNodes -> Seq(1 .. MaxNodes)]
           Tree == TreeTyped /\ TreeInv /\ NamesUnique
           Open == OpenTyped /\ OpenInv /\ HandleKept
<1>1. Tree /\ Open
  BY DEF VfsInv, TypeOK, OpenTyped, NodeRecords
<1>2. Tree' /\ Open' => VfsInv'
  BY DEF VfsInv, TypeOK, OpenTyped, NodeRecords, TreeInv
<1>3. UNCHANGED <<nodes, children>> => Tree'
  BY <1>1 DEF TreeInv, NamesUnique, Known
<1>4. UNCHANGED <<handle, present, node, fds, shared>> => Open'
  BY <1>1 DEF OpenTyped, OpenInv, HandleKept, Openers
<1>5. Len(nodes) \in 4 .. MaxNodes /\ MaxNodes \in Nat /\ Len(nodes) \in Nat
  BY NodesTyped, VfsAssumption DEF VfsInv, TreeInv
<1> HIDE DEF Tree, Open
<1>6. ASSUME NEW path \in Paths, fs_mkdir(path) PROVE VfsInv'
  <2>1. Parent(path) \in Known /\ Last(path) \in Names
    BY <1>6, ParentIsKnown, PathsAreSequences DEF fs_mkdir
  <2>2. Tree'
    BY <1>6, <2>1, AddedTree DEF fs_mkdir, Tree
  <2> QED BY <1>2, <1>4, <1>6, <2>2 DEF fs_mkdir
<1>7. ASSUME NEW path \in Paths, fs_unlink(path) PROVE VfsInv'
  <2>1. Parent(path) \in Known
    BY <1>7, ParentIsKnown DEF fs_unlink
  <2>2. nodes' = nodes /\ TreeTyped
    BY <1>1, <1>7 DEF fs_unlink, Tree
  <2>3. Tree'
    BY <1>7, <2>1, <2>2, UnlinkedTree DEF fs_unlink, Unlinks, Tree
  <2> QED BY <1>2, <1>4, <1>7, <2>3 DEF fs_unlink
<1>8. ASSUME NEW path \in Paths, fs_open(path) PROVE VfsInv'
  <2>1. fs_resolve(path) \in 1 .. MaxNodes
    <3>1. fs_resolve(path) \in 0 .. Len(nodes) /\ fs_resolve(path) # None
      BY <1>8, PathsAreSequences, ResolveStays DEF fs_open, VfsInv
    <3> QED BY <1>5, <3>1 DEF None
  <2>2. Opened(fs_resolve(path)) /\ UNCHANGED present
    BY <1>8 DEF fs_open
  <2>3. Open'
    BY <1>1, <2>1, <2>2, OpenedSound DEF Open
  <2> QED BY <1>2, <1>3, <1>8, <2>3 DEF fs_open
<1>9. ASSUME NEW path \in Paths, fs_open_create(path) PROVE VfsInv'
  <2>1. Parent(path) \in Known /\ Last(path) \in Names
    BY <1>9, ParentIsKnown, PathsAreSequences DEF fs_open_create
  <2>2. Tree'
    BY <1>9, <2>1, AddedTree DEF fs_open_create, Tree
  <2>3. Len(nodes) + 1 \in 1 .. MaxNodes /\ UNCHANGED present
    BY <1>5, <1>9 DEF fs_open_create
  <2>4. CASE Opened(Len(nodes) + 1)
    BY <1>1, <1>2, <2>2, <2>3, <2>4, OpenedSound DEF Open
  <2>5. CASE UNCHANGED <<handle, node, fds, shared>>
    BY <1>2, <1>4, <2>2, <2>3, <2>5
  <2> QED BY <1>9, <2>4, <2>5 DEF fs_open_create
<1>10. ASSUME NEW fd \in Fds, fs_close(fd) PROVE VfsInv'
  <2>1. Open'
    BY <1>1, <1>10, ClosedSound DEF Open
  <2> QED BY <1>2, <1>3, <1>10, <2>1 DEF fs_close
<1>11. ASSUME device_gone PROVE VfsInv'
  <2>1. Open'
    BY <1>1, <1>11 DEF Open, device_gone, OpenTyped, OpenInv, HandleKept, Openers
  <2> QED BY <1>2, <1>3, <1>11, <2>1 DEF device_gone
<1>12. CASE UNCHANGED vars
  BY <1>2, <1>3, <1>4, <1>12 DEF vars
<1> QED BY <1>6, <1>7, <1>8, <1>9, <1>10, <1>11, <1>12 DEF Next

(* The correspondence of OpenInv counts one descriptor per record in use.  *)
LEMMA FilesAreOwned == OpenInv => FilesOwned
<1> SUFFICES ASSUME OpenInv, NEW f \in FileIds
             PROVE  Cardinality({d \in Fds : fds[d] = f}) = IF node[f] = None THEN 0 ELSE 1
  BY DEF FilesOwned
<1> DEFINE D == {d \in Fds : fds[d] = f}
<1>1. CASE node[f] = None
  <2>1. D = {}
    BY <1>1 DEF OpenInv
  <2> QED BY <1>1, <2>1, FS_EmptySet
<1>2. CASE node[f] # None
  <2>1. PICK d \in Fds : fds[d] = f
    BY <1>2 DEF OpenInv
  <2>2. f # None
    BY VfsAssumption DEF None
  <2>3. D = {d}
    BY <2>1, <2>2 DEF OpenInv
  <2> QED BY <1>2, <2>3, FS_Singleton
<1> QED BY <1>1, <1>2

(* Types, the shape of the tree, and records and descriptors one to one.    *)
THEOREM VfsInvariant == Spec => []VfsInv
<1> QED BY InitVfsInv, NextVfsInv, PTL DEF Spec

(* The tree, the records and the driver's handle stay sound through any      *)
(* sequence of opens, failing opens, closes, creations and removals          *)
(* (fs_open, fs_close, fs_mkdir, fs_unlink of commands.c, and vfs.c).         *)
THEOREM VfsRecordsSound == Spec => []RecordsSound
<1>1. VfsInv => RecordsSound
  BY FilesAreOwned DEF VfsInv, RecordsSound
<1> QED BY <1>1, VfsInvariant, PTL

-----------------------------------------------------------------------------
(* Names are the edges of a forest: n is the child of d that is called so. *)
Edge(d, name, n) ==
  /\ d \in Known /\ n \in Known
  /\ nodes[d].type = "FS_DIR" /\ nodes[n].name = name
  /\ \E i \in 1 .. Len(children[d]) : children[d][i] = n

(* The roots of the two mounts are nobody's child, other nodes of one      *)
(* directory at most.                                                      *)
OneParent ==
  /\ \A d \in 1 .. MaxNodes : \A i \in 1 .. Len(children[d]) : children[d][i] \notin {Root, DevRoot}
  /\ \A d, e \in 1 .. MaxNodes : \A i \in 1 .. Len(children[d]), j \in 1 .. Len(children[e]) :
       children[d][i] = children[e][j] => d = e /\ i = j

(* The inductive invariant of the refinement.                              *)
TreeNamed == VfsInv /\ OneParent

(* lookup follows an edge, and follows every edge.                         *)
LEMMA LookupFollows ==
  TreeNamed => \A d \in Known : \A name : \A n \in Known : lookup(d, name) = n <=> Edge(d, name, n)
<1> SUFFICES ASSUME TreeNamed, NEW d \in Known, NEW name, NEW n \in Known
             PROVE  lookup(d, name) = n <=> Edge(d, name, n)
  OBVIOUS
<1>1. /\ d \in 1 .. MaxNodes /\ Len(children[d]) \in Nat /\ Len(nodes) \in Nat
      /\ \A i \in 1 .. Len(children[d]) : children[d][i] \in Known
      /\ n # None /\ d # None
  <2>1. Len(nodes) \in Nat /\ d \in 1 .. MaxNodes
    BY NodesTyped, VfsAssumption DEF TreeNamed, VfsInv, TreeInv, Known
  <2> QED BY <2>1, NodesTyped DEF TreeNamed, VfsInv, TreeInv, Known, None
<1>2. CASE \/ nodes[d].type # "FS_DIR"
           \/ \A i \in 1 .. Len(children[d]) : ~ HasName(d, i, name)
  <2>1. lookup(d, name) = None
    BY <1>2 DEF lookup
  <2>2. ~ Edge(d, name, n)
    BY <1>2 DEF Edge, HasName
  <2> QED BY <1>1, <2>1, <2>2
<1>3. CASE /\ nodes[d].type = "FS_DIR"
           /\ ~ \A i \in 1 .. Len(children[d]) : ~ HasName(d, i, name)
  <2>1. Place(d, name) \in 1 .. Len(children[d]) /\ HasName(d, Place(d, name), name)
    BY <1>1, <1>3, PlaceIsFirst
  <2>2. lookup(d, name) = children[d][Place(d, name)]
    BY <1>1, <1>3 DEF lookup
  <2>3. \A i \in 1 .. Len(children[d]) : HasName(d, i, name) => i = Place(d, name)
    BY <1>3, <2>1 DEF TreeNamed, VfsInv, NamesUnique, HasName, Known
  <2> QED BY <1>3, <2>1, <2>2, <2>3 DEF Edge, HasName
<1> QED BY <1>2, <1>3

(* What the resolution of a path rests on: edges form a forest.            *)
Forest ==
  /\ \A d, e, a, b, n : Edge(d, a, n) /\ Edge(e, b, n) => d = e /\ a = b
  /\ \A d, a, n, m : Edge(d, a, n) /\ Edge(d, a, m) => n = m
  /\ \A d, a, n : Edge(d, a, n) => n \notin {None, Root, DevRoot} /\ d # None

(* Every node has one directory and one name, every name one node.         *)
LEMMA TreeIsForest == TreeNamed => Forest
<1> SUFFICES ASSUME TreeNamed PROVE Forest
  OBVIOUS
<1>1. Known \subseteq 1 .. MaxNodes /\ None \notin Known
  BY NodesTyped, VfsAssumption DEF TreeNamed, VfsInv, TreeInv, Known, None
<1>2. ASSUME NEW d, NEW e, NEW a, NEW b, NEW n, Edge(d, a, n), Edge(e, b, n)
      PROVE  d = e /\ a = b
  <2>1. /\ d \in Known /\ e \in Known /\ d \in 1 .. MaxNodes /\ e \in 1 .. MaxNodes
        /\ nodes[n].name = a /\ nodes[n].name = b
    BY <1>1, <1>2 DEF Edge
  <2>2. PICK i \in 1 .. Len(children[d]) : children[d][i] = n
    BY <1>2 DEF Edge
  <2>3. PICK j \in 1 .. Len(children[e]) : children[e][j] = n
    BY <1>2 DEF Edge
  <2>4. d = e
    BY <2>1, <2>2, <2>3 DEF TreeNamed, OneParent
  <2> QED BY <2>1, <2>4
<1>3. ASSUME NEW d, NEW a, NEW n, NEW m, Edge(d, a, n), Edge(d, a, m)
      PROVE  n = m
  BY <1>3, LookupFollows DEF Edge
<1>4. ASSUME NEW d, NEW a, NEW n, Edge(d, a, n)
      PROVE  n \notin {None, Root, DevRoot} /\ d # None
  BY <1>1, <1>4 DEF Edge, TreeNamed, OneParent
<1> QED BY <1>2, <1>3, <1>4 DEF Forest

-----------------------------------------------------------------------------
(* A path, the one it is below, and its last name.                         *)
LEMMA PlainPaths ==
  \A p \in Plain :
    /\ p \in Seq(Names) /\ Len(p) \in Nat /\ Len(p) >= 1
    /\ Len(p) > 1 => /\ Front(p) \in Plain /\ Len(Front(p)) = Len(p) - 1
                     /\ \A i \in 1 .. Len(p) - 1 : Front(p)[i] = p[i]
<1> SUFFICES ASSUME NEW p \in Plain
             PROVE  /\ p \in Seq(Names) /\ Len(p) \in Nat /\ Len(p) >= 1
                    /\ Len(p) > 1 => /\ Front(p) \in Plain /\ Len(Front(p)) = Len(p) - 1
                                     /\ \A i \in 1 .. Len(p) - 1 : Front(p)[i] = p[i]
  OBVIOUS
<1>1. PICK k \in 1 .. Depth : p \in [1 .. k -> Names]
  BY DEF Plain, Paths
<1>2. k \in Nat /\ k >= 1 /\ p \in Seq(Names) /\ Len(p) = k /\ p[1] \notin DOMAIN Suffix
  BY <1>1, VfsAssumption DEF Plain
<1>3. ASSUME Len(p) > 1
      PROVE  /\ Front(p) \in Plain /\ Len(Front(p)) = Len(p) - 1
             /\ \A i \in 1 .. Len(p) - 1 : Front(p)[i] = p[i]
  <2>1. Front(p) = [i \in 1 .. k - 1 |-> p[i]]
    BY <1>2, <1>3 DEF Front
  <2>2. k - 1 \in 1 .. Depth /\ Front(p) \in [1 .. k - 1 -> Names] /\ Front(p)[1] = p[1]
    BY <1>1, <1>2, <1>3, <2>1, VfsAssumption
  <2>3. Front(p) \in Plain
    BY <1>2, <2>2 DEF Plain, Paths
  <2>4. Len(Front(p)) = k - 1
    BY <1>2, <1>3, <2>1
  <2> QED BY <1>2, <2>1, <2>3, <2>4
<1> QED BY <1>2, <1>3

(* Paths are equal if they agree on the last name and on what is before    *)
(* it.                                                                     *)
LEMMA PathEquality ==
  \A p, q \in Plain :
    /\ Len(p) = 1 /\ Len(q) = 1 /\ p[1] = q[1] => p = q
    /\ Len(p) > 1 /\ Len(q) > 1 /\ Front(p) = Front(q) /\ Last(p) = Last(q) => p = q
<1> SUFFICES ASSUME NEW p \in Plain, NEW q \in Plain
             PROVE  /\ Len(p) = 1 /\ Len(q) = 1 /\ p[1] = q[1] => p = q
                    /\ Len(p) > 1 /\ Len(q) > 1 /\ Front(p) = Front(q) /\ Last(p) = Last(q) => p = q
  OBVIOUS
<1>1. p \in Seq(Names) /\ q \in Seq(Names) /\ Len(p) \in Nat /\ Len(q) \in Nat
  BY PlainPaths
<1>2. ASSUME Len(p) = Len(q), \A i \in 1 .. Len(p) : p[i] = q[i] PROVE p = q
  BY <1>1, <1>2
<1>3. ASSUME Len(p) > 1, Len(q) > 1, Front(p) = Front(q), Last(p) = Last(q) PROVE p = q
  <2>1. Len(p) = Len(q)
    BY <1>1, <1>3, PlainPaths
  <2>2. ASSUME NEW i \in 1 .. Len(p) PROVE p[i] = q[i]
    <3>1. i = Len(p) \/ i \in 1 .. Len(p) - 1
      BY <1>1
    <3> QED BY <1>3, <2>1, <3>1, PlainPaths, SMTT(60) DEF Last
  <2> QED BY <1>2, <2>1, <2>2
<1> QED BY <1>1, <1>2, <1>3

(* What holds of the paths of one name, and of a path when it holds of the *)
(* one before, holds of all.                                               *)
LEMMA PathInduction ==
  ASSUME NEW S, \A p \in Plain : Len(p) = 1 => p \in S,
         \A p \in Plain : Len(p) > 1 /\ Front(p) \in S => p \in S
  PROVE  Plain \subseteq S
<1> DEFINE Bad == {k \in Nat : \E p \in Plain : p \notin S /\ Len(p) = k}
<1> SUFFICES ASSUME NEW q \in Plain, q \notin S PROVE FALSE
  OBVIOUS
<1>1. Bad \in SUBSET Nat /\ Bad # {}
  BY PlainPaths
<1>2. PICK k \in Bad : \A m \in Bad : k <= m
  <2> HIDE DEF Bad
  <2> QED BY <1>1, MinExists
<1>3. PICK p \in Plain : p \notin S /\ Len(p) = k /\ k \in Nat
  OBVIOUS
<1>4. Len(p) > 1 /\ Front(p) \in Plain /\ Len(Front(p)) = k - 1 /\ k - 1 \in Nat /\ ~ (k <= k - 1)
  <2>1. Len(p) # 1 /\ Len(p) \in Nat /\ Len(p) >= 1
    BY <1>3, PlainPaths
  <2>2. Len(p) > 1
    <3>1. \A l \in Nat : l >= 1 /\ l # 1 => l > 1
      OBVIOUS
    <3> QED BY <2>1, <3>1
  <2>3. Front(p) \in Plain /\ Len(Front(p)) = Len(p) - 1
    BY <2>2, PlainPaths
  <2> QED BY <1>3, <2>1, <2>2, <2>3
<1>5. k - 1 \notin Bad
  <2> HIDE DEF Bad
  <2> QED BY <1>2, <1>4
<1>6. Front(p) \in S
  BY <1>4, <1>5
<1> QED BY <1>3, <1>4, <1>6

(* p is a prefix of q: of what.                                            *)
LEMMA PathPrefix ==
  \A p, q \in Plain : IsPrefix(p, q) <=> Len(p) <= Len(q) /\ \A i \in 1 .. Len(p) : p[i] = q[i]
<1> SUFFICES ASSUME NEW p \in Plain, NEW q \in Plain, Len(p) <= Len(q)
             PROVE  SubSeq(p, 1, Len(p)) = SubSeq(q, 1, Len(p)) <=> \A i \in 1 .. Len(p) : p[i] = q[i]
  BY DEF IsPrefix
<1>1. p \in Seq(Names) /\ q \in Seq(Names) /\ Len(p) \in Nat /\ Len(q) \in Nat
  BY PlainPaths
<1> DEFINE a == SubSeq(p, 1, Len(p))
           b == SubSeq(q, 1, Len(p))
<1>2. a = [i \in 1 .. Len(p) |-> p[i]] /\ b = [i \in 1 .. Len(p) |-> q[i]]
  BY <1>1
<1> HIDE DEF a, b
<1>3. (\A i \in 1 .. Len(p) : p[i] = q[i]) => a = b
  BY <1>2
<1>4. a = b => \A i \in 1 .. Len(p) : p[i] = q[i]
  BY <1>2
<1> QED BY <1>3, <1>4 DEF a, b

(* A prefix of a path is the path or a prefix of its parent.               *)
LEMMA PrefixOfFront ==
  \A p, q \in Plain :
    /\ Len(q) = 1 /\ IsPrefix(p, q) => p = q
    /\ Len(q) > 1 => (IsPrefix(p, q) <=> p = q \/ IsPrefix(p, Front(q)))
    /\ IsPrefix(p, p)
<1> SUFFICES ASSUME NEW p \in Plain, NEW q \in Plain
             PROVE  /\ Len(q) = 1 /\ IsPrefix(p, q) => p = q
                    /\ Len(q) > 1 => (IsPrefix(p, q) <=> p = q \/ IsPrefix(p, Front(q)))
                    /\ IsPrefix(p, p)
  OBVIOUS
<1>1. p \in Seq(Names) /\ q \in Seq(Names) /\ Len(p) \in Nat /\ Len(q) \in Nat /\ Len(p) >= 1
  BY PlainPaths
<1>2. ASSUME Len(p) = Len(q), \A i \in 1 .. Len(p) : p[i] = q[i] PROVE p = q
  BY <1>1, <1>2
<1>3. IsPrefix(p, p)
  BY <1>1, PathPrefix
<1>4. ASSUME Len(q) = 1, IsPrefix(p, q) PROVE p = q
  BY <1>1, <1>2, <1>4, PathPrefix
<1>5. ASSUME Len(q) > 1 PROVE IsPrefix(p, q) <=> p = q \/ IsPrefix(p, Front(q))
  <2>1. /\ Front(q) \in Plain /\ Len(Front(q)) = Len(q) - 1
        /\ \A i \in 1 .. Len(q) - 1 : Front(q)[i] = q[i]
    BY <1>5, PlainPaths
  <2>2. IsPrefix(p, Front(q)) <=> Len(p) <= Len(q) - 1 /\ \A i \in 1 .. Len(p) : p[i] = Front(q)[i]
    BY <2>1, PathPrefix
  <2>3. IsPrefix(p, Front(q)) <=> Len(p) <= Len(q) - 1 /\ \A i \in 1 .. Len(p) : p[i] = q[i]
    BY <1>1, <2>1, <2>2
  <2>4. IsPrefix(p, q) <=> Len(p) <= Len(q) /\ \A i \in 1 .. Len(p) : p[i] = q[i]
    BY PathPrefix
  <2>5. CASE Len(p) = Len(q)
    BY <1>1, <1>2, <1>3, <2>3, <2>4, <2>5
  <2>6. CASE Len(p) # Len(q)
    BY <1>1, <2>3, <2>4, <2>6
  <2> QED BY <2>5, <2>6
<1> QED BY <1>3, <1>4, <1>5

-----------------------------------------------------------------------------
(* fs_resolve of a plain path goes along the edges, one per name, from the *)
(* root of the mount; the first name "dev" is the mount itself.            *)
Follows ==
  \A p \in Plain :
    /\ fs_resolve(p) \in Known \cup {None}
    /\ Len(p) = 1 /\ p[1] = "dev" => fs_resolve(p) = DevRoot
    /\ Len(p) = 1 /\ p[1] # "dev" =>
         \A n \in Known : fs_resolve(p) = n <=> Edge(Root, p[1], n)
    /\ Len(p) > 1 =>
         \A n \in Known : fs_resolve(p) = n <=> Edge(fs_resolve(Front(p)), Last(p), n)

(* Walking a path is walking its parent and then one name more.            *)
LEMMA WalkFront ==
  ASSUME NEW root, NEW rel, NEW k \in Nat, Len(rel) = k + 1, Len(Front(rel)) = k,
         \A i \in 1 .. k : Front(rel)[i] = rel[i]
  PROVE  /\ Walk(root, rel)[k + 1] = lookup(Walk(root, Front(rel))[k], rel[k + 1])
         /\ Walk(root, rel)[0] = root /\ Walk(root, Front(rel))[0] = root
<1> DEFINE w == Walk(root, rel)
           v == Walk(root, Front(rel))
           Bad == {i \in 0 .. k : w[i] # v[i]}
<1>1. \A i \in 0 .. k + 1 : w[i] = IF i = 0 THEN root ELSE lookup(w[i - 1], rel[i])
  <2>1. w = [i \in 0 .. k + 1 |-> IF i = 0 THEN root ELSE lookup(w[i - 1], rel[i])]
    BY WalkEquation DEF w
  <2> HIDE DEF w
  <2> QED BY <2>1
<1>2. \A i \in 0 .. k : v[i] = IF i = 0 THEN root ELSE lookup(v[i - 1], Front(rel)[i])
  <2>1. v = [i \in 0 .. k |-> IF i = 0 THEN root ELSE lookup(v[i - 1], Front(rel)[i])]
    BY WalkEquation DEF v
  <2> HIDE DEF v
  <2> QED BY <2>1
<1> HIDE DEF w, v
<1>3. Bad = {}
  <2> SUFFICES ASSUME Bad # {} PROVE FALSE
    OBVIOUS
  <2>1. PICK i \in Bad : \A m \in Bad : i <= m
    <3>1. Bad \in SUBSET Nat
      OBVIOUS
    <3> HIDE DEF Bad
    <3> QED BY <3>1, MinExists
  <2>2. i \in 0 .. k /\ w[i] # v[i]
    BY <2>1
  <2>3. i # 0
    BY <1>1, <1>2, <2>2
  <2>4. i - 1 \in 0 .. k /\ ~ (i <= i - 1) /\ i \in 1 .. k
    BY <2>2, <2>3
  <2>5. w[i - 1] = v[i - 1]
    <3>1. i - 1 \notin Bad
      <4> HIDE DEF Bad
      <4> QED BY <2>1, <2>4
    <3> QED BY <2>4, <3>1
  <2>6. w[i] = lookup(w[i - 1], rel[i])
    BY <1>1, <2>2, <2>3
  <2>7. v[i] = lookup(v[i - 1], Front(rel)[i])
    BY <1>2, <2>2, <2>3
  <2> QED BY <2>2, <2>4, <2>5, <2>6, <2>7
<1>4. w[k] = v[k]
  BY <1>3
<1>5. w[k + 1] = lookup(w[k], rel[k + 1]) /\ w[0] = root /\ v[0] = root
  <2>1. k + 1 \in 0 .. k + 1 /\ k + 1 # 0 /\ (k + 1) - 1 = k /\ 0 \in 0 .. k
    OBVIOUS
  <2> QED BY <1>1, <1>2, <2>1
<1> QED BY <1>4, <1>5 DEF w, v

(* The mount a plain path and the path before it are in is the same.       *)
LEMMA PlainMount ==
  ASSUME NEW p \in Plain
  PROVE  /\ p[1] = "dev" => find_mnt(p) = [root |-> DevRoot, rel |-> Tail(p)]
         /\ p[1] # "dev" => find_mnt(p) = [root |-> Root, rel |-> p]
<1>1. p # <<>> /\ p[1] \notin DOMAIN Suffix
  <2>1. Len(p) >= 1
    BY PlainPaths
  <2> QED BY <2>1 DEF Plain
<1>2. CASE p[1] = "dev"
  BY <1>1, <1>2, Zenon DEF find_mnt
<1>3. CASE p[1] # "dev"
  BY <1>1, <1>3, Zenon DEF find_mnt
<1> QED BY <1>2, <1>3

(* Without the tree: what fs_resolve of a plain path is.                   *)
LEMMA ResolveByStep ==
  ASSUME NEW p \in Plain
  PROVE  /\ Len(p) = 1 /\ p[1] = "dev" => fs_resolve(p) = DevRoot
         /\ Len(p) = 1 /\ p[1] # "dev" => fs_resolve(p) = lookup(Root, p[1])
         /\ Len(p) > 1 => fs_resolve(p) = lookup(fs_resolve(Front(p)), Last(p))
<1>1. /\ p \in Seq(Names) /\ Len(p) \in Nat /\ Len(p) >= 1
      /\ Len(p) > 1 => /\ Front(p) \in Plain /\ Len(Front(p)) = Len(p) - 1
                       /\ \A i \in 1 .. Len(p) - 1 : Front(p)[i] = p[i]
  BY PlainPaths
<1>2. \A root, rel : find_mnt(p) = [root |-> root, rel |-> rel] => fs_resolve(p) = Walk(root, rel)[Len(rel)]
  BY DEF fs_resolve
<1>3. CASE p[1] = "dev"
  <2>1. fs_resolve(p) = Walk(DevRoot, Tail(p))[Len(Tail(p))]
    BY <1>2, <1>3, PlainMount
  <2>2. Tail(p) \in Seq(Names) /\ Len(Tail(p)) = Len(p) - 1
        /\ \A i \in 1 .. Len(p) - 1 : Tail(p)[i] = p[i + 1]
    BY <1>1
  <2>3. CASE Len(p) = 1
    <3> DEFINE t == Tail(p)
    <3>1. Len(t) = 0 /\ fs_resolve(p) = Walk(DevRoot, t)[Len(t)]
      BY <2>1, <2>2, <2>3
    <3> HIDE DEF t
    <3>2. Walk(DevRoot, t) =
            [i \in 0 .. Len(t) |-> IF i = 0 THEN DevRoot ELSE lookup(Walk(DevRoot, t)[i - 1], t[i])]
      <4>1. Len(t) \in Nat
        BY <3>1
      <4> QED BY <4>1, WalkEquation
    <3>3. fs_resolve(p) = DevRoot
      BY <3>1, <3>2
    <3>4. ~ (Len(p) > 1)
      BY <2>3
    <3> QED BY <1>3, <3>3, <3>4
  <2>4. CASE Len(p) > 1
    <3> DEFINE k == Len(p) - 2
               t == Tail(p)
    <3>1. k \in Nat /\ Len(t) = k + 1 /\ k + 1 = Len(p) - 1 /\ t \in Seq(Names)
      BY <1>1, <2>2, <2>4
    <3>2. Front(t) \in Seq(Names) /\ Len(Front(t)) = k /\ \A i \in 1 .. k : Front(t)[i] = t[i]
      <4> HIDE DEF k, t
      <4> QED BY <3>1 DEF Front
    <3>3. Tail(Front(p)) = Front(t)
      <4>1. Front(p) \in Seq(Names) /\ Len(Front(p)) = k + 1 /\ \A i \in 1 .. k + 1 : Front(p)[i] = p[i]
        BY <1>1, <2>4, PlainPaths
      <4>2. Tail(Front(p)) \in Seq(Names) /\ Len(Tail(Front(p))) = k
            /\ \A i \in 1 .. k : Tail(Front(p))[i] = Front(p)[i + 1]
        <5> HIDE DEF k
        <5> QED BY <3>1, <4>1
      <4>3. \A i \in 1 .. k : Front(t)[i] = p[i + 1]
        BY <2>2, <3>1, <3>2
      <4>4. \A i \in 1 .. k : Tail(Front(p))[i] = Front(t)[i]
        BY <3>1, <4>1, <4>2, <4>3
      <4> HIDE DEF k, t
      <4> QED BY <3>1, <3>2, <4>2, <4>4
    <3>4. Front(p)[1] = "dev" /\ Front(p) \in Plain
      BY <1>1, <1>3, <2>4
    <3>5. fs_resolve(Front(p)) = Walk(DevRoot, Front(t))[k]
      <4>1. find_mnt(Front(p)) = [root |-> DevRoot, rel |-> Front(t)]
        BY <3>3, <3>4, PlainMount
      <4> HIDE DEF k, t
      <4> QED BY <3>2, <4>1 DEF fs_resolve
    <3>6. Last(p) = t[k + 1]
      BY <1>1, <2>2, <2>4 DEF Last
    <3>7. fs_resolve(p) = Walk(DevRoot, t)[k + 1]
      BY <2>1, <3>1
    <3>8. Walk(DevRoot, t)[k + 1] = lookup(Walk(DevRoot, Front(t))[k], t[k + 1])
      <4> HIDE DEF k, t
      <4> QED BY <3>1, <3>2, WalkFront
    <3> HIDE DEF k, t
    <3>9. fs_resolve(p) = lookup(fs_resolve(Front(p)), Last(p))
      BY <3>5, <3>6, <3>7, <3>8
    <3>10. Len(p) # 1
      BY <1>1, <2>4
    <3> QED BY <3>9, <3>10
  <2> QED BY <1>1, <1>3, <2>3, <2>4
<1>4. CASE p[1] # "dev"
  <2>1. fs_resolve(p) = Walk(Root, p)[Len(p)]
    BY <1>2, <1>4, PlainMount
  <2> DEFINE k == Len(p) - 1
  <2>2. k \in Nat /\ Len(p) = k + 1
    BY <1>1
  <2>3. Len(Front(p)) = k /\ \A i \in 1 .. k : Front(p)[i] = p[i]
    <3> HIDE DEF k
    <3> QED BY <1>1, <2>2 DEF Front
  <2>4. /\ Walk(Root, p)[k + 1] = lookup(Walk(Root, Front(p))[k], p[k + 1])
        /\ Walk(Root, Front(p))[0] = Root
    <3> HIDE DEF k
    <3> QED BY <2>2, <2>3, WalkFront
  <2>5. Last(p) = p[k + 1] /\ fs_resolve(p) = Walk(Root, p)[k + 1]
    BY <2>1, <2>2 DEF Last
  <2>6. CASE Len(p) = 1
    <3>1. k = 0
      BY <2>6
    <3> HIDE DEF k
    <3>2. fs_resolve(p) = lookup(Root, p[1])
      BY <2>4, <2>5, <3>1
    <3>3. ~ (Len(p) > 1)
      BY <2>6
    <3> QED BY <1>4, <3>2, <3>3
  <2>7. CASE Len(p) > 1
    <3>1. Front(p)[1] # "dev" /\ Front(p) \in Plain
      BY <1>1, <1>4, <2>7
    <3>2. find_mnt(Front(p)) = [root |-> Root, rel |-> Front(p)]
      BY <3>1, PlainMount
    <3>3. fs_resolve(Front(p)) = Walk(Root, Front(p))[k]
      <4> HIDE DEF k
      <4> QED BY <2>3, <3>2 DEF fs_resolve
    <3> HIDE DEF k
    <3>4. fs_resolve(p) = lookup(fs_resolve(Front(p)), Last(p))
      BY <2>4, <2>5, <3>3
    <3>5. Len(p) # 1
      BY <1>1, <2>7
    <3> QED BY <3>4, <3>5
  <2> QED BY <1>1, <1>4, <2>6, <2>7
<1> QED BY <1>3, <1>4

(* The resolution of plain paths follows edges, one for each name.         *)
LEMMA TreeFollows == TreeNamed => Follows
<1> SUFFICES ASSUME TreeNamed, NEW p \in Plain
             PROVE  /\ fs_resolve(p) \in Known \cup {None}
                    /\ Len(p) = 1 /\ p[1] = "dev" => fs_resolve(p) = DevRoot
                    /\ Len(p) = 1 /\ p[1] # "dev" =>
                         \A n \in Known : fs_resolve(p) = n <=> Edge(Root, p[1], n)
                    /\ Len(p) > 1 =>
                         \A n \in Known : fs_resolve(p) = n <=> Edge(fs_resolve(Front(p)), Last(p), n)
  BY DEF Follows
<1>1. \A q \in Plain : fs_resolve(q) \in Known \cup {None}
  <2> SUFFICES ASSUME NEW q \in Plain PROVE fs_resolve(q) \in Known \cup {None}
    OBVIOUS
  <2>1. fs_resolve(q) \in 0 .. Len(nodes) /\ Len(nodes) \in Nat
    BY PlainPaths, ResolveStays, NodesTyped DEF TreeNamed, VfsInv
  <2> QED BY <2>1 DEF Known, None
<1>2. Root \in Known /\ None \notin Known
  BY NodesTyped DEF TreeNamed, VfsInv, TreeInv, Known, Root, None
<1>3. ASSUME Len(p) = 1, p[1] # "dev", NEW n \in Known
      PROVE  fs_resolve(p) = n <=> Edge(Root, p[1], n)
  BY <1>2, <1>3, LookupFollows, ResolveByStep
<1>4. ASSUME Len(p) > 1, NEW n \in Known
      PROVE  fs_resolve(p) = n <=> Edge(fs_resolve(Front(p)), Last(p), n)
  <2>1. fs_resolve(p) = lookup(fs_resolve(Front(p)), Last(p)) /\ Front(p) \in Plain
    BY <1>4, ResolveByStep, PlainPaths
  <2>2. CASE fs_resolve(Front(p)) = None
    <3>1. lookup(None, Last(p)) = None /\ ~ Edge(None, Last(p), n)
      BY <1>2 DEF lookup, Edge
    <3> QED BY <1>2, <1>4, <2>1, <2>2, <3>1
  <2>3. CASE fs_resolve(Front(p)) # None
    BY <1>1, <1>4, <2>1, <2>3, LookupFollows
  <2> QED BY <2>2, <2>3
<1> QED BY <1>1, <1>3, <1>4, ResolveByStep

-----------------------------------------------------------------------------
(* Following edges backwards from a node there is one way: at most one     *)
(* plain path leads to it, and none to the root.                           *)
OnePath ==
  /\ \A p, q \in Plain : fs_resolve(p) = fs_resolve(q) /\ fs_resolve(p) # None => p = q
  /\ \A p \in Plain : fs_resolve(p) # Root

(* Two plain paths that resolve to one node are the same path.             *)
LEMMA ForestHasOnePath == Forest /\ Follows => OnePath
<1> SUFFICES ASSUME Forest, Follows PROVE OnePath
  OBVIOUS
<1>1. \A p \in Plain : fs_resolve(p) \in Known \cup {None}
  BY DEF Follows
<1>2. ASSUME NEW p \in Plain, fs_resolve(p) # None
      PROVE  \/ Len(p) = 1 /\ p[1] = "dev" /\ fs_resolve(p) = DevRoot
             \/ Len(p) = 1 /\ p[1] # "dev" /\ Edge(Root, p[1], fs_resolve(p))
             \/ Len(p) > 1 /\ Edge(fs_resolve(Front(p)), Last(p), fs_resolve(p))
  <2>1. Len(p) = 1 \/ Len(p) > 1
    <3>1. Len(p) \in Nat /\ Len(p) >= 1
      BY PlainPaths
    <3>2. \A l \in Nat : l >= 1 => l = 1 \/ l > 1
      OBVIOUS
    <3> QED BY <3>1, <3>2
  <2>2. fs_resolve(p) \in Known
    BY <1>1, <1>2
  <2> QED BY <2>1, <2>2 DEF Follows
<1>3. \A p \in Plain : fs_resolve(p) # Root
  <2> SUFFICES ASSUME NEW p \in Plain, fs_resolve(p) = Root PROVE FALSE
    OBVIOUS
  <2>1. Root # None /\ Root # DevRoot
    BY DEF Root, DevRoot, None
  <2> QED BY <1>2, <2>1 DEF Forest
<1> DEFINE S == {p \in Plain : fs_resolve(p) # None =>
                   \A q \in Plain : fs_resolve(q) = fs_resolve(p) => q = p}
<1>4. ASSUME NEW p \in Plain, Len(p) = 1 PROVE p \in S
  <2>1. SUFFICES ASSUME fs_resolve(p) # None, NEW q \in Plain, fs_resolve(q) = fs_resolve(p)
                 PROVE  q = p
    OBVIOUS
  <2>2. ~ (Len(p) > 1)
    BY <1>4
  <2>3. CASE p[1] = "dev"
    <3>1. fs_resolve(q) = DevRoot
      BY <1>4, <2>1, <2>3 DEF Follows
    <3>2. Len(q) = 1 /\ q[1] = "dev"
      BY <1>2, <2>1, <3>1 DEF Forest
    <3> QED BY <1>4, <2>3, <3>2, PathEquality
  <2>4. CASE p[1] # "dev"
    <3>1. Edge(Root, p[1], fs_resolve(q))
      BY <1>2, <1>4, <2>1, <2>2, <2>4
    <3>2. Len(q) = 1 /\ q[1] = p[1]
      <4>1. fs_resolve(q) # DevRoot
        BY <3>1 DEF Forest
      <4>2. Len(q) > 1 => FALSE
        <5> SUFFICES ASSUME Len(q) > 1 PROVE FALSE
          OBVIOUS
        <5>1. Len(q) # 1 /\ Front(q) \in Plain
          BY PlainPaths
        <5>2. Edge(fs_resolve(Front(q)), Last(q), fs_resolve(q))
          BY <1>2, <2>1, <5>1
        <5>3. fs_resolve(Front(q)) = Root
          BY <3>1, <5>2 DEF Forest
        <5> QED BY <1>3, <5>1, <5>3
      <4>3. Len(q) = 1 /\ Edge(Root, q[1], fs_resolve(q))
        BY <1>2, <2>1, <4>1, <4>2
      <4> QED BY <3>1, <4>3 DEF Forest
    <3> QED BY <1>4, <3>2, PathEquality
  <2> QED BY <2>3, <2>4
<1>5. ASSUME NEW p \in Plain, Len(p) > 1, Front(p) \in S PROVE p \in S
  <2>1. SUFFICES ASSUME fs_resolve(p) # None, NEW q \in Plain, fs_resolve(q) = fs_resolve(p)
                 PROVE  q = p
    OBVIOUS
  <2>2. Edge(fs_resolve(Front(p)), Last(p), fs_resolve(p))
    <3>1. Len(p) # 1
      BY <1>5, PlainPaths
    <3> QED BY <1>2, <2>1, <3>1
  <2>3. Front(p) \in Plain /\ fs_resolve(Front(p)) # None
    BY <1>5, <2>2, PlainPaths DEF Forest
  <2>4. fs_resolve(q) # DevRoot
    BY <2>1, <2>2 DEF Forest
  <2>5. ~ Edge(Root, q[1], fs_resolve(q))
    BY <1>3, <2>1, <2>2, <2>3 DEF Forest
  <2>6. Len(q) > 1 /\ Edge(fs_resolve(Front(q)), Last(q), fs_resolve(q))
    BY <1>2, <2>1, <2>4, <2>5
  <2>7. fs_resolve(Front(q)) = fs_resolve(Front(p)) /\ Last(q) = Last(p) /\ Front(q) \in Plain
    BY <2>1, <2>2, <2>6, PlainPaths DEF Forest
  <2>8. Front(q) = Front(p)
    BY <1>5, <2>3, <2>7
  <2> QED BY <1>5, <2>6, <2>7, <2>8, PathEquality
<1>6. Plain \subseteq S
  <2> HIDE DEF S
  <2> QED BY <1>4, <1>5, PathInduction
<1>7. \A p, q \in Plain : fs_resolve(p) = fs_resolve(q) /\ fs_resolve(p) # None => p = q
  BY <1>6
<1> QED BY <1>3, <1>7 DEF OnePath

(* All that is known of the names of a tree.                               *)
NameFacts == Forest /\ Follows /\ OnePath

(* What the names of a sound tree satisfy, together.                       *)
LEMMA TreeNameFacts == TreeNamed => NameFacts
  BY TreeIsForest, TreeFollows, ForestHasOnePath DEF NameFacts

(* The edges as a set and the nodes of the plain paths as a function, so   *)
(* that what the two say of each other can be said of two states at once.  *)
Edges == {e \in Nat \X (Names \cup {"/"}) \X Nat : Edge(e[1], e[2], e[3])}
Way == [p \in Plain |-> fs_resolve(p)]

(* How a plain path is found, one name at a time.                          *)
FoundBy(E, W, p) ==
  /\ W[p] # None =>
       \/ Len(p) = 1 /\ p[1] = "dev" /\ W[p] = DevRoot
       \/ Len(p) = 1 /\ p[1] # "dev" /\ <<Root, p[1], W[p]>> \in E
       \/ /\ Len(p) > 1 /\ Front(p) \in Plain /\ W[Front(p)] # None
          /\ <<W[Front(p)], Last(p), W[p]>> \in E
  /\ Len(p) = 1 /\ p[1] = "dev" => W[p] = DevRoot
  /\ Len(p) = 1 /\ p[1] # "dev" => \A n : <<Root, p[1], n>> \in E => W[p] = n
  /\ Len(p) > 1 => \A n : <<W[Front(p)], Last(p), n>> \in E => W[p] = n

(* No two plain paths lead to one node.                                    *)
Unique(W) == \A p, q \in Plain : W[p] = W[q] /\ W[p] # None => p = q

(* W is the way of every plain path along the edges E, and the only one.   *)
Ways(E, W) ==
  /\ \A p \in Plain : FoundBy(E, W, p)
  /\ Unique(W)
  /\ \A d, a, n : <<d, a, n>> \in E => d # None /\ n \notin {None, DevRoot}

(* The plain paths that lead to a node.                                    *)
FoundIn(W) == {p \in Plain : W[p] # None}

(* The plain paths that resolve now. *)
Found == {p \in Plain : fs_resolve(p) # None}

(* The set of edges holds exactly the edges.                               *)
LEMMA EdgesAreEdges == TreeNamed => \A d, a, n : <<d, a, n>> \in Edges <=> Edge(d, a, n)
<1> SUFFICES ASSUME TreeNamed, NEW d, NEW a, NEW n, Edge(d, a, n)
             PROVE  d \in Nat /\ a \in Names \cup {"/"} /\ n \in Nat
  BY DEF Edges
<1>1. nodes[n] \in NodeRecords /\ Known \subseteq Nat
  BY NodesTyped DEF TreeNamed, VfsInv, Edge, Known
<1> QED BY <1>1 DEF Edge, NodeRecords

(* Resolution is the way along the edges of a sound tree.                  *)
LEMMA TreeHasWays == TreeNamed => Ways(Edges, Way)
<1> SUFFICES ASSUME TreeNamed PROVE Ways(Edges, Way)
  OBVIOUS
<1>0. NameFacts /\ \A d, a, n : <<d, a, n>> \in Edges <=> Edge(d, a, n)
  BY TreeNameFacts, EdgesAreEdges
<1> HIDE DEF Edges
<1>1. ASSUME NEW p \in Plain PROVE FoundBy(Edges, Way, p)
  <2>1. Len(p) = 1 \/ Len(p) > 1
    <3>1. Len(p) \in Nat /\ Len(p) >= 1
      BY PlainPaths
    <3>2. \A l \in Nat : l >= 1 => l = 1 \/ l > 1
      OBVIOUS
    <3> QED BY <3>1, <3>2
  <2>2. fs_resolve(p) \in Known \cup {None} /\ \A d, a, n : Edge(d, a, n) => n \in Known
    BY <1>0 DEF NameFacts, Follows, Edge
  <2>3. Way[p] = fs_resolve(p) /\ (Len(p) > 1 => Front(p) \in Plain /\ Way[Front(p)] = fs_resolve(Front(p)))
    BY PlainPaths DEF Way
  <2> HIDE DEF Way
  <2>4. ASSUME fs_resolve(p) # None
        PROVE  \/ Len(p) = 1 /\ p[1] = "dev" /\ fs_resolve(p) = DevRoot
               \/ Len(p) = 1 /\ p[1] # "dev" /\ Edge(Root, p[1], fs_resolve(p))
               \/ /\ Len(p) > 1 /\ Front(p) \in Plain /\ fs_resolve(Front(p)) # None
                  /\ Edge(fs_resolve(Front(p)), Last(p), fs_resolve(p))
    <3>1. fs_resolve(p) \in Known
      BY <2>2, <2>4
    <3>2. CASE Len(p) = 1
      BY <1>0, <3>1, <3>2 DEF NameFacts, Follows
    <3>3. CASE Len(p) > 1
      <4>1. Edge(fs_resolve(Front(p)), Last(p), fs_resolve(p)) /\ Front(p) \in Plain
        BY <1>0, <3>1, <3>3, PlainPaths DEF NameFacts, Follows
      <4> QED BY <1>0, <3>3, <4>1 DEF NameFacts, Forest
    <3> QED BY <2>1, <3>2, <3>3
  <2>5. /\ Len(p) = 1 /\ p[1] = "dev" => fs_resolve(p) = DevRoot
        /\ Len(p) = 1 /\ p[1] # "dev" => \A n : Edge(Root, p[1], n) => fs_resolve(p) = n
        /\ Len(p) > 1 => \A n : Edge(fs_resolve(Front(p)), Last(p), n) => fs_resolve(p) = n
    BY <1>0, <2>2 DEF NameFacts, Follows
  <2> QED BY <1>0, <2>3, <2>4, <2>5 DEF FoundBy
<1>2. Unique(Way)
  BY <1>0 DEF Unique, Way, NameFacts, OnePath
<1>3. \A d, a, n : <<d, a, n>> \in Edges => d # None /\ n \notin {None, DevRoot}
  BY <1>0 DEF NameFacts, Forest
<1> QED BY <1>1, <1>2, <1>3 DEF Ways

-----------------------------------------------------------------------------
(* A node made: one edge more, if its directory is one.                    *)
LEMMA AddedEdge ==
  ASSUME TreeNamed, NEW dir \in Known, NEW name \in Names, NEW type \in {"FS_DIR", "FS_FILE"},
         Len(nodes) < MaxNodes, Added(dir, name, type)
  PROVE  /\ OneParent'
         /\ \A d, a, n : Edge(d, a, n)' <=>
              \/ Edge(d, a, n)
              \/ nodes[dir].type = "FS_DIR" /\ d = dir /\ a = name /\ n = Len(nodes) + 1
<1> DEFINE new == Len(nodes) + 1
           c == children[dir]
           c2 == children'[dir]
           S == 1 .. MaxNodes
<1>1. /\ Len(nodes) \in Nat /\ Len(nodes) >= 4 /\ MaxNodes \in Nat
      /\ \A d \in S : Len(children[d]) \in Nat
      /\ \A d \in S : \A i \in 1 .. Len(children[d]) : children[d][i] \in Known
      /\ \A d \in S : d > Len(nodes) => children[d] = <<>>
  BY NodesTyped, VfsAssumption DEF TreeNamed, VfsInv, TreeInv
<1>2. new \in S /\ dir \in S /\ new # dir /\ Known \subseteq S /\ new \notin Known
      /\ new \notin {Root, DevRoot} /\ Known' = Known \cup {new}
  <2>1. Len(nodes') = new
    BY AddedShape DEF TreeNamed
  <2> QED BY <1>1, <2>1 DEF Known, Root, DevRoot
<1>3. nodes'[new].name = name /\ \A n \in Known : nodes'[n] = nodes[n]
  BY AddedShape DEF TreeNamed
<1>4. /\ Len(c2) = Len(c) + 1 /\ c2[1] = new /\ Len(c) \in Nat
      /\ \A i \in 2 .. Len(c) + 1 : i - 1 \in 1 .. Len(c) /\ c2[i] = c[i - 1]
  BY <1>1, <1>2, AddedShape DEF TreeNamed
<1>5. \A d \in S : d # dir => children'[d] = children[d]
  BY AddedShape DEF TreeNamed
<1> HIDE DEF c2
<1>6. \A i \in 1 .. Len(c2) : \/ i = 1 /\ c2[i] = new
                              \/ i - 1 \in 1 .. Len(c) /\ c2[i] = c[i - 1]
  BY <1>4
<1>7. \A j \in 1 .. Len(c) : j + 1 \in 1 .. Len(c2) /\ c2[j + 1] = c[j]
  <2> SUFFICES ASSUME NEW j \in 1 .. Len(c) PROVE j + 1 \in 1 .. Len(c2) /\ c2[j + 1] = c[j]
    OBVIOUS
  <2>1. j + 1 \in 2 .. Len(c) + 1 /\ (j + 1) - 1 = j
    BY <1>4
  <2> HIDE DEF c
  <2> QED BY <1>4, <2>1
<1>8. Len(children[new]) = 0 /\ children'[new] = children[new] /\ Len(c2) >= 1 /\ Len(c2) \in Nat
  <2>1. new > Len(nodes)
    BY <1>1
  <2> HIDE DEF new, S
  <2>2. children[new] = <<>> /\ children'[new] = children[new]
    BY <1>1, <1>2, <1>5, <2>1
  <2> QED BY <1>4, <2>2
<1>9. OneParent'
  <2>1. ASSUME NEW d \in S, NEW i \in 1 .. Len(children'[d]) PROVE children'[d][i] \notin {Root, DevRoot}
    <3>1. \A e \in S : \A j \in 1 .. Len(children[e]) : children[e][j] \notin {Root, DevRoot}
      BY DEF TreeNamed, OneParent
    <3>2. CASE d = dir
      BY <1>2, <1>6, <2>1, <3>1, <3>2 DEF c2
    <3>3. CASE d # dir
      BY <1>5, <2>1, <3>1, <3>3
    <3> QED BY <3>2, <3>3
  <2>2. ASSUME NEW d \in S, NEW e \in S, NEW i \in 1 .. Len(children'[d]), NEW j \in 1 .. Len(children'[e]),
               children'[d][i] = children'[e][j]
        PROVE  d = e /\ i = j
    <3> HIDE DEF new, S
    <3>1. \A f, g \in S : \A k \in 1 .. Len(children[f]), l \in 1 .. Len(children[g]) :
            children[f][k] = children[g][l] => f = g /\ k = l
      BY DEF TreeNamed, OneParent, S
    <3>2. CASE d = dir /\ e = dir
      <4>1. i \in 1 .. Len(c2) /\ j \in 1 .. Len(c2) /\ c2[i] = c2[j] /\ i \in Int /\ j \in Int
        BY <2>2, <3>2 DEF c2
      <4>2. CASE c2[i] = new
        <5>1. \A k \in 1 .. Len(c2) : c2[k] = new => k = 1
          BY <1>1, <1>2, <1>6
        <5> QED BY <3>2, <4>1, <4>2, <5>1
      <4>3. CASE c2[i] # new
        <5>1. /\ i - 1 \in 1 .. Len(c) /\ c2[i] = c[i - 1]
              /\ j - 1 \in 1 .. Len(c) /\ c2[j] = c[j - 1]
          BY <1>6, <4>1, <4>3
        <5>2. \A l, m \in 1 .. Len(c) : c[l] = c[m] => l = m
          BY <1>2, <3>1
        <5> HIDE DEF c
        <5>3. i - 1 = j - 1
          BY <4>1, <5>1, <5>2
        <5> QED BY <3>2, <4>1, <5>3
      <4> QED BY <4>2, <4>3
    <3>3. CASE d = dir /\ e # dir
      <4>1. j \in 1 .. Len(children[e]) /\ children'[e][j] = children[e][j]
        BY <1>5, <2>2, <3>3
      <4>2. i - 1 \in 1 .. Len(c) /\ c2[i] = c[i - 1]
        <5>1. children[e][j] # new
          BY <1>1, <1>2, <4>1
        <5> QED BY <1>6, <2>2, <3>3, <4>1, <5>1 DEF c2
      <4>3. d = e
        BY <1>2, <2>2, <3>1, <3>3, <4>1, <4>2, SMTT(60) DEF c2
      <4> QED BY <3>3, <4>3
    <3>4. CASE d # dir /\ e = dir
      <4>1. i \in 1 .. Len(children[d]) /\ children'[d][i] = children[d][i]
        BY <1>5, <2>2, <3>4
      <4>2. j - 1 \in 1 .. Len(c) /\ c2[j] = c[j - 1]
        <5>1. children[d][i] # new
          BY <1>1, <1>2, <4>1
        <5> QED BY <1>6, <2>2, <3>4, <4>1, <5>1 DEF c2
      <4>3. d = e
        BY <1>2, <2>2, <3>1, <3>4, <4>1, <4>2 DEF c2
      <4> QED BY <3>4, <4>3
    <3>5. CASE d # dir /\ e # dir
      BY <1>5, <2>2, <3>1, <3>5
    <3> QED BY <3>2, <3>3, <3>4, <3>5
  <2> QED BY <2>1, <2>2 DEF OneParent
<1>10. ASSUME NEW d, NEW a, NEW n
       PROVE  Edge(d, a, n)' <=>
                \/ Edge(d, a, n)
                \/ nodes[dir].type = "FS_DIR" /\ d = dir /\ a = name /\ n = new
  <2> HIDE DEF new, S
  <2>1. Edge(d, a, n)' <=>
          /\ d \in Known \cup {new} /\ n \in Known \cup {new}
          /\ nodes'[d].type = "FS_DIR" /\ nodes'[n].name = a
          /\ \E i \in 1 .. Len(children'[d]) : children'[d][i] = n
    BY <1>2 DEF Edge
  <2>2. CASE d = new
    <3>1. ~ \E i \in 1 .. Len(children'[d]) : children'[d][i] = n
      BY <1>8, <2>2
    <3> QED BY <1>2, <2>1, <2>2, <3>1 DEF Edge
  <2>3. CASE d \notin Known \cup {new}
    BY <2>1, <2>3 DEF Edge
  <2>4. CASE d \in Known /\ d # dir
    <3>1. (\E i \in 1 .. Len(children'[d]) : children'[d][i] = n) <=>
            (\E i \in 1 .. Len(children[d]) : children[d][i] = n)
      BY <1>2, <1>5, <2>4
    <3>2. (\E i \in 1 .. Len(children[d]) : children[d][i] = n) => n \in Known
      BY <1>1, <1>2, <2>4
    <3> QED BY <1>2, <1>3, <2>1, <2>4, <3>1, <3>2 DEF Edge
  <2>5. CASE d = dir
    <3>1. (\E i \in 1 .. Len(c2) : c2[i] = n) <=> n = new \/ \E j \in 1 .. Len(c) : c[j] = n
      <4>1. (\E j \in 1 .. Len(c) : c[j] = n) => \E i \in 1 .. Len(c2) : c2[i] = n
        BY <1>7
      <4>2. \E i \in 1 .. Len(c2) : c2[i] = new
        BY <1>4, <1>8
      <4> QED BY <1>6, <4>1, <4>2
    <3>2. (\E j \in 1 .. Len(c) : c[j] = n) => n \in Known
      BY <1>1, <1>2
    <3> QED BY <1>2, <1>3, <2>1, <2>5, <3>1, <3>2 DEF Edge, c2
  <2> QED BY <2>2, <2>3, <2>4, <2>5
<1> QED BY <1>9, <1>10

(* A node unlinked: the edge to it is gone.                                *)
LEMMA UnlinkedEdge ==
  ASSUME TreeNamed, NEW dir \in Known, NEW name, lookup(dir, name) # None,
         Unlinks(dir, name), nodes' = nodes
  PROVE  /\ OneParent'
         /\ Edge(dir, name, lookup(dir, name))
         /\ \A d, a, n : Edge(d, a, n)' <=> Edge(d, a, n) /\ n # lookup(dir, name)
<1> DEFINE c == children[dir]
           c2 == children'[dir]
           S == 1 .. MaxNodes
           gone == lookup(dir, name)
<1>1. /\ \A d \in S : Len(children[d]) \in Nat
      /\ \A d \in S : \A i \in 1 .. Len(children[d]) : children[d][i] \in Known
      /\ dir \in S /\ Known \subseteq S
  BY NodesTyped, VfsAssumption DEF TreeNamed, VfsInv, TreeInv, Known
<1>2. PICK k \in 1 .. Len(c) :
        /\ gone = c[k]
        /\ \A i \in 1 .. Len(c) - 1 : c2[i] = IF i < k THEN c[i] ELSE c[i + 1]
  <2>1. VfsInv
    BY DEF TreeNamed
  <2>2. \E k \in 1 .. Len(children[dir]) :
              /\ lookup(dir, name) = children[dir][k]
              /\ \A i \in 1 .. Len(children[dir]) - 1 :
                   children'[dir][i] = IF i < k THEN children[dir][i] ELSE children[dir][i + 1]
    BY <2>1, UnlinkedShape, ZenonT(60)
  <2> QED BY <2>2
<1>3. Len(c2) = Len(c) - 1 /\ Len(c) \in Nat
  BY <1>1, UnlinkedShape DEF TreeNamed
<1>4. \A d \in S : d # dir => children'[d] = children[d]
  BY UnlinkedShape DEF TreeNamed
<1>5. /\ \A d \in S : \A i \in 1 .. Len(children[d]) : children[d][i] \notin {Root, DevRoot}
      /\ \A d, e \in S : \A i \in 1 .. Len(children[d]), j \in 1 .. Len(children[e]) :
           children[d][i] = children[e][j] => d = e /\ i = j
  BY DEF TreeNamed, OneParent
<1>6. gone \in Known
  BY <1>1, <1>2
<1>7. Edge(dir, name, gone)
  BY <1>6, LookupFollows
<1> HIDE DEF c2, gone, S
<1> DEFINE old(i) == IF i < k THEN i ELSE i + 1
<1>8. /\ \A i \in 1 .. Len(c2) : old(i) \in 1 .. Len(c) /\ old(i) # k /\ c2[i] = c[old(i)]
      /\ \A i, j \in 1 .. Len(c2) : old(i) = old(j) => i = j
      /\ \A j \in 1 .. Len(c) : j # k => \E i \in 1 .. Len(c2) : old(i) = j
  <2> HIDE DEF c
  <2>1. ASSUME NEW i \in 1 .. Len(c2) PROVE old(i) \in 1 .. Len(c) /\ old(i) # k /\ c2[i] = c[old(i)]
    BY <1>2, <1>3
  <2>2. ASSUME NEW i \in 1 .. Len(c2), NEW j \in 1 .. Len(c2), old(i) = old(j) PROVE i = j
    BY <1>2, <1>3, <2>2
  <2>3. ASSUME NEW j \in 1 .. Len(c), j # k PROVE \E i \in 1 .. Len(c2) : old(i) = j
    <3>1. CASE j < k
      <4>1. j \in 1 .. Len(c2) /\ old(j) = j
        BY <1>2, <1>3, <3>1
      <4> QED BY <4>1
    <3>2. CASE ~ (j < k)
      <4>1. j - 1 \in 1 .. Len(c2) /\ old(j - 1) = j
        BY <1>2, <1>3, <2>3, <3>2
      <4> QED BY <4>1
    <3> QED BY <3>1, <3>2
  <2> QED BY <2>1, <2>2, <2>3
<1> HIDE DEF old
<1>9. OneParent'
  <2>1. ASSUME NEW d \in S, NEW i \in 1 .. Len(children'[d])
        PROVE  \E j \in 1 .. Len(children[d]) :
                 children'[d][i] = children[d][j] /\ (IF d = dir THEN j = old(i) ELSE j = i)
    <3>1. CASE d = dir
      BY <1>8, <2>1, <3>1 DEF c2
    <3>2. CASE d # dir
      BY <1>4, <2>1, <3>2
    <3> QED BY <3>1, <3>2
  <2>2. ASSUME NEW d \in S, NEW e \in S, NEW i \in 1 .. Len(children'[d]), NEW j \in 1 .. Len(children'[e]),
               children'[d][i] = children'[e][j]
        PROVE  d = e /\ i = j
    <3>1. PICK l \in 1 .. Len(children[d]) :
            children'[d][i] = children[d][l] /\ (IF d = dir THEN l = old(i) ELSE l = i)
      BY <2>1
    <3>2. PICK m \in 1 .. Len(children[e]) :
            children'[e][j] = children[e][m] /\ (IF e = dir THEN m = old(j) ELSE m = j)
      BY <2>1
    <3>3. d = e /\ l = m
      <4>1. children[d][l] = children[e][m]
        BY <2>2, <3>1, <3>2
      <4>2. \A x \in 1 .. Len(children[d]), y \in 1 .. Len(children[e]) :
              children[d][x] = children[e][y] => d = e /\ x = y
        BY <1>5, ZenonT(60)
      <4> QED BY <4>1, <4>2
    <3>4. CASE d = dir
      <4>1. l = old(i) /\ m = old(j) /\ e = dir
        BY <3>1, <3>2, <3>3, <3>4
      <4>2. i \in 1 .. Len(c2) /\ j \in 1 .. Len(c2)
        BY <2>2, <3>4, <4>1 DEF c2
      <4>3. old(i) = old(j)
        BY <3>3, <4>1
      <4> HIDE DEF old
      <4> QED BY <1>8, <3>3, <4>2, <4>3
    <3>5. CASE d # dir
      BY <3>1, <3>2, <3>3, <3>5
    <3> QED BY <3>3, <3>4, <3>5
  <2> QED BY <1>5, <2>1, <2>2, SMTT(60) DEF OneParent, S
<1>10. ASSUME NEW d, NEW a, NEW n
       PROVE  Edge(d, a, n)' <=> Edge(d, a, n) /\ n # gone
  <2>1. Edge(d, a, n)' <=>
          /\ d \in Known /\ n \in Known
          /\ nodes[d].type = "FS_DIR" /\ nodes[n].name = a
          /\ \E i \in 1 .. Len(children'[d]) : children'[d][i] = n
    BY DEF Edge, Known
  <2>2. ASSUME d \in Known
        PROVE  (\E i \in 1 .. Len(children'[d]) : children'[d][i] = n) <=>
                 n # gone /\ \E i \in 1 .. Len(children[d]) : children[d][i] = n
    <3>1. CASE d # dir
      <4>1. children'[d] = children[d]
        BY <1>1, <1>4, <2>2, <3>1
      <4>2. (\E i \in 1 .. Len(children[d]) : children[d][i] = n) => n # gone
        BY <1>1, <1>2, <1>5, <2>2, <3>1
      <4> QED BY <4>1, <4>2
    <3>2. CASE d = dir
      <4>1. ASSUME NEW i \in 1 .. Len(c2), c2[i] = n
            PROVE  n # gone /\ \E j \in 1 .. Len(c) : c[j] = n
        BY <1>1, <1>2, <1>5, <1>8, <4>1, SMTT(60)
      <4>2. ASSUME n # gone, NEW j \in 1 .. Len(c), c[j] = n
            PROVE  \E i \in 1 .. Len(c2) : c2[i] = n
        BY <1>2, <1>8, <4>2, ZenonT(60)
      <4> QED BY <3>2, <4>1, <4>2 DEF c2
    <3> QED BY <3>1, <3>2
  <2> QED BY <2>1, <2>2 DEF Edge
<1> QED BY <1>7, <1>9, <1>10 DEF gone

-----------------------------------------------------------------------------
(* With one edge more, to a node nothing is below, at most one path more   *)
(* is found: the one that ends with it.                                    *)
LEMMA WaysWithEdge ==
  ASSUME NEW E, NEW W, NEW F, NEW V, Ways(E, W), Ways(F, V),
         NEW dir, NEW name, NEW new, new # dir, \A a, n : <<new, a, n>> \notin E,
         E \subseteq F,
         \A d, a, n : <<d, a, n>> \in F =>
           <<d, a, n>> \in E \/ (d = dir /\ a = name /\ n = new)
  PROVE  FoundIn(V) = FoundIn(W) \/ \E p \in Plain :
           /\ p \notin FoundIn(W) /\ (Len(p) = 1 \/ Front(p) \in FoundIn(W))
           /\ FoundIn(V) = FoundIn(W) \cup {p}
<1>1. \A p \in Plain : FoundBy(E, W, p) /\ FoundBy(F, V, p)
  BY DEF Ways
<1>2. \A p \in Plain : W[p] # None => V[p] = W[p]
  <2> DEFINE S == {p \in Plain : W[p] # None => V[p] = W[p]}
  <2>1. ASSUME NEW p \in Plain, Len(p) = 1 PROVE p \in S
    <3>1. ~ (Len(p) > 1)
      BY <2>1
    <3> QED BY <1>1, <2>1, <3>1, ZenonT(60) DEF FoundBy
  <2>2. ASSUME NEW p \in Plain, Len(p) > 1, Front(p) \in S PROVE p \in S
    <3>1. Len(p) # 1
      BY <2>2, PlainPaths
    <3>2. SUFFICES ASSUME W[p] # None PROVE V[p] = W[p]
      OBVIOUS
    <3>3. <<W[Front(p)], Last(p), W[p]>> \in E /\ W[Front(p)] # None
      BY <1>1, <3>1, <3>2 DEF FoundBy
    <3>4. V[Front(p)] = W[Front(p)]
      BY <2>2, <3>3
    <3>5. <<V[Front(p)], Last(p), W[p]>> \in F
      BY <3>3, <3>4
    <3> QED BY <1>1, <2>2, <3>5 DEF FoundBy
  <2> HIDE DEF S
  <2>3. Plain \subseteq S
    BY <2>1, <2>2, PathInduction
  <2> QED BY <2>3 DEF S
<1>3. \A p \in Plain : W[p] = None /\ V[p] # None =>
        V[p] = new /\ (Len(p) = 1 \/ Front(p) \in FoundIn(W))
  <2> DEFINE S == {p \in Plain : W[p] = None /\ V[p] # None =>
                     V[p] = new /\ (Len(p) = 1 \/ Front(p) \in FoundIn(W))}
  <2>1. ASSUME NEW p \in Plain, Len(p) = 1 PROVE p \in S
    <3>1. ~ (Len(p) > 1)
      BY <2>1
    <3>2. SUFFICES ASSUME W[p] = None, V[p] # None PROVE V[p] = new
      BY <2>1
    <3>3. p[1] # "dev"
      <4>1. DevRoot # None
        BY DEF DevRoot, None
      <4> QED BY <1>1, <2>1, <3>2, <4>1 DEF FoundBy
    <3>4. <<Root, p[1], V[p]>> \in F
      BY <1>1, <3>1, <3>2, <3>3 DEF FoundBy
    <3>5. <<Root, p[1], V[p]>> \notin E
      BY <1>1, <2>1, <3>2, <3>3 DEF FoundBy
    <3> QED BY <3>4, <3>5
  <2>2. ASSUME NEW p \in Plain, Len(p) > 1, Front(p) \in S PROVE p \in S
    <3>1. Len(p) # 1 /\ Front(p) \in Plain
      BY <2>2, PlainPaths
    <3>2. SUFFICES ASSUME W[p] = None, V[p] # None
                   PROVE  V[p] = new /\ Front(p) \in FoundIn(W)
      OBVIOUS
    <3>3. <<V[Front(p)], Last(p), V[p]>> \in F /\ V[Front(p)] # None
      BY <1>1, <3>1, <3>2 DEF FoundBy
    <3>4. CASE W[Front(p)] # None
      <4>1. V[Front(p)] = W[Front(p)]
        BY <1>2, <3>1, <3>4
      <4>2. <<W[Front(p)], Last(p), V[p]>> \notin E
        BY <1>1, <2>2, <3>2 DEF FoundBy
      <4> QED BY <3>1, <3>3, <3>4, <4>1, <4>2 DEF FoundIn
    <3>5. CASE W[Front(p)] = None
      <4>1. V[Front(p)] = new
        BY <2>2, <3>3, <3>5
      <4> QED BY <3>3, <4>1
    <3> QED BY <3>4, <3>5
  <2> HIDE DEF S
  <2>3. Plain \subseteq S
    BY <2>1, <2>2, PathInduction
  <2> QED BY <2>3 DEF S
<1>4. FoundIn(W) \subseteq FoundIn(V)
  BY <1>2 DEF FoundIn
<1>5. CASE FoundIn(V) # FoundIn(W)
  <2>1. PICK p \in Plain : W[p] = None /\ V[p] # None
    BY <1>4, <1>5 DEF FoundIn
  <2>2. \A q \in Plain : W[q] = None /\ V[q] # None => q = p
    BY <1>3, <2>1 DEF Ways, Unique
  <2>3. FoundIn(V) = FoundIn(W) \cup {p} /\ p \notin FoundIn(W)
    BY <1>4, <2>1, <2>2 DEF FoundIn
  <2> QED BY <1>3, <2>1, <2>3
<1> QED BY <1>5

(* Without the edges to one node, the paths that go through it are not     *)
(* found any more: one path and what is below it.                          *)
LEMMA WaysWithoutEdge ==
  ASSUME NEW E, NEW W, NEW F, NEW V, Ways(E, W), Ways(F, V), NEW gone,
         \A d, a, n : <<d, a, n>> \in F <=> <<d, a, n>> \in E /\ n # gone,
         gone \notin {None, DevRoot}
  PROVE  FoundIn(V) = FoundIn(W) \/ \E p \in Plain :
           p \in FoundIn(W) /\ FoundIn(V) = FoundIn(W) \ Naming!Below(p)
<1>1. \A p \in Plain : FoundBy(E, W, p) /\ FoundBy(F, V, p)
  BY DEF Ways
<1>2. \A p \in Plain : /\ V[p] # None => V[p] = W[p]
                       /\ W[p] # None /\ V[p] = None => \E q \in Plain : W[q] = gone /\ IsPrefix(q, p)
  <2> DEFINE S == {p \in Plain :
                     /\ V[p] # None => V[p] = W[p]
                     /\ W[p] # None /\ V[p] = None => \E q \in Plain : W[q] = gone /\ IsPrefix(q, p)}
  <2>1. ASSUME NEW p \in Plain, Len(p) = 1 PROVE p \in S
    <3>1. ~ (Len(p) > 1) /\ IsPrefix(p, p)
      BY <2>1, PrefixOfFront
    <3>2. ASSUME V[p] # None PROVE V[p] = W[p]
      BY <1>1, <2>1, <3>1, <3>2 DEF FoundBy
    <3>3. ASSUME W[p] # None, V[p] = None PROVE W[p] = gone
      <4>1. p[1] # "dev"
        BY <1>1, <2>1, <3>3 DEF FoundBy
      <4>2. <<Root, p[1], W[p]>> \in E /\ <<Root, p[1], W[p]>> \notin F
        BY <1>1, <2>1, <3>1, <3>3, <4>1 DEF FoundBy
      <4> QED BY <4>2
    <3> QED BY <3>1, <3>2, <3>3
  <2>2. ASSUME NEW p \in Plain, Len(p) > 1, Front(p) \in S PROVE p \in S
    <3>1. Len(p) # 1 /\ Front(p) \in Plain /\ IsPrefix(p, p)
      BY <2>2, PlainPaths, PrefixOfFront
    <3>2. ASSUME V[p] # None PROVE V[p] = W[p]
      <4>1. <<V[Front(p)], Last(p), V[p]>> \in F /\ V[Front(p)] # None
        BY <1>1, <3>1, <3>2 DEF FoundBy
      <4>2. V[Front(p)] = W[Front(p)] /\ <<V[Front(p)], Last(p), V[p]>> \in E
        BY <2>2, <4>1
      <4>3. <<W[Front(p)], Last(p), V[p]>> \in E
        BY <4>2
      <4> QED BY <1>1, <2>2, <4>3 DEF FoundBy
    <3>3. ASSUME W[p] # None, V[p] = None PROVE \E q \in Plain : W[q] = gone /\ IsPrefix(q, p)
      <4>1. <<W[Front(p)], Last(p), W[p]>> \in E /\ W[Front(p)] # None
        BY <1>1, <3>1, <3>3 DEF FoundBy
      <4>2. CASE V[Front(p)] = None
        <5>1. PICK q \in Plain : W[q] = gone /\ IsPrefix(q, Front(p))
          BY <2>2, <4>1, <4>2
        <5> QED BY <2>2, <5>1, PrefixOfFront
      <4>3. CASE V[Front(p)] # None
        <5>1. V[Front(p)] = W[Front(p)]
          BY <2>2, <4>3
        <5>2. <<V[Front(p)], Last(p), W[p]>> \notin F
          BY <1>1, <2>2, <3>3 DEF FoundBy
        <5>3. W[p] = gone
          BY <4>1, <5>1, <5>2
        <5> QED BY <3>1, <5>3
      <4> QED BY <4>2, <4>3
    <3> QED BY <3>2, <3>3
  <2> HIDE DEF S
  <2>3. Plain \subseteq S
    BY <2>1, <2>2, PathInduction
  <2> QED BY <2>3 DEF S
<1>3. ASSUME NEW q \in Plain, W[q] = gone
      PROVE  \A p \in Plain : IsPrefix(q, p) => V[p] = None
  <2> DEFINE S == {p \in Plain : IsPrefix(q, p) => V[p] = None}
  <2>0. V[q] = None
    <3> SUFFICES ASSUME V[q] # None PROVE FALSE
      OBVIOUS
    <3>1. V[q] = gone
      BY <1>2, <1>3
    <3>2. gone # DevRoot /\ \A d, a : <<d, a, gone>> \notin F
      OBVIOUS
    <3> QED BY <1>1, <3>1, <3>2, ZenonT(60) DEF FoundBy
  <2>1. ASSUME NEW p \in Plain, Len(p) = 1 PROVE p \in S
    BY <2>0, <2>1, PrefixOfFront
  <2>2. ASSUME NEW p \in Plain, Len(p) > 1, Front(p) \in S PROVE p \in S
    <3>1. Len(p) # 1
      BY <2>2, PlainPaths
    <3>2. SUFFICES ASSUME IsPrefix(q, p) PROVE V[p] = None
      OBVIOUS
    <3>3. CASE p = q
      BY <2>0, <3>3
    <3>4. CASE p # q
      <4>1. V[Front(p)] = None
        BY <2>2, <3>2, <3>4, PrefixOfFront
      <4> QED BY <1>1, <3>1, <4>1 DEF FoundBy
    <3> QED BY <3>3, <3>4
  <2> HIDE DEF S
  <2>3. Plain \subseteq S
    BY <2>1, <2>2, PathInduction
  <2> QED BY <2>3 DEF S
<1>4. CASE FoundIn(V) # FoundIn(W)
  <2>1. FoundIn(V) \subseteq FoundIn(W)
    BY <1>2 DEF FoundIn
  <2>2. PICK p \in Plain : W[p] # None /\ V[p] = None
    BY <1>4, <2>1 DEF FoundIn
  <2>3. PICK q \in Plain : W[q] = gone
    BY <1>2, <2>2
  <2>4. \A r \in Plain : W[r] = gone => r = q
    BY <2>3 DEF Ways, Unique
  <2>5. \A r \in Plain : r \in FoundIn(W) /\ r \notin FoundIn(V) <=> r \in FoundIn(W) /\ IsPrefix(q, r)
    BY <1>2, <1>3, <2>3, <2>4 DEF FoundIn
  <2>6. FoundIn(V) = FoundIn(W) \ {r \in Plain : IsPrefix(q, r)}
    BY <2>1, <2>5 DEF FoundIn
  <2>7. q \in FoundIn(W)
    BY <2>3 DEF FoundIn
  <2>8. Naming!Below(q) = {r \in Plain : IsPrefix(q, r)}
    BY DEF Naming!Below, Naming!IsPrefix, IsPrefix
  <2> QED BY <2>3, <2>6, <2>7, <2>8
<1> QED BY <1>4


-----------------------------------------------------------------------------
(* The tree at boot is a forest.                                           *)
LEMMA InitTreeNamed == Init => TreeNamed
<1> SUFFICES ASSUME Init PROVE TreeNamed
  OBVIOUS
<1>1. VfsInv
  BY InitVfsInv
<1>2. children = [n \in 1 .. MaxNodes |-> IF n = 1 THEN <<2>> ELSE IF n = 3 THEN <<4>> ELSE <<>>]
  BY DEF Init, Root, DevRoot, DevDir, DevNode
<1> HIDE DEF Init
<1>3. ASSUME NEW d \in 1 .. MaxNodes, NEW i \in 1 .. Len(children[d])
      PROVE  i = 1 /\ children[d][i] \in {2, 4} /\ d = children[d][i] - 1
  <2>0. Len(<<>>) = 0 /\ \A x : Len(<<x>>) = 1 /\ <<x>>[1] = x
    OBVIOUS
  <2>1. CASE d = 1
    <3>1. children[d] = <<2>>
      BY <1>2, <2>1
    <3>2. i = 1
      BY <1>3, <2>0, <3>1
    <3> QED BY <2>0, <2>1, <3>1, <3>2
  <2>2. CASE d = 3
    <3>1. children[d] = <<4>>
      BY <1>2, <2>2
    <3>2. i = 1
      BY <1>3, <2>0, <3>1
    <3> QED BY <2>0, <2>2, <3>1, <3>2
  <2>3. CASE d # 1 /\ d # 3
    <3>1. children[d] = <<>>
      BY <1>2, <2>3
    <3> QED BY <1>3, <2>0, <3>1
  <2> QED BY <2>1, <2>2, <2>3
<1>4. OneParent
  <2>1. ASSUME NEW d \in 1 .. MaxNodes, NEW i \in 1 .. Len(children[d])
        PROVE  children[d][i] \notin {Root, DevRoot}
    BY <1>3 DEF Root, DevRoot
  <2>2. ASSUME NEW d \in 1 .. MaxNodes, NEW e \in 1 .. MaxNodes,
               NEW i \in 1 .. Len(children[d]), NEW j \in 1 .. Len(children[e]),
               children[d][i] = children[e][j]
        PROVE  d = e /\ i = j
    <3>1. i = 1 /\ d = children[d][i] - 1 /\ j = 1 /\ e = children[e][j] - 1
      BY <1>3
    <3> QED BY <2>2, <3>1
  <2> QED BY <2>1, <2>2 DEF OneParent
<1> QED BY <1>1, <1>4 DEF TreeNamed

(* A step of the files adds a path that is found, takes one away with what *)
(* is below it, or changes none.                                           *)
LEMMA NextNames ==
  ASSUME TreeNamed, VfsInv', [Next]_vars
  PROVE  /\ TreeNamed'
         /\ \/ Found' = Found
            \/ \E p \in Plain : /\ p \notin Found /\ (Len(p) = 1 \/ Front(p) \in Found)
                                /\ Found' = Found \cup {p}
            \/ \E p \in Plain : p \in Found /\ Found' = Found \ Naming!Below(p)
<1>1. Found = FoundIn(Way) /\ Found' = FoundIn(Way')
  BY DEF Found, FoundIn, Way
<1>2. Ways(Edges, Way) /\ (OneParent' => Ways(Edges', Way'))
  <2>1. (TreeNamed => Ways(Edges, Way))'
    BY TreeHasWays, PTL
  <2> QED BY <2>1, TreeHasWays DEF TreeNamed
<1>3. /\ \A d, a, n : <<d, a, n>> \in Edges <=> Edge(d, a, n)
      /\ OneParent' => \A d, a, n : <<d, a, n>> \in Edges' <=> Edge(d, a, n)'
  <2>1. (TreeNamed => \A d, a, n : <<d, a, n>> \in Edges <=> Edge(d, a, n))'
    BY EdgesAreEdges, PTL
  <2> QED BY <2>1, EdgesAreEdges DEF TreeNamed
<1>4. ASSUME UNCHANGED <<nodes, children>> PROVE TreeNamed' /\ Found' = Found
  <2>1. OneParent'
    BY <1>4, SMTT(60) DEF TreeNamed, OneParent
  <2>2. Found' = Found
    BY <1>4 DEF Found, Plain, fs_resolve, Walk, lookup, Place, HasName
  <2> QED BY <2>1, <2>2 DEF TreeNamed
<1>5. ASSUME NEW dir \in Known, NEW name \in Names, NEW type \in {"FS_DIR", "FS_FILE"},
             Len(nodes) < MaxNodes, Added(dir, name, type)
      PROVE  /\ TreeNamed'
             /\ \/ Found' = Found
                \/ \E p \in Plain : /\ p \notin Found /\ (Len(p) = 1 \/ Front(p) \in Found)
                                    /\ Found' = Found \cup {p}
  <2> DEFINE new == Len(nodes) + 1
  <2>1. OneParent' /\ \A d, a, n : Edge(d, a, n)' <=>
              \/ Edge(d, a, n)
              \/ nodes[dir].type = "FS_DIR" /\ d = dir /\ a = name /\ n = new
    BY <1>5, AddedEdge
  <2>2. new # dir /\ \A a, n : ~ Edge(new, a, n)
    <3>1. Len(nodes) \in Nat
      BY NodesTyped DEF TreeNamed, VfsInv
    <3> QED BY <3>1 DEF Edge, Known
  <2> HIDE DEF new
  <2>3. Ways(Edges, Way) /\ Ways(Edges', Way')
    BY <1>2, <2>1
  <2>4. /\ \A a, n : <<new, a, n>> \notin Edges
        /\ \A d, a, n : <<d, a, n>> \in Edges' =>
             <<d, a, n>> \in Edges \/ (d = dir /\ a = name /\ n = new)
    BY <1>3, <2>1, <2>2
  <2>5. Edges \subseteq Edges'
    <3>1. \A e \in Edges : e = <<e[1], e[2], e[3]>>
      BY DEF Edges
    <3>2. \A d, a, n : <<d, a, n>> \in Edges => <<d, a, n>> \in Edges'
      BY <1>3, <2>1
    <3> QED BY <3>1, <3>2
  <2> HIDE DEF Edges, Way
  <2>6. FoundIn(Way') = FoundIn(Way) \/ \E p \in Plain :
           /\ p \notin FoundIn(Way) /\ (Len(p) = 1 \/ Front(p) \in FoundIn(Way))
           /\ FoundIn(Way') = FoundIn(Way) \cup {p}
    BY <2>2, <2>3, <2>4, <2>5, WaysWithEdge
  <2> QED BY <1>1, <2>1, <2>6 DEF TreeNamed
<1>6. ASSUME NEW path \in Paths, fs_mkdir(path)
      PROVE  /\ TreeNamed'
             /\ \/ Found' = Found
                \/ \E p \in Plain : /\ p \notin Found /\ (Len(p) = 1 \/ Front(p) \in Found)
                                    /\ Found' = Found \cup {p}
  <2>1. Parent(path) \in Known /\ Last(path) \in Names
    BY <1>6, ParentIsKnown, PathsAreSequences DEF fs_mkdir, TreeNamed
  <2> QED BY <1>5, <1>6, <2>1 DEF fs_mkdir
<1>7. ASSUME NEW path \in Paths, fs_open_create(path)
      PROVE  /\ TreeNamed'
             /\ \/ Found' = Found
                \/ \E p \in Plain : /\ p \notin Found /\ (Len(p) = 1 \/ Front(p) \in Found)
                                    /\ Found' = Found \cup {p}
  <2>1. Parent(path) \in Known /\ Last(path) \in Names
    BY <1>7, ParentIsKnown, PathsAreSequences DEF fs_open_create, TreeNamed
  <2> QED BY <1>5, <1>7, <2>1 DEF fs_open_create
<1>8. ASSUME NEW path \in Paths, fs_unlink(path)
      PROVE  /\ TreeNamed'
             /\ Found' = Found \/ \E p \in Plain : p \in Found /\ Found' = Found \ Naming!Below(p)
  <2> DEFINE gone == lookup(Parent(path), Last(path))
  <2>1. Parent(path) \in Known
    BY <1>8, ParentIsKnown DEF fs_unlink, TreeNamed
  <2>2. gone # None /\ Unlinks(Parent(path), Last(path)) /\ nodes' = nodes
    BY <1>8 DEF fs_unlink, Unlinks
  <2>3. /\ OneParent' /\ Edge(Parent(path), Last(path), gone)
        /\ \A d, a, n : Edge(d, a, n)' <=> Edge(d, a, n) /\ n # gone
    BY <2>1, <2>2, UnlinkedEdge
  <2> HIDE DEF gone
  <2>4. gone \notin {None, DevRoot}
    BY <2>3, TreeIsForest DEF Forest
  <2>5. Ways(Edges, Way) /\ Ways(Edges', Way')
    BY <1>2, <2>3
  <2>6. \A d, a, n : <<d, a, n>> \in Edges' <=> <<d, a, n>> \in Edges /\ n # gone
    BY <1>3, <2>3
  <2> HIDE DEF Edges, Way
  <2>7. FoundIn(Way') = FoundIn(Way) \/ \E p \in Plain :
           p \in FoundIn(Way) /\ FoundIn(Way') = FoundIn(Way) \ Naming!Below(p)
    BY <2>4, <2>5, <2>6, WaysWithoutEdge
  <2> QED BY <1>1, <2>3, <2>7 DEF TreeNamed
<1>9. CASE UNCHANGED <<nodes, children>>
  BY <1>4, <1>9
<1>10. ASSUME NEW path \in Paths, fs_open(path) PROVE UNCHANGED <<nodes, children>>
  BY <1>10 DEF fs_open
<1>11. ASSUME NEW fd \in Fds, fs_close(fd) PROVE UNCHANGED <<nodes, children>>
  BY <1>11 DEF fs_close
<1>12. device_gone \/ UNCHANGED vars => UNCHANGED <<nodes, children>>
  BY DEF device_gone, vars
<1> QED BY <1>6, <1>7, <1>8, <1>9, <1>10, <1>11, <1>12 DEF Next

(* Whatever names there are: the plain paths that resolve are those that   *)
(* were made and not removed, each with its parent, and removing one takes *)
(* away what is below it and nothing else (fs_resolve, fs_mkdir, fs_open   *)
(* with O_CREAT, fs_unlink), through mounts, paths that begin with the     *)
(* letters of one, and whatever is open.                                   *)
THEOREM VfsImplementsNames == Spec => ImplementsNames
<1>1. Init => Naming!NamesInit
  <2> SUFFICES ASSUME Init, NEW p \in Found, Len(p) > 1 PROVE Naming!Front(p) \in Found
    BY DEF Naming!NamesInit, Found
  <2>1. Ways(Edges, Way) /\ p \in Plain /\ Way[p] # None
    BY InitTreeNamed, TreeHasWays DEF Found, Way
  <2>2. Len(p) # 1 /\ Front(p) \in Plain
    BY PlainPaths, <2>1
  <2>3. Way[Front(p)] # None
    BY <2>1, <2>2 DEF Ways, FoundBy
  <2>4. Naming!Front(p) = Front(p)
    BY DEF Naming!Front, Front
  <2> QED BY <2>2, <2>3, <2>4 DEF Found, Way
<1>2. ASSUME TreeNamed, VfsInv', [Next]_vars
      PROVE  TreeNamed' /\ [Naming!NamesNext]_Found
  <2>1. TreeNamed'
    BY <1>2, NextNames
  <2>2. CASE Found' = Found
    BY <2>1, <2>2
  <2>3. ASSUME NEW p \in Plain, p \notin Found, Len(p) = 1 \/ Front(p) \in Found,
               Found' = Found \cup {p}
        PROVE  Naming!NamesNext
    <3>1. Naming!MadePath(Found, Found', p)
      BY <2>3 DEF Naming!MadePath, Naming!Front, Front
    <3>2. Found # Found' /\ p \in Found \cup Found'
      BY <2>3
    <3> QED BY <3>1, <3>2 DEF Naming!NamesNext, Found
  <2>4. ASSUME NEW p \in Plain, p \in Found, Found' = Found \ Naming!Below(p), Found' # Found
        PROVE  Naming!NamesNext
    <3>1. Naming!RemovedPath(Found, Found', p)
      BY <2>4 DEF Naming!RemovedPath
    <3> QED BY <2>4, <3>1 DEF Naming!NamesNext, Found
  <2> QED BY <1>2, <2>1, <2>2, <2>3, <2>4, NextNames
<1>3. TreeNamed /\ VfsInv' /\ [Next]_vars => TreeNamed' /\ [Naming!NamesNext]_Found
  BY <1>2
<1>4. [Naming!NamesNext]_Found <=> [Naming!NamesNext]_{p \in Plain : fs_resolve(p) # None}
  BY DEF Found
<1> QED BY <1>1, <1>3, <1>4, InitTreeNamed, VfsInvariant, PTL DEF Spec, ImplementsNames, Naming!NamesSpec
=============================================================================
