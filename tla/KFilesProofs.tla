---------------------------- MODULE KFilesProofs ----------------------------
(***************************************************************************)
(* Proofs about the kernel's files and descriptors, for every number of    *)
(* processes, descriptors, nodes and children and every page size.         *)
(***************************************************************************)
EXTENDS KFiles, FiniteSetTheorems, SequenceTheorems, TLAPS

Byte  == Data \cup {0}
Child == [name : Names, node : Id]
Node  == [live : BOOLEAN, type : {"none", "file", "dir", "pipe_r", "pipe_w"}, append : BOOLEAN,
          buf : Seq(Byte), length : Nat]
FileSystem == [nodes : [Id -> Node], tmp : Seq(Child), content : [Id -> Seq(Byte)]]

(* A buffer holds the ideal contents, also of a node that is not live. *)
Holds(node, c) == node.buf # <<>> => /\ node.length <= Len(node.buf)
                                     /\ SubSeq(node.buf, 1, node.length) = c

(***************************************************************************)
(* FilesReachable is not inductive: that a file is the first child of its  *)
(* name is kept only because a node in /tmp is allocated, so that no new   *)
(* node is put in its place, and is there once.                            *)
(***************************************************************************)
TreeOK(w) ==
  /\ \A i, j \in 1 .. Len(w.tmp) : w.tmp[i].node = w.tmp[j].node => i = j
  /\ \A i \in 1 .. Len(w.tmp) : w.nodes[w.tmp[i].node].live
  /\ \A i, j \in 1 .. Len(w.tmp) :
       w.nodes[w.tmp[i].node].type = "file" /\ w.tmp[i].name = w.tmp[j].name => i <= j

FilesOK(w) ==
  /\ w \in FileSystem
  /\ \A n \in Id : Holds(w.nodes[n], w.content[n])
  /\ TreeOK(w)

-----------------------------------------------------------------------------
(* A set of numbers that is not empty has a smallest one. *)
LEMMA LeastOf ==
  ASSUME NEW T, T \subseteq Nat, T # {}
  PROVE  \E x \in T : \A y \in T : x <= y
  <1> DEFINE Lt == OpToRel(<, Nat)
  <1>1. IsWellFoundedOn(Lt, Nat)
    BY NatLessThanWellFounded
  <1>2. \A x, y \in Nat : x < y => <<x, y>> \in Lt
    BY DEF OpToRel
  <1> HIDE DEF Lt
  <1>3. PICK x \in T : \A y \in T : ~(<<y, x>> \in Lt)
    BY <1>1, WFMin
  <1>4. ASSUME NEW y \in T PROVE x <= y
    <2>1. x \in Nat /\ y \in Nat
      OBVIOUS
    <2>2. ~(y < x)
      BY <2>1, <1>2, <1>3, Zenon
    <2> QED BY <2>1, <2>2
  <1> QED BY <1>4

LEMMA ChildrenType ==
  ASSUME NEW w \in FileSystem
  PROVE  /\ DOMAIN w.tmp = 1 .. Len(w.tmp) /\ Len(w.tmp) \in Nat /\ w.tmp \in Seq(Child)
         /\ \A i \in 1 .. Len(w.tmp) : w.tmp[i] \in Child /\ w.tmp[i].node \in Id /\ w.tmp[i].name \in Names
  <1>1. w.tmp \in Seq(Child)
    BY DEF FileSystem
  <1>2. DOMAIN w.tmp = 1 .. Len(w.tmp) /\ Len(w.tmp) \in Nat /\ \A i \in 1 .. Len(w.tmp) : w.tmp[i] \in Child
    BY <1>1, LenProperties, ElementOfSeq
  <1> QED BY <1>1, <1>2 DEF Child

(* vfs_find_child finds the first child of the name, if there is one. *)
LEMMA LookupFinds ==
  ASSUME NEW w \in FileSystem, NEW name
  PROVE  \/ /\ Lookup(w, name) = 0
            /\ \A i \in 1 .. Len(w.tmp) : w.tmp[i].name # name
         \/ /\ Lookup(w, name) \in Id
            /\ \E i \in 1 .. Len(w.tmp) : /\ w.tmp[i].name = name /\ Lookup(w, name) = w.tmp[i].node
                                          /\ \A j \in 1 .. Len(w.tmp) : w.tmp[j].name = name => i <= j
  <1> DEFINE hits == {i \in DOMAIN w.tmp : w.tmp[i].name = name}
             first == CHOOSE i \in hits : \A j \in hits : i <= j
  <1>1. Lookup(w, name) = IF hits = {} THEN 0 ELSE w.tmp[first].node
    BY DEF Lookup
  <1>2. DOMAIN w.tmp = 1 .. Len(w.tmp) /\ \A i \in 1 .. Len(w.tmp) : w.tmp[i].node \in Id
    BY ChildrenType
  <1>3. CASE hits = {}
    BY <1>1, <1>2, <1>3
  <1>4. CASE hits # {}
    <2>1. first \in hits /\ \A j \in hits : first <= j
      <3>1. hits \subseteq Nat
        BY <1>2
      <3> HIDE DEF hits
      <3> QED BY <1>4, <3>1, LeastOf
    <2> HIDE DEF first
    <2>2. first \in 1 .. Len(w.tmp) /\ w.tmp[first].name = name
      BY <1>2, <2>1
    <2>3. Lookup(w, name) = w.tmp[first].node
      BY <1>1, <1>4
    <2> QED BY <1>2, <2>1, <2>2, <2>3
  <1> QED BY <1>3, <1>4

LEMMA NewIdIsFree ==
  ASSUME NEW w
  PROVE  NewId(w) = 0 \/ (NewId(w) \in Id /\ ~ w.nodes[NewId(w)].live)
  <1> DEFINE free == {n \in Id : ~ w.nodes[n].live}
             first == CHOOSE n \in free : \A k \in free : n <= k
  <1>1. NewId(w) = IF free = {} THEN 0 ELSE first
    BY DEF NewId
  <1>2. CASE free # {}
    <2>1. free \subseteq Nat
      BY FilesAssumption DEF Id
    <2>2. first \in free
      <3> HIDE DEF free
      <3> QED BY <1>2, <2>1, LeastOf
    <2> HIDE DEF first
    <2> QED BY <1>1, <1>2, <2>2
  <1> QED BY <1>1, <1>2

(* A new node takes the place of one that is not allocated. *)
LEMMA CreateNodeKeeps ==
  ASSUME NEW w, FilesOK(w), NEW type \in {"file", "dir", "pipe_r", "pipe_w"}, NEW luck
  PROVE  LET v == tmpfs_create_node(w, type, luck)
         IN  /\ FilesOK(v) /\ v.tmp = w.tmp
             /\ v # w => /\ NewId(w) \in Id /\ ~ w.nodes[NewId(w)].live
                         /\ v.nodes[NewId(w)].live /\ v.nodes[NewId(w)].type = type
  <1> DEFINE n == NewId(w)
             v == tmpfs_create_node(w, type, luck)
             new == [live |-> TRUE, type |-> type, append |-> FALSE, length |-> 0,
                     buf |-> IF type = "file" /\ luck = "both" THEN Zeros(PAGE_SIZE) ELSE <<>>]
  <1>1. CASE luck = "none" \/ n = 0
    <2>1. v = w
      BY <1>1 DEF tmpfs_create_node
    <2> QED BY <2>1
  <1>2. CASE ~(luck = "none" \/ n = 0)
    <2>1. v = [w EXCEPT !.nodes[n] = new, !.content[n] = <<>>]
      BY <1>2 DEF tmpfs_create_node
    <2>2. n \in Id /\ ~ w.nodes[n].live
      BY <1>2, NewIdIsFree
    <2>3. w \in FileSystem
      BY DEF FilesOK
    <2>4. new \in Node /\ new.live /\ new.type = type /\ Holds(new, <<>>)
      <3>1. Zeros(PAGE_SIZE) \in Seq(Byte)
        BY FilesAssumption DEF Zeros, Byte
      <3>2. SubSeq(new.buf, 1, 0) = <<>>
        BY SubSeqEmpty
      <3>3. Len(new.buf) \in Nat
        BY <3>1, LenProperties
      <3> QED BY <3>1, <3>2, <3>3 DEF Node, Holds
    <2> HIDE DEF new, n, v
    <2>5. /\ v \in FileSystem /\ v.tmp = w.tmp
          /\ v.nodes = [w.nodes EXCEPT ![n] = new]
          /\ v.content = [w.content EXCEPT ![n] = <<>>]
      <3>1. /\ w.nodes \in [Id -> Node] /\ w.tmp \in Seq(Child) /\ w.content \in [Id -> Seq(Byte)]
            /\ w = [nodes |-> w.nodes, tmp |-> w.tmp, content |-> w.content]
        BY <2>3 DEF FileSystem
      <3>2. v = [nodes |-> [w.nodes EXCEPT ![n] = new], tmp |-> w.tmp,
                 content |-> [w.content EXCEPT ![n] = <<>>]]
        BY <2>1, <3>1
      <3>3. [w.nodes EXCEPT ![n] = new] \in [Id -> Node]
        BY <2>4, <3>1
      <3>4. [w.content EXCEPT ![n] = <<>>] \in [Id -> Seq(Byte)]
        <4>1. <<>> \in Seq(Byte)
          OBVIOUS
        <4> QED BY <3>1, <4>1
      <3> QED BY <3>1, <3>2, <3>3, <3>4 DEF FileSystem
    <2>6. v.nodes[n] = new /\ v.content[n] = <<>> /\ \A m \in Id \ {n} : v.nodes[m] = w.nodes[m] /\ v.content[m] = w.content[m]
      BY <2>2, <2>3, <2>5 DEF FileSystem
    <2>7. \A m \in Id : Holds(v.nodes[m], v.content[m])
      BY <2>4, <2>6 DEF FilesOK
    <2>8. \A i \in 1 .. Len(w.tmp) : w.tmp[i].node # n /\ w.tmp[i].node \in Id
      BY <2>2, <2>3, ChildrenType DEF FilesOK, TreeOK
    <2>9. TreeOK(v)
      BY <2>5, <2>6, <2>8 DEF FilesOK, TreeOK
    <2>10. FilesOK(v)
      BY <2>5, <2>7, <2>9 DEF FilesOK
    <2> QED BY <2>2, <2>4, <2>5, <2>6, <2>10 DEF n, v
  <1> QED BY <1>1, <1>2

(***************************************************************************)
(* tmpfs_create puts the new node last: for a file, vfs_open has looked    *)
(* for the name before; mkdir has not, but makes no file.                  *)
(***************************************************************************)
LEMMA CreateKeeps ==
  ASSUME NEW w, FilesOK(w), NEW name \in Names, NEW type \in {"file", "dir"}, NEW luck,
         type = "file" => Lookup(w, name) = 0
  PROVE  FilesOK(tmpfs_create(w, name, type, luck))
  <1> DEFINE n == NewId(w)
             v == tmpfs_create_node(w, type, luck)
             c == [name |-> name, node |-> n]
             u == [v EXCEPT !.tmp = vfs_attach_child(@, c)]
  <1>1. /\ FilesOK(v) /\ v.tmp = w.tmp
        /\ v # w => /\ n \in Id /\ ~ w.nodes[n].live
                    /\ v.nodes[n].live /\ v.nodes[n].type = type
    BY CreateNodeKeeps
  <1>2. tmpfs_create(w, name, type, luck) = IF v = w \/ Len(w.tmp) >= VFS_MAX_CHILDREN THEN v ELSE u
    BY DEF tmpfs_create
  <1>3. w \in FileSystem /\ v \in FileSystem /\ v.tmp \in Seq(Child)
    BY <1>1 DEF FilesOK, FileSystem
  <1>4. ASSUME v # w PROVE FilesOK(u)
    <2>1. n \in Id /\ ~ w.nodes[n].live /\ v.nodes[n].live /\ v.nodes[n].type = type
      BY <1>1, <1>4
    <2>2. c \in Child /\ c.name = name /\ c.node = n
      BY <2>1 DEF Child
    <2>3. u = [v EXCEPT !.tmp = Append(v.tmp, c)]
      BY DEF vfs_attach_child
    <2> HIDE DEF v, n, c, u
    <2> DEFINE len == Len(v.tmp)
    <2>4. /\ len \in Nat
          /\ Append(v.tmp, c) \in Seq(Child) /\ Len(Append(v.tmp, c)) = len + 1
          /\ \A i \in 1 .. len : Append(v.tmp, c)[i] = v.tmp[i]
          /\ Append(v.tmp, c)[len + 1] = c
      BY <1>3, <2>2, AppendProperties, LenProperties
    <2>5. /\ u \in FileSystem /\ u.nodes = v.nodes /\ u.content = v.content /\ u.tmp = Append(v.tmp, c)
      BY <1>3, <2>3, <2>4 DEF FileSystem
    <2>6. \A i \in 1 .. len : v.tmp[i].node # n
      BY <1>1, <1>3, <2>1, ChildrenType DEF FilesOK, TreeOK
    <2>7. type = "file" => \A i \in 1 .. len : v.tmp[i].name # name
      <3> SUFFICES ASSUME type = "file" PROVE \A i \in 1 .. len : v.tmp[i].name # name
        OBVIOUS
      <3>1. Lookup(w, name) = 0 /\ 0 \notin Id
        BY DEF Id
      <3> QED BY <1>1, <1>3, <3>1, LookupFinds
    <2> HIDE DEF len
    <2>8. TreeOK(u)
      <3>1. \A i \in 1 .. len + 1 : i \in 1 .. len \/ i = len + 1
        BY <2>4
      <3>2. /\ \A i \in 1 .. len : u.tmp[i] = v.tmp[i]
            /\ u.tmp[len + 1].node = n /\ u.tmp[len + 1].name = name /\ Len(u.tmp) = len + 1
        BY <2>2, <2>4, <2>5
      <3>3. TreeOK(v) /\ len = Len(v.tmp)
        BY <1>1 DEF FilesOK, len
      <3>4. \A i, j \in 1 .. len + 1 : u.tmp[i].node = u.tmp[j].node => i = j
        <4> SUFFICES ASSUME NEW i \in 1 .. len + 1, NEW j \in 1 .. len + 1, u.tmp[i].node = u.tmp[j].node
                     PROVE  i = j
          OBVIOUS
        <4>1. CASE i \in 1 .. len /\ j \in 1 .. len
          BY <3>2, <3>3, <4>1 DEF TreeOK
        <4>2. CASE i = len + 1 /\ j \in 1 .. len
          BY <2>6, <3>2, <4>2
        <4>3. CASE i \in 1 .. len /\ j = len + 1
          BY <2>6, <3>2, <4>3
        <4> QED BY <3>1, <4>1, <4>2, <4>3
      <3>5. \A i \in 1 .. len + 1 : u.nodes[u.tmp[i].node].live
        BY <2>1, <2>5, <3>1, <3>2, <3>3 DEF TreeOK
      <3>6. ASSUME NEW i \in 1 .. len + 1, NEW j \in 1 .. len + 1,
                   u.nodes[u.tmp[i].node].type = "file", u.tmp[i].name = u.tmp[j].name
            PROVE  i <= j
        <4>1. CASE i \in 1 .. len /\ j \in 1 .. len
          BY <2>5, <3>2, <3>3, <3>6, <4>1 DEF TreeOK
        <4>2. CASE i = len + 1 /\ j \in 1 .. len
          BY <2>1, <2>5, <2>7, <3>2, <3>6, <4>2
        <4>3. CASE j = len + 1
          BY <2>4, <4>3
        <4> QED BY <3>1, <4>1, <4>2, <4>3
      <3> QED BY <3>2, <3>4, <3>5, <3>6 DEF TreeOK
    <2> QED BY <1>1, <2>5, <2>8 DEF FilesOK
  <1> HIDE DEF v, u
  <1> QED BY <1>1, <1>2, <1>4

(* vfs_open changes the flags of a node, and creates only a missing file.  *)
LEMMA OpenKeeps ==
  ASSUME NEW w, FilesOK(w), NEW name \in Names, NEW creat \in BOOLEAN, NEW append \in BOOLEAN, NEW luck
  PROVE  FilesOK(vfs_open(w, name, creat, append, luck))
  <1> DEFINE v == IF Lookup(w, name) = 0 /\ creat THEN tmpfs_create(w, name, "file", luck) ELSE w
             n == Lookup(v, name)
             u == [v EXCEPT !.nodes[n].append = append]
  <1>1. vfs_open(w, name, creat, append, luck) = IF n = 0 THEN v ELSE u
    BY DEF vfs_open
  <1>2. FilesOK(v)
    BY CreateKeeps
  <1> HIDE DEF v
  <1>3. ASSUME n # 0 PROVE FilesOK(u)
    <2>1. v \in FileSystem /\ n \in Id
      BY <1>2, <1>3, LookupFinds DEF FilesOK
    <2> HIDE DEF n
    <2> DEFINE new == [v.nodes[n] EXCEPT !.append = append]
    <2>2. v.nodes[n] \in Node /\ v.nodes \in [Id -> Node]
      BY <2>1 DEF FileSystem
    <2>3. /\ new \in Node /\ new.live = v.nodes[n].live /\ new.type = v.nodes[n].type
          /\ new.buf = v.nodes[n].buf /\ new.length = v.nodes[n].length
      BY <2>2 DEF Node
    <2>4. u = [nodes |-> [v.nodes EXCEPT ![n] = new], tmp |-> v.tmp, content |-> v.content]
      <3>1. v = [nodes |-> v.nodes, tmp |-> v.tmp, content |-> v.content]
        BY <2>1 DEF FileSystem
      <3>2. u = [v EXCEPT !.nodes = [v.nodes EXCEPT ![n] = new]]
        BY Zenon
      <3> HIDE DEF u, new
      <3> QED BY <3>1, <3>2
    <2> HIDE DEF u, new
    <2>5. u \in FileSystem /\ u.tmp = v.tmp /\ u.content = v.content /\ u.nodes = [v.nodes EXCEPT ![n] = new]
      BY <2>1, <2>3, <2>4 DEF FileSystem
    <2>6. \A m \in Id : /\ u.nodes[m].live = v.nodes[m].live /\ u.nodes[m].type = v.nodes[m].type
                        /\ u.nodes[m].buf = v.nodes[m].buf /\ u.nodes[m].length = v.nodes[m].length
      BY <2>1, <2>2, <2>3, <2>5
    <2>7. \A m \in Id : Holds(u.nodes[m], u.content[m])
      BY <1>2, <2>5, <2>6, Zenon DEF FilesOK, Holds
    <2>8. \A i \in 1 .. Len(v.tmp) : v.tmp[i].node \in Id
      BY <2>1, ChildrenType
    <2>9. TreeOK(u)
      BY <1>2, <2>5, <2>6, <2>8 DEF FilesOK, TreeOK
    <2> QED BY <2>5, <2>7, <2>9 DEF FilesOK
  <1> HIDE DEF u, n
  <1> QED BY <1>1, <1>2, <1>3

(* A buffer that grows keeps its first bytes and has zeros behind them. *)
LEMMA GrownHolds ==
  ASSUME NEW node \in Node, node.length <= Len(node.buf), NEW needed \in Nat, needed > node.length
  PROVE  LET g == Grown(node, needed)
         IN  /\ g \in Seq(Byte) /\ needed <= Len(g)
             /\ \A i \in 1 .. needed : g[i] = IF i <= node.length THEN node.buf[i] ELSE 0
  <1> DEFINE old == SubSeq(node.buf, 1, node.length)
             z == PageUp(needed) - node.length
  <1>1. node.length \in Nat /\ node.buf \in Seq(Byte) /\ Len(node.buf) \in Nat
        /\ \A i \in 1 .. Len(node.buf) : node.buf[i] \in Byte
    BY LenProperties, ElementOfSeq DEF Node
  <1>2. /\ old \in Seq(Byte) /\ Len(old) = node.length
        /\ \A i \in 1 .. node.length : old[i] = node.buf[i]
    <2>1. \A i \in 1 .. node.length : node.buf[i] \in Byte
      BY <1>1
    <2>2. /\ old \in Seq(Byte) /\ Len(old) = IF 1 <= node.length THEN node.length - 1 + 1 ELSE 0
          /\ \A i \in 1 .. node.length - 1 + 1 : old[i] = node.buf[1 + i - 1]
      BY <1>1, <2>1, SubSeqProperties
    <2> HIDE DEF old
    <2> QED BY <1>1, <2>2
  <1>3. PageUp(needed) \in Nat /\ PageUp(needed) >= needed
    <2> DEFINE a == needed + PAGE_SIZE - 1
               q == a \div PAGE_SIZE
    <2>1. a \in Nat /\ PAGE_SIZE \in Nat \ {0}
      BY FilesAssumption
    <2>2. PageUp(needed) = q * PAGE_SIZE
      BY DEF PageUp
    <2> HIDE DEF a
    <2>3. q \in Nat /\ a = PAGE_SIZE * q + (a % PAGE_SIZE) /\ a % PAGE_SIZE \in 0 .. PAGE_SIZE - 1
      BY <2>1
    <2> HIDE DEF q
    <2>4. q * PAGE_SIZE = PAGE_SIZE * q /\ q * PAGE_SIZE \in Nat
      BY <2>1, <2>3
    <2> QED BY <2>1, <2>2, <2>3, <2>4 DEF a
  <1>4. z \in Nat /\ z >= needed - node.length
    BY <1>1, <1>3
  <1> HIDE DEF old, z
  <1> DEFINE t == Zeros(z)
  <1>5. t \in Seq(Byte) /\ Len(t) = z /\ \A i \in 1 .. z : t[i] = 0
    BY <1>4 DEF Zeros, Byte
  <1>6. Grown(node, needed) = old \o t
    BY DEF Grown, old, z
  <1> HIDE DEF t
  <1>7. /\ old \o t \in Seq(Byte) /\ Len(old \o t) = Len(old) + Len(t)
        /\ \A i \in 1 .. Len(old) + Len(t) : (old \o t)[i] = IF i <= Len(old) THEN old[i] ELSE t[i - Len(old)]
    <2>1. old \in Seq(Byte) /\ t \in Seq(Byte)
      BY <1>2, <1>5
    <2> QED BY <2>1, ConcatProperties
  <1> DEFINE g == old \o t
  <1> HIDE DEF g
  <1>8. g \in Seq(Byte) /\ needed <= Len(g)
    BY <1>1, <1>2, <1>4, <1>5, <1>7 DEF g
  <1>9. ASSUME NEW i \in 1 .. needed PROVE g[i] = IF i <= node.length THEN node.buf[i] ELSE 0
    <2>1. CASE i <= node.length
      BY <1>1, <1>2, <1>4, <1>5, <1>7, <2>1 DEF g
    <2>2. CASE i > node.length
      <3>1. i - node.length \in 1 .. z
        BY <1>1, <1>4, <2>2
      <3>2. g[i] = t[i - node.length]
        BY <1>1, <1>2, <1>4, <1>5, <1>7, <2>2 DEF g
      <3> QED BY <1>1, <1>5, <2>2, <3>1, <3>2
    <2>3. i <= node.length \/ i > node.length
      BY <1>1
    <2> QED BY <2>1, <2>2, <2>3, Zenon
  <1> QED BY <1>6, <1>8, <1>9 DEF g

(* What vfs_write makes of the buffer, the length and the ideal contents.  *)
BufferAfter(node, off, b) ==
  [(IF off + 1 > node.length THEN Grown(node, off + 1) ELSE node.buf) EXCEPT ![off + 1] = b]
LengthAfter(node, off) == IF off + 1 > node.length THEN off + 1 ELSE node.length
ContentAfter(c, off, b) ==
  [i \in 1 .. (IF off + 1 > Len(c) THEN off + 1 ELSE Len(c)) |->
     IF i = off + 1 THEN b ELSE IF i <= Len(c) THEN c[i] ELSE 0]

(* One byte is written: the buffer and the ideal contents change alike.    *)
LEMMA WriteHolds ==
  ASSUME NEW node \in Node, NEW c \in Seq(Byte), Holds(node, c), node.buf # <<>>,
         NEW off \in Nat, NEW b \in Byte
  PROVE  /\ BufferAfter(node, off, b) \in Seq(Byte) /\ ContentAfter(c, off, b) \in Seq(Byte)
         /\ LengthAfter(node, off) \in Nat
         /\ LengthAfter(node, off) <= Len(BufferAfter(node, off, b))
         /\ SubSeq(BufferAfter(node, off, b), 1, LengthAfter(node, off)) = ContentAfter(c, off, b)
  <1> DEFINE buf == IF off + 1 > node.length THEN Grown(node, off + 1) ELSE node.buf
             len == IF off + 1 > node.length THEN off + 1 ELSE node.length
             d   == [i \in 1 .. (IF off + 1 > Len(c) THEN off + 1 ELSE Len(c)) |->
                       IF i = off + 1 THEN b ELSE IF i <= Len(c) THEN c[i] ELSE 0]
             e   == [buf EXCEPT ![off + 1] = b]
  <1>1. /\ node.length \in Nat /\ node.buf \in Seq(Byte) /\ Len(node.buf) \in Nat
        /\ node.length <= Len(node.buf) /\ \A i \in 1 .. Len(node.buf) : node.buf[i] \in Byte
    BY LenProperties, ElementOfSeq DEF Node, Holds
  <1>2. Len(c) = node.length /\ \A i \in 1 .. node.length : c[i] = node.buf[i]
    <2>1. \A i \in 1 .. node.length : node.buf[i] \in Byte
      BY <1>1
    <2>2. /\ Len(SubSeq(node.buf, 1, node.length)) = IF 1 <= node.length THEN node.length - 1 + 1 ELSE 0
          /\ \A i \in 1 .. node.length - 1 + 1 : SubSeq(node.buf, 1, node.length)[i] = node.buf[1 + i - 1]
      BY <1>1, <2>1, SubSeqProperties
    <2>3. c = SubSeq(node.buf, 1, node.length)
      BY DEF Holds
    <2> QED BY <1>1, <2>2, <2>3
  <1>3. len \in Nat /\ off + 1 \in 1 .. len /\ node.length <= len
    BY <1>1
  <1>4. /\ buf \in Seq(Byte) /\ Len(buf) \in Nat /\ len <= Len(buf)
        /\ \A i \in 1 .. len : buf[i] = IF i <= node.length THEN node.buf[i] ELSE 0
    <2>1. CASE off + 1 > node.length
      <3>1. buf = Grown(node, off + 1) /\ len = off + 1
        BY <2>1
      <3> HIDE DEF buf, len
      <3>2. buf \in Seq(Byte) /\ len <= Len(buf) /\ \A i \in 1 .. len : buf[i] = IF i <= node.length THEN node.buf[i] ELSE 0
        BY <1>1, <2>1, <3>1, GrownHolds
      <3> QED BY <3>2, LenProperties
    <2>2. CASE ~(off + 1 > node.length)
      BY <1>1, <2>2
    <2> QED BY <2>1, <2>2
  <1>5. d = [i \in 1 .. len |-> IF i = off + 1 THEN b ELSE IF i <= Len(c) THEN c[i] ELSE 0]
    BY <1>2
  <1> HIDE DEF buf, len, d
  <1>6. e \in Seq(Byte) /\ Len(e) = Len(buf) /\ \A j \in 1 .. Len(buf) : e[j] = IF j = off + 1 THEN b ELSE buf[j]
    <2>1. off + 1 \in 1 .. Len(buf)
      BY <1>3, <1>4
    <2> QED BY <1>4, <2>1, ExceptSeq
  <1> HIDE DEF e
  <1>7. d \in Seq(Byte) /\ Len(d) = len
    <2>1. \A i \in 1 .. len : i <= Len(c) => c[i] \in Byte
      BY <1>1, <1>2, ElementOfSeq
    <2> QED BY <1>1, <1>3, <1>5, <2>1 DEF Byte
  <1>8. \A i \in 1 .. len : d[i] = e[i]
    <2> SUFFICES ASSUME NEW i \in 1 .. len PROVE d[i] = e[i]
      OBVIOUS
    <2>1. d[i] = IF i = off + 1 THEN b ELSE IF i <= Len(c) THEN c[i] ELSE 0
      BY <1>5
    <2>2. i \in 1 .. Len(buf) /\ i \in Nat /\ i >= 1
      BY <1>3, <1>4
    <2>3. e[i] = IF i = off + 1 THEN b ELSE buf[i]
      BY <1>6, <2>2
    <2>4. buf[i] = IF i <= node.length THEN node.buf[i] ELSE 0
      BY <1>4
    <2>5. i <= node.length => c[i] = node.buf[i]
      BY <1>1, <1>2, <2>2
    <2> QED BY <1>2, <2>1, <2>3, <2>4, <2>5
  <1>9. SubSeq(e, 1, len) = d
    <2>1. \A i \in 1 .. len : e[i] \in Byte
      BY <1>3, <1>4, <1>6, ElementOfSeq
    <2>2. /\ SubSeq(e, 1, len) \in Seq(Byte)
          /\ Len(SubSeq(e, 1, len)) = IF 1 <= len THEN len - 1 + 1 ELSE 0
          /\ \A i \in 1 .. len - 1 + 1 : SubSeq(e, 1, len)[i] = e[1 + i - 1]
      BY <1>3, <2>1, SubSeqProperties
    <2> DEFINE u == SubSeq(e, 1, len)
    <2> HIDE DEF u
    <2>3. u \in Seq(Byte) /\ Len(u) = len /\ \A i \in 1 .. len : u[i] = e[i]
      BY <1>3, <2>2 DEF u
    <2>4. u = d
      BY <1>7, <1>8, <2>3, SeqEqual
    <2> QED BY <2>4 DEF u
  <1>10. BufferAfter(node, off, b) = e /\ LengthAfter(node, off) = len /\ ContentAfter(c, off, b) = d
    BY DEF BufferAfter, LengthAfter, ContentAfter, buf, len, d, e
  <1> QED BY <1>3, <1>4, <1>6, <1>7, <1>9, <1>10

(* vfs_write changes the buffer of a node and its contents, nothing else.  *)
LEMMA WriteKeeps ==
  ASSUME NEW w, FilesOK(w), NEW n \in Id, NEW off \in Nat, NEW b \in Byte
  PROVE  FilesOK(vfs_write(w, n, off, b))
  <1> DEFINE node == w.nodes[n]
             c    == w.content[n]
             e    == BufferAfter(node, off, b)
             len  == LengthAfter(node, off)
             d    == ContentAfter(c, off, b)
             new  == [node EXCEPT !.buf = e, !.length = len]
             v    == [nodes |-> [w.nodes EXCEPT ![n] = new], tmp |-> w.tmp,
                      content |-> [w.content EXCEPT ![n] = d]]
  <1>1. /\ w \in FileSystem /\ w.nodes \in [Id -> Node] /\ w.content \in [Id -> Seq(Byte)]
        /\ w = [nodes |-> w.nodes, tmp |-> w.tmp, content |-> w.content]
    BY DEF FilesOK, FileSystem
  <1>2. node \in Node /\ c \in Seq(Byte) /\ Holds(node, c)
    BY <1>1 DEF FilesOK
  <1>3. CASE node.type # "file" \/ node.buf = <<>>
    BY <1>3 DEF vfs_write
  <1>4. CASE ~(node.type # "file" \/ node.buf = <<>>)
    <2>1. /\ e \in Seq(Byte) /\ d \in Seq(Byte) /\ len \in Nat
          /\ len <= Len(e) /\ SubSeq(e, 1, len) = d
      BY <1>2, <1>4, WriteHolds
    <2>2. vfs_write(w, n, off, b) =
             [w EXCEPT !.nodes[n].buf = e,
                       !.nodes[n].length = IF off + 1 > node.length THEN off + 1 ELSE @,
                       !.content[n] = ContentAfter(@, off, b)]
      BY <1>4, Zenon DEF vfs_write, BufferAfter, ContentAfter
    <2>3. vfs_write(w, n, off, b) = v
      <3> HIDE DEF e
      <3>1. (IF off + 1 > node.length THEN off + 1 ELSE node.length) = len
        BY DEF LengthAfter
      <3> HIDE DEF len
      <3>2. [w EXCEPT !.nodes[n].buf = e].nodes[n].length = node.length
        BY <1>1, <1>2 DEF Node
      <3>3. [w EXCEPT !.nodes[n].buf = e, !.nodes[n].length = len] =
              [w EXCEPT !.nodes = [w.nodes EXCEPT ![n] = new]]
        BY <1>1, <1>2 DEF Node
      <3>4. [w EXCEPT !.nodes[n].buf = e, !.nodes[n].length = len].content[n] = c
        BY <1>1
      <3>5. vfs_write(w, n, off, b) = [w EXCEPT !.nodes[n].buf = e, !.nodes[n].length = len, !.content[n] = d]
        BY <2>2, <3>1, <3>2, <3>4
      <3>6. [w EXCEPT !.nodes[n].buf = e, !.nodes[n].length = len, !.content[n] = d] =
              [w EXCEPT !.nodes = [w.nodes EXCEPT ![n] = new], !.content[n] = d]
        BY <3>3
      <3> HIDE DEF new
      <3> QED BY <1>1, <3>5, <3>6
    <2> HIDE DEF e, d, len
    <2>4. new \in Node /\ new.live = node.live /\ new.type = node.type /\ Holds(new, d)
      BY <1>2, <2>1 DEF Node, Holds
    <2> HIDE DEF new
    <2>5. v \in FileSystem
      BY <1>1, <2>1, <2>4 DEF FileSystem
    <2>6. \A m \in Id : Holds(v.nodes[m], v.content[m])
      BY <1>1, <2>4 DEF FilesOK
    <2>7. \A m \in Id : v.nodes[m].live = w.nodes[m].live /\ v.nodes[m].type = w.nodes[m].type
      BY <1>1, <2>4
    <2>8. v.tmp = w.tmp
      OBVIOUS
    <2> HIDE DEF v, node, c
    <2>9. \A i \in 1 .. Len(w.tmp) : w.tmp[i].node \in Id
      BY <1>1, ChildrenType
    <2>10. TreeOK(v)
      <3>1. TreeOK(w)
        BY DEF FilesOK
      <3> QED BY <2>7, <2>8, <2>9, <3>1 DEF TreeOK
    <2> QED BY <2>3, <2>5, <2>6, <2>10 DEF FilesOK
  <1> QED BY <1>3, <1>4

(* RemoveAt takes one element out and moves those behind it. *)
LEMMA RemoveAtProperties ==
  ASSUME NEW S, NEW s \in Seq(S), NEW i \in 1 .. Len(s)
  PROVE  /\ RemoveAt(s, i) \in Seq(S)
         /\ Len(RemoveAt(s, i)) = Len(s) - 1
         /\ \A k \in 1 .. Len(s) - 1 : RemoveAt(s, i)[k] = IF k < i THEN s[k] ELSE s[k + 1]
  <1> DEFINE a == SubSeq(s, 1, i - 1)
             b == SubSeq(s, i + 1, Len(s))
  <1>1. /\ a \in Seq(S) /\ Len(a) = i - 1
        /\ \A k \in 1 .. i - 1 : a[k] = s[k]
    BY SubSeqProperties, ElementOfSeq
  <1>2. /\ b \in Seq(S) /\ Len(b) = Len(s) - i
        /\ \A k \in 1 .. Len(s) - i : b[k] = s[k + i]
    BY SubSeqProperties, ElementOfSeq
  <1>3. RemoveAt(s, i) = a \o b
    BY DEF RemoveAt
  <1> HIDE DEF a, b
  <1>0. Len(s) \in Nat
    BY LenProperties
  <1>4. /\ a \o b \in Seq(S) /\ Len(a \o b) = Len(a) + Len(b)
        /\ \A k \in 1 .. Len(a) + Len(b) : (a \o b)[k] = IF k <= Len(a) THEN a[k] ELSE b[k - Len(a)]
    BY <1>1, <1>2, ConcatProperties
  <1>5. Len(a) + Len(b) = Len(s) - 1
    BY <1>0, <1>1, <1>2
  <1>6. ASSUME NEW k \in 1 .. Len(s) - 1 PROVE (a \o b)[k] = IF k < i THEN s[k] ELSE s[k + 1]
    <2>1. CASE k < i
      BY <1>0, <1>1, <1>4, <1>5, <2>1
    <2>2. CASE k >= i
      <3>1. (a \o b)[k] = b[k - (i - 1)]
        BY <1>0, <1>1, <1>4, <1>5, <2>2
      <3>2. PICK j \in 1 .. Len(s) - i : j = k - (i - 1) /\ j + i = k + 1
        BY <1>0, <2>2
      <3>3. b[j] = s[j + i]
        BY <1>2
      <3>4. (a \o b)[k] = s[k + 1]
        BY <3>1, <3>2, <3>3
      <3> QED BY <1>0, <2>2, <3>4
    <2>3. k < i \/ k >= i
      BY <1>0
    <2> QED BY <2>1, <2>2, <2>3, Zenon
  <1> QED BY <1>3, <1>4, <1>5, <1>6

(***************************************************************************)
(* tmpfs_unlink frees the node of a child and takes that child out: no     *)
(* other child has the node, and the others keep their order.              *)
(***************************************************************************)
LEMMA UnlinkKeeps ==
  ASSUME NEW w, FilesOK(w), NEW i \in 1 .. Len(w.tmp)
  PROVE  FilesOK([nodes   |-> [w.nodes EXCEPT ![w.tmp[i].node] = NoNode],
                  tmp     |-> RemoveAt(w.tmp, i),
                  content |-> [w.content EXCEPT ![w.tmp[i].node] = <<>>]])
  <1> DEFINE n == w.tmp[i].node
             t == RemoveAt(w.tmp, i)
             v == [nodes |-> [w.nodes EXCEPT ![n] = NoNode], tmp |-> t,
                   content |-> [w.content EXCEPT ![n] = <<>>]]
             old(k) == IF k < i THEN k ELSE k + 1
  <1>1. /\ w \in FileSystem /\ w.nodes \in [Id -> Node] /\ w.content \in [Id -> Seq(Byte)]
        /\ w.tmp \in Seq(Child) /\ Len(w.tmp) \in Nat /\ n \in Id
        /\ \A k \in 1 .. Len(w.tmp) : w.tmp[k].node \in Id
    BY ChildrenType DEF FilesOK, FileSystem
  <1>2. /\ t \in Seq(Child) /\ Len(t) = Len(w.tmp) - 1
        /\ \A k \in 1 .. Len(w.tmp) - 1 : t[k] = IF k < i THEN w.tmp[k] ELSE w.tmp[k + 1]
    BY <1>1, RemoveAtProperties
  <1>3. /\ \A k \in 1 .. Len(t) : old(k) \in 1 .. Len(w.tmp) /\ old(k) # i /\ t[k] = w.tmp[old(k)]
        /\ \A j, k \in 1 .. Len(t) : old(j) = old(k) => j = k
        /\ \A j, k \in 1 .. Len(t) : old(j) <= old(k) => j <= k
    BY <1>1, <1>2
  <1>4. NoNode \in Node /\ Holds(NoNode, <<>>) /\ <<>> \in Seq(Byte)
    BY DEF NoNode, Node, Holds
  <1>5. v \in FileSystem
    <2> HIDE DEF t, n
    <2> QED BY <1>1, <1>2, <1>4 DEF FileSystem
  <1>6. \A m \in Id : Holds(v.nodes[m], v.content[m])
    <2> HIDE DEF t, n
    <2> QED BY <1>1, <1>4 DEF FilesOK
  <1>7. \A m \in Id \ {n} : v.nodes[m] = w.nodes[m]
    BY <1>1
  <1>8. v.tmp = t
    OBVIOUS
  <1> HIDE DEF v, t, old
  <1>9. TreeOK(w)
    BY DEF FilesOK
  <1>10. \A k \in 1 .. Len(t) : v.nodes[t[k].node] = w.nodes[t[k].node]
    <2> SUFFICES ASSUME NEW k \in 1 .. Len(t) PROVE v.nodes[t[k].node] = w.nodes[t[k].node]
      OBVIOUS
    <2>1. old(k) \in 1 .. Len(w.tmp) /\ old(k) # i /\ t[k] = w.tmp[old(k)]
      BY <1>3
    <2>2. w.tmp[old(k)].node \in Id \ {n}
      BY <1>1, <1>9, <2>1 DEF TreeOK
    <2> QED BY <1>7, <2>1, <2>2
  <1>11. TreeOK(v)
    <2>1. ASSUME NEW j \in 1 .. Len(t), NEW k \in 1 .. Len(t), t[j].node = t[k].node PROVE j = k
      <3>1. PICK a, b \in 1 .. Len(w.tmp) : a = old(j) /\ b = old(k) /\ t[j] = w.tmp[a] /\ t[k] = w.tmp[b]
        BY <1>3
      <3>2. a = b
        BY <1>9, <2>1, <3>1 DEF TreeOK
      <3> QED BY <1>3, <3>1, <3>2
    <2>2. ASSUME NEW k \in 1 .. Len(t) PROVE v.nodes[t[k].node].live
      BY <1>3, <1>9, <1>10 DEF TreeOK
    <2>3. ASSUME NEW j \in 1 .. Len(t), NEW k \in 1 .. Len(t),
                 v.nodes[t[j].node].type = "file", t[j].name = t[k].name
          PROVE  j <= k
      <3>1. PICK a, b \in 1 .. Len(w.tmp) : a = old(j) /\ b = old(k) /\ t[j] = w.tmp[a] /\ t[k] = w.tmp[b]
        BY <1>3
      <3>2. a <= b
        BY <1>9, <1>10, <2>3, <3>1 DEF TreeOK
      <3> QED BY <1>3, <3>1, <3>2
    <2> QED BY <1>8, <2>1, <2>2, <2>3 DEF TreeOK
  <1>12. FilesOK(v)
    BY <1>5, <1>6, <1>11 DEF FilesOK
  <1> QED BY <1>12 DEF v, t

(* The open of cmd_write and of a redirection is one or three opens. *)
LEMMA RetryKeeps ==
  ASSUME NEW w, FilesOK(w), NEW name \in Names, NEW append \in BOOLEAN, NEW luck
  PROVE  FilesOK(OpenRetry(w, name, append, luck))
  <1> DEFINE v == vfs_open(w, name, TRUE, append, luck)
             u == vfs_open(v, name, TRUE, FALSE, luck)
             t == vfs_open(u, name, FALSE, append, luck)
  <1>1. FilesOK(v)
    BY OpenKeeps
  <1> HIDE DEF v
  <1>2. FilesOK(u)
    BY <1>1, OpenKeeps
  <1> HIDE DEF u
  <1>3. FilesOK(t)
    BY <1>2, OpenKeeps
  <1>4. OpenRetry(w, name, append, luck) = v \/ OpenRetry(w, name, append, luck) = t
    BY DEF OpenRetry, v, u, t
  <1> QED BY <1>1, <1>3, <1>4

-----------------------------------------------------------------------------
(***************************************************************************)
(* Descriptors.  NoFdLeak needs that every entry in use names a node and   *)
(* every descriptor an entry or none; what makes it inductive is counting: *)
(* each entry in use has a descriptor of its own, so a process with two    *)
(* free slots finds two free entries.                                      *)
(***************************************************************************)
FdEntry == [in_use : BOOLEAN, node : 0 .. MaxNodes, offset : Nat]

FdTypeOK ==
  /\ global_fd_table \in [Fd -> FdEntry]
  /\ \A f \in Fd : global_fd_table[f].in_use => global_fd_table[f].node # 0
  /\ fd_table \in [Proc -> [Slot -> Fd \cup {-1}]]
  /\ alive \subseteq Proc
  /\ redir_file \in [node : 0 .. MaxNodes, offset : Nat]

LEMMA LeastIn ==
  ASSUME NEW T, T \subseteq Nat, T # {}
  PROVE  Least(T) \in T /\ \A y \in T : Least(T) <= y
  BY LeastOf DEF Least

LEMMA LeastUnique ==
  ASSUME NEW T, T \subseteq Nat, NEW x \in T, \A y \in T : x <= y
  PROVE  Least(T) = x
  <1>1. Least(T) \in T /\ Least(T) <= x /\ x <= Least(T)
    BY LeastIn
  <1>2. Least(T) \in Nat /\ x \in Nat
    BY <1>1
  <1> QED BY <1>1, <1>2

LEMMA FdFinite ==
  /\ Fd \subseteq Nat /\ Slot \subseteq Nat /\ 0 \in Fd /\ -1 \notin Fd
  /\ IsFiniteSet(Fd) /\ IsFiniteSet(Slot) /\ IsFiniteSet(Proc)
  /\ Cardinality(Fd) = MAX_PROCESSES * VFS_MAX_FDS
  /\ Cardinality(Proc \X Slot) = MAX_PROCESSES * VFS_MAX_FDS /\ IsFiniteSet(Proc \X Slot)
  /\ MAX_PROCESSES * VFS_MAX_FDS \in Nat
  <1> DEFINE m == MAX_PROCESSES * VFS_MAX_FDS
  <1>1. MAX_PROCESSES \in Nat \ {0} /\ VFS_MAX_FDS \in Nat \ {0} /\ m \in Nat \ {0}
    BY FilesAssumption
  <1> HIDE DEF m
  <1>2. IsFiniteSet(Proc) /\ Cardinality(Proc) = MAX_PROCESSES
    BY <1>1, FS_Interval DEF Proc
  <1>3. IsFiniteSet(Slot) /\ Cardinality(Slot) = VFS_MAX_FDS
    BY <1>1, FS_Interval DEF Slot
  <1>4. Fd = 0 .. m - 1
    BY DEF Fd, m
  <1>5. IsFiniteSet(Fd) /\ Cardinality(Fd) = m
    BY <1>1, <1>4, FS_Interval
  <1>6. IsFiniteSet(Proc \X Slot) /\ Cardinality(Proc \X Slot) = Cardinality(Proc) * Cardinality(Slot)
    BY <1>2, <1>3, FS_Product
  <1>7. Fd \subseteq Nat /\ Slot \subseteq Nat /\ 0 \in Fd /\ -1 \notin Fd
    BY <1>1, <1>4 DEF Slot
  <1>8. Cardinality(Proc \X Slot) = m
    BY <1>2, <1>3, <1>6 DEF m
  <1> QED BY <1>1, <1>2, <1>3, <1>5, <1>6, <1>7, <1>8 DEF m

(* The two smallest elements of a set: what sys_pipe takes. *)
LEMMA TwoSmallest ==
  ASSUME NEW T, T \subseteq Nat, IsFiniteSet(T), Cardinality(T) >= 2
  PROVE  LET a == Least(T)
             b == Least(T \ {a})
             taken == {f \in T : Cardinality({g \in T : g < f}) < 2}
         IN  /\ a \in T /\ b \in T /\ a # b /\ taken = {a, b} /\ Cardinality(taken) = 2
             /\ Least(taken) = a /\ Least(taken \ {a}) = b
  <1> DEFINE a == Least(T)
             b == Least(T \ {a})
             below(f) == {g \in T : g < f}
             taken == {f \in T : Cardinality(below(f)) < 2}
  <1>0. \A y \in T : y \in Nat
    OBVIOUS
  <1>1. a \in T /\ \A y \in T : a <= y
    <2>1. T # {}
      BY FS_EmptySet
    <2> QED BY <2>1, LeastIn
  <1>2. b \in T /\ b # a /\ \A y \in T \ {a} : b <= y
    <2>1. T \ {a} # {}
      <3>1. Cardinality({a}) = 1
        BY FS_Singleton
      <3> HIDE DEF a
      <3> QED BY <1>1, <3>1
    <2>2. b \in T \ {a} /\ \A y \in T \ {a} : b <= y
      BY <2>1, LeastIn
    <2> QED BY <2>2
  <1> HIDE DEF a, b
  <1>3. Cardinality({a, b}) = 2 /\ IsFiniteSet({a, b})
    <2>1. IsFiniteSet({a}) /\ Cardinality({a}) = 1
      BY FS_Singleton
    <2>2. {a, b} = {a} \cup {b}
      OBVIOUS
    <2> QED BY <1>2, <2>1, <2>2, FS_AddElement
  <1>4. a \in Nat /\ b \in Nat /\ a < b
    BY <1>1, <1>2
  <1>5. Cardinality(below(a)) = 0
    <2>1. below(a) = {}
      <3>1. \A g \in T : ~(g < a)
        BY <1>0, <1>1, <1>4
      <3> QED BY <3>1
    <2> QED BY <2>1, FS_EmptySet
  <1>6. Cardinality(below(b)) = 1
    <2>1. below(b) = {a}
      <3>1. \A g \in T : g < b <=> g = a
        BY <1>0, <1>1, <1>2, <1>4
      <3> QED BY <1>1, <3>1
    <2> QED BY <2>1, FS_Singleton
  <1>7. ASSUME NEW f \in T \ {a, b} PROVE ~(Cardinality(below(f)) < 2)
    <2>1. {a, b} \subseteq below(f)
      BY <1>1, <1>2, <1>4
    <2>2. IsFiniteSet(below(f))
      BY FS_Subset
    <2>3. Cardinality({a, b}) <= Cardinality(below(f)) /\ Cardinality(below(f)) \in Nat
      BY <2>1, <2>2, FS_Subset, FS_CardinalityType
    <2> QED BY <1>3, <2>3
  <1>8. taken = {a, b}
    <2>1. \A f \in T : Cardinality(below(f)) < 2 <=> f \in {a, b}
      <3> HIDE DEF below
      <3> QED BY <1>5, <1>6, <1>7
    <2> QED BY <1>1, <1>2, <2>1, Zenon
  <1>9. Least(taken) = a
    <2>1. {a, b} \subseteq Nat /\ a \in {a, b} /\ \A y \in {a, b} : a <= y
      BY <1>4
    <2> QED BY <1>8, <2>1, LeastUnique
  <1>10. Least(taken \ {a}) = b
    <2>1. taken \ {a} = {b}
      BY <1>2, <1>8
    <2>2. {b} \subseteq Nat /\ b \in {b} /\ \A y \in {b} : b <= y
      BY <1>4
    <2> QED BY <2>1, <2>2, LeastUnique
  <1> QED BY <1>1, <1>2, <1>3, <1>8, <1>9, <1>10 DEF a, b

(* Entries in use and slots that hold a descriptor: as many free entries    *)
(* as free slots of any process.                                           *)
LEMMA TwoFreeEntries ==
  ASSUME FdTypeOK, NoFdLeak, NEW p \in Proc, NEW s \in FreeSlots(p), NEW t \in FreeSlots(p), s # t
  PROVE  IsFiniteSet(FreeFds) /\ Cardinality(FreeFds) >= 2
  <1> DEFINE used  == Fd \ FreeFds
             pairs == Proc \X Slot
             two   == {<<p, s>>, <<p, t>>}
             h     == [f \in used |-> CHOOSE q \in pairs : fd_table[q[1]][q[2]] = f]
  <1>1. s \in Slot /\ t \in Slot /\ fd_table[p][s] = -1 /\ fd_table[p][t] = -1
    BY DEF FreeSlots
  <1>2. ASSUME NEW f \in used PROVE h[f] \in pairs \ two /\ fd_table[h[f][1]][h[f][2]] = f
    <2>1. f \in Fd /\ global_fd_table[f].in_use
      BY DEF FreeFds
    <2>2. PICK r \in alive, u \in Slot : fd_table[r][u] = f
      BY <2>1 DEF NoFdLeak
    <2>3. <<r, u>> \in pairs
      BY <2>2 DEF FdTypeOK
    <2>4. h[f] \in pairs /\ fd_table[h[f][1]][h[f][2]] = f
      <3>1. h[f] = CHOOSE q \in pairs : fd_table[q[1]][q[2]] = f
        OBVIOUS
      <3>2. fd_table[<<r, u>>[1]][<<r, u>>[2]] = f
        BY <2>2
      <3> HIDE DEF pairs, h
      <3> QED BY <2>3, <3>1, <3>2
    <2>5. f # -1
      BY <2>1, FdFinite
    <2>6. h[f] # <<p, s>> /\ h[f] # <<p, t>>
      <3> HIDE DEF h
      <3> QED BY <1>1, <2>4, <2>5
    <2> HIDE DEF h, pairs
    <2> QED BY <2>4, <2>6
  <1>3. h \in Injection(used, pairs \ two)
    <2>1. h \in [used -> pairs \ two]
      <3>1. h = [f \in used |-> h[f]]
        OBVIOUS
      <3> HIDE DEF h, used, pairs, two
      <3> QED BY <1>2, <3>1
    <2>2. \A f, g \in used : h[f] = h[g] => f = g
      <3> HIDE DEF h, used, pairs, two
      <3> QED BY <1>2
    <2> HIDE DEF h, used, pairs, two
    <2> QED BY <2>1, <2>2 DEF Injection, IsInjective
  <1> HIDE DEF h
  <1>4. IsFiniteSet(two) /\ Cardinality(two) = 2
    <2>1. IsFiniteSet({<<p, s>>}) /\ Cardinality({<<p, s>>}) = 1
      BY FS_Singleton
    <2>2. two = {<<p, s>>} \cup {<<p, t>>} /\ <<p, t>> \notin {<<p, s>>}
      OBVIOUS
    <2> HIDE DEF two
    <2>3. Cardinality({<<p, s>>} \cup {<<p, t>>}) = 1 + 1
      BY <2>1, <2>2, FS_AddElement
    <2>4. IsFiniteSet({<<p, s>>} \cup {<<p, t>>})
      BY <2>1, FS_AddElement
    <2> QED BY <2>2, <2>3, <2>4
  <1>5. pairs \cap two = two
    BY <1>1
  <1>6. IsFiniteSet(pairs \ two) /\ Cardinality(pairs \ two) = Cardinality(pairs) - 2
    <2>1. IsFiniteSet(pairs)
      BY FdFinite
    <2> HIDE DEF pairs, two
    <2> QED BY <1>4, <1>5, <2>1, FS_Difference
  <1>7. Cardinality(used) <= Cardinality(pairs) - 2 /\ IsFiniteSet(used)
    <2> HIDE DEF used, pairs, two
    <2> QED BY <1>3, <1>6, FS_Injection
  <1>8. IsFiniteSet(FreeFds) /\ FreeFds = Fd \ used /\ Fd \cap used = used
    <2>1. FreeFds \subseteq Fd
      BY DEF FreeFds
    <2> QED BY <2>1, FdFinite, FS_Subset
  <1>9. Cardinality(FreeFds) = Cardinality(Fd) - Cardinality(used)
    <2>1. Cardinality(Fd \ used) = Cardinality(Fd) - Cardinality(Fd \cap used)
      BY FdFinite, FS_Difference
    <2> HIDE DEF used
    <2> QED BY <1>8, <2>1
  <1>10. Cardinality(used) \in Nat
    BY <1>7, FS_CardinalityType
  <1> HIDE DEF used, pairs
  <1>11. Cardinality(Fd) = Cardinality(pairs) /\ Cardinality(Fd) \in Nat
    BY FdFinite DEF pairs
  <1> QED BY <1>7, <1>8, <1>9, <1>10, <1>11

-----------------------------------------------------------------------------
(* The steps. *)
FilesInv == FilesOK(Files) /\ FdTypeOK /\ NoFdLeak

(* What Store leaves is the file system it was given. *)
LEMMA StoreKeeps ==
  ASSUME NEW w, FilesOK(w), Store(w)
  PROVE  FilesOK(Files')
  <1>1. w = [nodes |-> w.nodes, tmp |-> w.tmp, content |-> w.content]
    BY DEF FilesOK, FileSystem
  <1>2. Files' = w
    BY <1>1 DEF Files, Store
  <1> QED BY <1>2

(***************************************************************************)
(* An entry put into the table at f with a descriptor in a free slot s of  *)
(* p, as sys_open and sys_dup do.                                          *)
(***************************************************************************)
LEMMA EntryAdded ==
  ASSUME FdTypeOK, NoFdLeak, NEW p \in alive, NEW s \in FreeSlots(p), NEW f \in Fd,
         NEW n \in 1 .. MaxNodes, NEW off \in Nat,
         global_fd_table' = [global_fd_table EXCEPT ![f] = Entry(n, off)],
         fd_table' = [fd_table EXCEPT ![p][s] = f],
         UNCHANGED <<alive, redir_file>>
  PROVE  FdTypeOK' /\ NoFdLeak'
  <1>1. p \in Proc /\ s \in Slot /\ fd_table[p][s] = -1 /\ -1 \notin Fd
    BY FdFinite DEF FdTypeOK, FreeSlots
  <1>2. Entry(n, off) \in FdEntry /\ Entry(n, off).node = n /\ n # 0
    BY FilesAssumption DEF Entry, FdEntry
  <1>3. /\ global_fd_table' \in [Fd -> FdEntry] /\ global_fd_table'[f].node # 0
        /\ \A g \in Fd \ {f} : global_fd_table'[g] = global_fd_table[g]
    BY <1>2 DEF FdTypeOK
  <1>4. fd_table' \in [Proc -> [Slot -> Fd \cup {-1}]]
    BY <1>1 DEF FdTypeOK
  <1>5. FdTypeOK'
    BY <1>3, <1>4 DEF FdTypeOK
  <1>6. fd_table'[p][s] = f
    BY <1>1 DEF FdTypeOK
  <1>7. \A q \in Proc, t \in Slot : fd_table[q][t] # -1 => fd_table'[q][t] = fd_table[q][t]
    BY <1>1 DEF FdTypeOK
  <1>8. ASSUME NEW g \in Fd, global_fd_table'[g].in_use
        PROVE  \E q \in alive', t \in Slot : fd_table'[q][t] = g
    <2>1. CASE g = f
      BY <1>1, <1>6, <2>1
    <2>2. CASE g # f
      <3>1. PICK q \in alive, t \in Slot : fd_table[q][t] = g
        BY <1>3, <1>8, <2>2 DEF NoFdLeak
      <3>2. q \in Proc /\ g # -1
        BY <1>1 DEF FdTypeOK
      <3> QED BY <1>7, <3>1, <3>2
    <2> QED BY <2>1, <2>2
  <1> QED BY <1>5, <1>8 DEF NoFdLeak

LEMMA EntryAt ==
  ASSUME FdTypeOK, NEW p \in alive, NEW s \in Slot, fd_table[p][s] >= 0,
         global_fd_table[fd_table[p][s]].in_use
  PROVE  /\ p \in Proc /\ fd_table[p][s] \in Fd
         /\ global_fd_table[fd_table[p][s]] \in FdEntry
         /\ global_fd_table[fd_table[p][s]].node \in Id
         /\ global_fd_table[fd_table[p][s]].offset \in Nat
  <1>1. p \in Proc /\ fd_table[p][s] \in Fd \cup {-1}
    BY DEF FdTypeOK
  <1>2. fd_table[p][s] \in Fd
    BY <1>1
  <1>3. global_fd_table[fd_table[p][s]] \in FdEntry /\ global_fd_table[fd_table[p][s]].node # 0
    BY <1>2 DEF FdTypeOK
  <1> QED BY <1>1, <1>2, <1>3, FilesAssumption DEF FdEntry, Id

(* An entry in use that changes its offset only, as read and write do.      *)
LEMMA OffsetMoved ==
  ASSUME FdTypeOK, NoFdLeak, NEW f \in Fd, NEW off \in Nat,
         global_fd_table' = [global_fd_table EXCEPT ![f].offset = off],
         UNCHANGED <<fd_table, alive, redir_file>>
  PROVE  FdTypeOK' /\ NoFdLeak'
  <1> DEFINE e == [global_fd_table[f] EXCEPT !.offset = off]
  <1>1. /\ e \in FdEntry /\ e.in_use = global_fd_table[f].in_use /\ e.node = global_fd_table[f].node
        /\ global_fd_table' = [global_fd_table EXCEPT ![f] = e]
    BY DEF FdTypeOK, FdEntry
  <1> HIDE DEF e
  <1>2. /\ global_fd_table' \in [Fd -> FdEntry]
        /\ \A g \in Fd : /\ global_fd_table'[g].in_use = global_fd_table[g].in_use
                         /\ global_fd_table'[g].node = global_fd_table[g].node
    BY <1>1 DEF FdTypeOK
  <1>3. FdTypeOK'
    BY <1>2 DEF FdTypeOK
  <1>4. NoFdLeak'
    BY <1>2 DEF NoFdLeak
  <1> QED BY <1>3, <1>4

LEMMA FdUnchanged ==
  ASSUME FdTypeOK, NoFdLeak, UNCHANGED <<global_fd_table, fd_table, alive>>,
         redir_file' \in [node : 0 .. MaxNodes, offset : Nat]
  PROVE  FdTypeOK' /\ NoFdLeak'
  BY DEF FdTypeOK, NoFdLeak

(* The system calls. *)
LEMMA OpenStep ==
  ASSUME FilesInv, NEW p \in Proc, NEW name \in Names, NEW creat \in BOOLEAN, NEW append \in BOOLEAN,
         NEW luck, sys_open(p, name, creat, append, luck)
  PROVE  FilesInv'
  <1> DEFINE w == vfs_open(Files, name, creat, append, luck)
             n == Lookup(w, name)
  <1>1. FilesOK(w)
    BY OpenKeeps DEF FilesInv
  <1>2. Store(w)
    BY DEF sys_open
  <1>3. FilesOK(Files')
    <2> HIDE DEF w
    <2> QED BY <1>1, <1>2, StoreKeeps
  <1>4. w \in FileSystem
    BY <1>1 DEF FilesOK
  <1>5. CASE UNCHANGED <<global_fd_table, fd_table>>
    BY <1>3, <1>5, FdUnchanged DEF FilesInv, sys_open, FdTypeOK
  <1>6. CASE /\ n # 0 /\ FreeSlots(p) # {} /\ FreeFds # {}
             /\ global_fd_table' = [global_fd_table EXCEPT ![Least(FreeFds)] = Entry(n, 0)]
             /\ fd_table' = [fd_table EXCEPT ![p][Least(FreeSlots(p))] = Least(FreeFds)]
    <2>1. n \in 1 .. MaxNodes
      <3> HIDE DEF w
      <3> QED BY <1>4, <1>6, LookupFinds DEF Id
    <2>2. Least(FreeFds) \in Fd /\ Least(FreeSlots(p)) \in FreeSlots(p)
      <3>1. FreeFds \subseteq Nat /\ FreeSlots(p) \subseteq Nat
        BY FdFinite DEF FreeFds, FreeSlots
      <3>2. Least(FreeFds) \in FreeFds /\ Least(FreeSlots(p)) \in FreeSlots(p)
        BY <1>6, <3>1, LeastIn
      <3> QED BY <3>2 DEF FreeFds
    <2>3. p \in alive /\ UNCHANGED <<alive, redir_file>> /\ 0 \in Nat
      BY DEF sys_open
    <2> HIDE DEF n
    <2>4. FdTypeOK' /\ NoFdLeak'
      BY <1>6, <2>1, <2>2, <2>3, EntryAdded DEF FilesInv
    <2> QED BY <1>3, <2>4 DEF FilesInv
  <1> QED BY <1>5, <1>6 DEF sys_open

LEMMA CloseStep ==
  ASSUME FilesInv, NEW p \in Proc, NEW s \in Slot, sys_close(p, s)
  PROVE  FilesInv'
  <1> DEFINE f == fd_table[p][s]
  <1>1. /\ f \in Fd /\ p \in alive /\ -1 \notin Fd
        /\ global_fd_table' = [global_fd_table EXCEPT ![f] = Unused]
        /\ fd_table' = [fd_table EXCEPT ![p][s] = -1]
        /\ UNCHANGED <<nodes, tmp, alive, redir_file, content, stale>>
    BY FdFinite DEF FilesInv, FdTypeOK, sys_close
  <1>2. FdTypeOK /\ NoFdLeak
    BY DEF FilesInv
  <1>3. Unused \in FdEntry /\ ~ Unused.in_use
    BY FilesAssumption DEF Unused, FdEntry
  <1>4. /\ global_fd_table' \in [Fd -> FdEntry] /\ ~ global_fd_table'[f].in_use
        /\ \A g \in Fd \ {f} : global_fd_table'[g] = global_fd_table[g]
    BY <1>1, <1>2, <1>3 DEF FdTypeOK
  <1>5. FdTypeOK'
    <2>1. fd_table' \in [Proc -> [Slot -> Fd \cup {-1}]]
      BY <1>1, <1>2 DEF FdTypeOK
    <2> QED BY <1>1, <1>2, <1>4, <2>1 DEF FdTypeOK
  <1>6. \A q \in Proc, t \in Slot : fd_table[q][t] # f => fd_table'[q][t] = fd_table[q][t]
    BY <1>1, <1>2 DEF FdTypeOK
  <1>7. NoFdLeak'
    <2> SUFFICES ASSUME NEW g \in Fd, global_fd_table'[g].in_use
                 PROVE  \E q \in alive', t \in Slot : fd_table'[q][t] = g
      BY DEF NoFdLeak
    <2>1. g # f /\ global_fd_table[g].in_use
      BY <1>4
    <2>2. PICK q \in alive, t \in Slot : fd_table[q][t] = g
      BY <1>2, <2>1 DEF NoFdLeak
    <2>3. q \in Proc
      BY <1>2 DEF FdTypeOK
    <2> QED BY <1>1, <1>6, <2>1, <2>2, <2>3
  <1>8. Files' = Files
    BY <1>1 DEF Files
  <1> QED BY <1>5, <1>7, <1>8 DEF FilesInv

LEMMA ReadStep ==
  ASSUME FilesInv, NEW p \in Proc, NEW s \in Slot, sys_read(p, s)
  PROVE  FilesInv'
  <1> DEFINE f == fd_table[p][s]
             e == global_fd_table[f]
             off == e.offset + vfs_read(e.node, e.offset)
  <1>1. f \in Fd /\ e.offset \in Nat
    BY EntryAt DEF FilesInv, sys_read, Use
  <1>2. vfs_read(e.node, e.offset) \in {0, 1}
    BY DEF vfs_read
  <1>3. off \in Nat /\ global_fd_table' = [global_fd_table EXCEPT ![f].offset = off]
    BY <1>1, <1>2 DEF sys_read
  <1> HIDE DEF off
  <1>4. FdTypeOK' /\ NoFdLeak'
    BY <1>1, <1>3, OffsetMoved DEF FilesInv, sys_read
  <1>5. Files' = Files
    BY DEF sys_read, Files
  <1> QED BY <1>4, <1>5 DEF FilesInv

LEMMA WriteStep ==
  ASSUME FilesInv, NEW p \in Proc, NEW s \in Slot, NEW b \in Data, sys_write(p, s, b)
  PROVE  FilesInv'
  <1> DEFINE f == fd_table[p][s]
             e == global_fd_table[f]
             n == nodes[e.node]
             off == IF n.append THEN n.length ELSE e.offset
             w == vfs_write(Files, e.node, off, b)
  <1>1. f \in Fd /\ e.offset \in Nat /\ e.node \in Id
    BY EntryAt DEF FilesInv, sys_write, Use
  <1>2. n.length \in Nat
    BY <1>1 DEF FilesInv, FilesOK, FileSystem, Files, Node
  <1>3. off \in Nat /\ b \in Byte
    BY <1>1, <1>2 DEF Byte
  <1>4. /\ Store(w) /\ global_fd_table' = [global_fd_table EXCEPT ![f].offset = off + 1]
        /\ UNCHANGED <<fd_table, alive, redir_file>>
    BY DEF sys_write
  <1> HIDE DEF off, e
  <1>5. FilesOK(w)
    BY <1>1, <1>3, WriteKeeps DEF FilesInv
  <1>6. FilesOK(Files')
    <2> HIDE DEF w
    <2> QED BY <1>4, <1>5, StoreKeeps
  <1>7. FdTypeOK' /\ NoFdLeak'
    <2>1. off + 1 \in Nat
      BY <1>3
    <2> QED BY <1>1, <1>4, <2>1, OffsetMoved DEF FilesInv
  <1> QED BY <1>6, <1>7 DEF FilesInv

LEMMA DupStep ==
  ASSUME FilesInv, NEW p \in Proc, NEW s \in Slot, sys_dup(p, s)
  PROVE  FilesInv'
  <1> DEFINE f == fd_table[p][s]
             e == global_fd_table[f]
  <1>1. e.offset \in Nat /\ e.node \in 1 .. MaxNodes
    BY EntryAt DEF FilesInv, sys_dup, Id
  <1>2. Least(FreeFds) \in Fd /\ Least(FreeSlots(p)) \in FreeSlots(p)
    <2>1. FreeFds \subseteq Nat /\ FreeSlots(p) \subseteq Nat
      BY FdFinite DEF FreeFds, FreeSlots
    <2>2. Least(FreeFds) \in FreeFds /\ Least(FreeSlots(p)) \in FreeSlots(p)
      BY <2>1, LeastIn DEF sys_dup
    <2> QED BY <2>2 DEF FreeFds
  <1>3. FdTypeOK' /\ NoFdLeak'
    BY <1>1, <1>2, EntryAdded DEF FilesInv, sys_dup, vfs_fd_dup
  <1>4. Files' = Files
    BY DEF sys_dup, Files
  <1> QED BY <1>3, <1>4 DEF FilesInv

(* sys_pipe finds two free entries whenever it has found two free slots.    *)
LEMMA PipeStep ==
  ASSUME FilesInv, NEW p \in Proc, sys_pipe(p)
  PROVE  FilesInv'
  <1> DEFINE r  == NewId(Files)
             w1 == tmpfs_create_node(Files, "pipe_r", "both")
             n  == NewId(w1)
             w2 == tmpfs_create_node(w1, "pipe_w", "both")
             s1 == Least(FreeSlots(p))
             s2 == Least(FreeSlots(p) \ {s1})
             a  == Least(FreeFds)
             b  == Least(FreeFds \ {a})
             taken == {f \in FreeFds : Cardinality({g \in FreeFds : g < f}) < 2}
  <1>1. FilesOK(w1) /\ FilesOK(w2) /\ r \in 0 .. MaxNodes /\ (n # 0 => r # 0) /\ n \in 0 .. MaxNodes
    <2>1. FilesOK(w1)
      BY CreateNodeKeeps DEF FilesInv
    <2>2. FilesOK(w2)
      <3> HIDE DEF w1
      <3> QED BY <2>1, CreateNodeKeeps
    <2>3. \A v : NewId(v) \in 0 .. MaxNodes
      BY NewIdIsFree, FilesAssumption DEF Id
    <2>4. r = 0 => w1 = Files
      BY DEF tmpfs_create_node
    <2>5. n # 0 => r # 0
      BY <2>4
    <2> HIDE DEF w1, w2
    <2> QED BY <2>1, <2>2, <2>3, <2>5
  <1>2. FilesOK(Files')
    <2>1. Store(w2)
      BY DEF sys_pipe
    <2> HIDE DEF w1, w2
    <2> QED BY <1>1, <2>1, StoreKeeps
  <1>3. FdTypeOK /\ NoFdLeak /\ p \in alive /\ UNCHANGED <<alive, redir_file>>
    BY DEF FilesInv, sys_pipe
  <1>4. CASE UNCHANGED <<global_fd_table, fd_table>>
    BY <1>2, <1>3, <1>4, FdUnchanged DEF FilesInv, FdTypeOK
  <1>5. CASE /\ n # 0 /\ Cardinality(FreeSlots(p)) >= 2
             /\ global_fd_table' = [f \in Fd |-> IF f \notin taken THEN global_fd_table[f]
                                                 ELSE IF f = Least(taken) THEN Entry(r, 0)
                                                 ELSE Entry(n, 0)]
             /\ fd_table' = IF Cardinality(taken) < 2 THEN fd_table
                            ELSE [fd_table EXCEPT ![p][s1] = Least(taken),
                                                  ![p][s2] = Least(taken \ {Least(taken)})]
    <2>1. s1 \in FreeSlots(p) /\ s2 \in FreeSlots(p) /\ s1 # s2
      <3>1. FreeSlots(p) \subseteq Nat /\ IsFiniteSet(FreeSlots(p))
        BY FdFinite, FS_Subset DEF FreeSlots
      <3> QED BY <1>5, <3>1, TwoSmallest
    <2>2. IsFiniteSet(FreeFds) /\ Cardinality(FreeFds) >= 2 /\ FreeFds \subseteq Nat /\ FreeFds \subseteq Fd
      <3> HIDE DEF s1, s2
      <3> QED BY <1>3, <2>1, TwoFreeEntries, FdFinite DEF FreeFds
    <2>3. /\ a \in FreeFds /\ b \in FreeFds /\ a # b /\ taken = {a, b} /\ Cardinality(taken) = 2
          /\ Least(taken) = a /\ Least(taken \ {a}) = b
      BY <2>2, TwoSmallest
    <2>4. /\ s1 \in Slot /\ s2 \in Slot /\ fd_table[p][s1] = -1 /\ fd_table[p][s2] = -1 /\ -1 \notin Fd
          /\ a \in Fd /\ b \in Fd
      <3> HIDE DEF s1, s2, a, b
      <3> QED BY <2>1, <2>2, <2>3, FdFinite DEF FreeSlots
    <2>5. Entry(r, 0) \in FdEntry /\ Entry(n, 0) \in FdEntry /\ Entry(r, 0).node # 0 /\ Entry(n, 0).node # 0
      <3> HIDE DEF r, n
      <3> QED BY <1>1, <1>5 DEF Entry, FdEntry
    <2> HIDE DEF taken, a, b, s1, s2, r, n
    <2>6. fd_table' = [fd_table EXCEPT ![p][s1] = a, ![p][s2] = b]
      <3>1. ~(Cardinality(taken) < 2)
        BY <2>3
      <3>2. fd_table' = [fd_table EXCEPT ![p][s1] = Least(taken), ![p][s2] = Least(taken \ {Least(taken)})]
        BY <1>5, <3>1, Zenon
      <3> QED BY <2>3, <3>2, Zenon
    <2>7. /\ global_fd_table' \in [Fd -> FdEntry]
          /\ global_fd_table'[a].node # 0 /\ global_fd_table'[b].node # 0
          /\ \A f \in Fd \ {a, b} : global_fd_table'[f] = global_fd_table[f]
      <3>1. \A f \in Fd : global_fd_table'[f] = IF f \notin taken THEN global_fd_table[f]
                                               ELSE IF f = a THEN Entry(r, 0) ELSE Entry(n, 0)
        BY <1>5, <2>3
      <3>2. \A f \in Fd : global_fd_table[f] \in FdEntry
        BY <1>3 DEF FdTypeOK
      <3>3. \A f \in Fd : global_fd_table'[f] \in FdEntry
        BY <2>5, <3>1, <3>2
      <3>4. global_fd_table' = [f \in Fd |-> global_fd_table'[f]]
        BY <1>5
      <3>5. global_fd_table' \in [Fd -> FdEntry]
        BY <3>3, <3>4
      <3> QED BY <2>3, <2>4, <2>5, <3>1, <3>5
    <2>8. /\ fd_table' \in [Proc -> [Slot -> Fd \cup {-1}]]
          /\ fd_table'[p][s1] = a /\ fd_table'[p][s2] = b
          /\ \A q \in Proc, t \in Slot : fd_table[q][t] # -1 => fd_table'[q][t] = fd_table[q][t]
      <3> DEFINE row == [fd_table[p] EXCEPT ![s1] = a, ![s2] = b]
      <3>1. fd_table[p] \in [Slot -> Fd \cup {-1}] /\ fd_table \in [Proc -> [Slot -> Fd \cup {-1}]]
        BY <1>3 DEF FdTypeOK
      <3>2. /\ row \in [Slot -> Fd \cup {-1}] /\ row[s1] = a /\ row[s2] = b
            /\ \A t \in Slot \ {s1, s2} : row[t] = fd_table[p][t]
        BY <2>1, <2>4, <3>1
      <3>3. fd_table' = [fd_table EXCEPT ![p] = row]
        BY <2>6, <3>1
      <3> HIDE DEF row
      <3> QED BY <2>4, <3>1, <3>2, <3>3
    <2>9. FdTypeOK'
      BY <1>3, <2>7, <2>8 DEF FdTypeOK
    <2>10. ASSUME NEW g \in Fd, global_fd_table'[g].in_use
           PROVE  \E q \in alive', t \in Slot : fd_table'[q][t] = g
      <3>1. CASE g = a \/ g = b
        BY <1>3, <2>4, <2>8, <3>1
      <3>2. CASE g \notin {a, b}
        <4>1. PICK q \in alive, t \in Slot : fd_table[q][t] = g
          BY <1>3, <2>7, <2>10, <3>2 DEF NoFdLeak
        <4>2. q \in Proc /\ g # -1
          BY <1>3, <2>4 DEF FdTypeOK
        <4> QED BY <1>3, <2>8, <4>1, <4>2
      <3> QED BY <3>1, <3>2
    <2> QED BY <1>2, <2>9, <2>10 DEF FilesInv, NoFdLeak
  <1> QED BY <1>4, <1>5 DEF sys_pipe

LEMMA ForkStep ==
  ASSUME FilesInv, NEW p \in Proc, NEW q \in Proc, process_fork(p, q)
  PROVE  FilesInv'
  <1>1. FdTypeOK /\ NoFdLeak
    BY DEF FilesInv
  <1>2. FdTypeOK'
    BY <1>1 DEF FdTypeOK, process_fork
  <1>3. \A o \in alive : o \in alive' /\ fd_table'[o] = fd_table[o]
    BY <1>1 DEF FdTypeOK, process_fork
  <1>4. NoFdLeak'
    BY <1>1, <1>3 DEF NoFdLeak, process_fork
  <1>5. Files' = Files
    BY DEF Files, process_fork
  <1> QED BY <1>2, <1>4, <1>5 DEF FilesInv

LEMMA ExitStep ==
  ASSUME FilesInv, NEW p \in Proc, sys_exit(p)
  PROVE  FilesInv'
  <1>1. FdTypeOK /\ NoFdLeak /\ p \in Proc
    BY DEF FilesInv
  <1>2. Unused \in FdEntry /\ ~ Unused.in_use
    BY FilesAssumption DEF Unused, FdEntry
  <1>3. /\ global_fd_table' \in [Fd -> FdEntry]
        /\ \A f \in Fd : global_fd_table'[f].in_use =>
             /\ global_fd_table'[f] = global_fd_table[f]
             /\ \A s \in Slot : fd_table[p][s] # f
    BY <1>1, <1>2 DEF FdTypeOK, sys_exit
  <1>4. /\ fd_table' \in [Proc -> [Slot -> Fd \cup {-1}]]
        /\ \A o \in alive \ {p} : o \in alive' /\ fd_table'[o] = fd_table[o]
    BY <1>1 DEF FdTypeOK, sys_exit
  <1>5. FdTypeOK'
    BY <1>1, <1>3, <1>4 DEF FdTypeOK, sys_exit
  <1>6. NoFdLeak'
    <2> SUFFICES ASSUME NEW f \in Fd, global_fd_table'[f].in_use
                 PROVE  \E o \in alive', s \in Slot : fd_table'[o][s] = f
      BY DEF NoFdLeak
    <2>1. PICK o \in alive, s \in Slot : fd_table[o][s] = f
      BY <1>1, <1>3 DEF NoFdLeak
    <2>2. o # p
      BY <1>3, <2>1
    <2> QED BY <1>4, <2>1, <2>2
  <1>7. Files' = Files
    BY DEF Files, sys_exit
  <1> QED BY <1>5, <1>6, <1>7 DEF FilesInv

(* The commands of the shell. *)
LEMMA ShellStep == ASSUME FilesInv, Shell PROVE FilesInv'
  <1>1. FilesOK(Files) /\ FdTypeOK /\ NoFdLeak
    BY DEF FilesInv
  <1>2. NoRedir \in [node : 0 .. MaxNodes, offset : Nat] /\ redir_file \in [node : 0 .. MaxNodes, offset : Nat]
    BY <1>1, FilesAssumption DEF NoRedir, FdTypeOK
  <1>3. ASSUME NEW w, FilesOK(w), Store(w), Rest, redir_file' \in [node : 0 .. MaxNodes, offset : Nat]
        PROVE  FilesInv'
    BY <1>1, <1>3, StoreKeeps, FdUnchanged DEF FilesInv, Rest
  <1>4. ASSUME NEW name \in Names, cmd_rm(name) PROVE FilesInv'
    <2>1. PICK i \in DOMAIN tmp : tmpfs_unlink(i)
      BY <1>4 DEF cmd_rm
    <2>2. i \in 1 .. Len(Files.tmp)
      BY <1>1, <2>1, ChildrenType DEF FilesOK, Files
    <2> DEFINE w == [nodes   |-> [Files.nodes EXCEPT ![Files.tmp[i].node] = NoNode],
                     tmp     |-> RemoveAt(Files.tmp, i),
                     content |-> [Files.content EXCEPT ![Files.tmp[i].node] = <<>>]]
    <2>3. FilesOK(w)
      BY <1>1, <2>2, UnlinkKeeps
    <2>4. Store(w)
      BY <2>1 DEF tmpfs_unlink, Files
    <2> HIDE DEF w
    <2>5. Rest /\ redir_file' = redir_file
      BY <1>4 DEF cmd_rm
    <2> QED BY <1>2, <1>3, <2>3, <2>4, <2>5
  <1>5. ASSUME NEW name \in Names, cmd_cat(name) PROVE FilesInv'
    <2>1. FilesOK(vfs_open(Files, name, FALSE, FALSE, "none"))
      BY <1>1, OpenKeeps
    <2> QED BY <1>2, <1>3, <1>5, <2>1 DEF cmd_cat
  <1>6. ASSUME NEW name \in Names, NEW luck, cmd_mkdir(name, luck) PROVE FilesInv'
    <2>1. FilesOK(tmpfs_create(Files, name, "dir", luck))
      BY <1>1, CreateKeeps
    <2> QED BY <1>2, <1>3, <1>6, <2>1 DEF cmd_mkdir
  <1>7. ASSUME NEW name \in Names, NEW luck, cmd_touch(name, luck) PROVE FilesInv'
    <2>1. FilesOK(vfs_open(Files, name, TRUE, FALSE, luck))
      BY <1>1, OpenKeeps
    <2> QED BY <1>2, <1>3, <1>7, <2>1 DEF cmd_touch
  <1>8. ASSUME NEW name \in Names, NEW b \in Data, NEW luck, cmd_write(name, b, luck) PROVE FilesInv'
    <2> DEFINE w == OpenRetry(Files, name, FALSE, luck)
               n == Lookup(w, name)
               u == vfs_write(w, n, 0, b)
               v == vfs_write(u, n, 1, b)
    <2>1. FilesOK(w)
      BY <1>1, RetryKeeps
    <2>2. Store(IF n = 0 THEN w ELSE v) /\ Rest /\ redir_file' = redir_file
      BY <1>8 DEF cmd_write
    <2>3. w \in FileSystem
      BY <2>1 DEF FilesOK
    <2> HIDE DEF w
    <2>4. ASSUME n # 0 PROVE FilesOK(v)
      <3>1. n \in Id /\ b \in Byte /\ 0 \in Nat /\ 1 \in Nat
        BY <2>3, <2>4, LookupFinds DEF Byte
      <3> HIDE DEF n
      <3>2. FilesOK(u)
        BY <2>1, <3>1, WriteKeeps
      <3> HIDE DEF u
      <3> QED BY <3>1, <3>2, WriteKeeps
    <2> HIDE DEF n, v
    <2>5. FilesOK(IF n = 0 THEN w ELSE v)
      BY <2>1, <2>4
    <2> QED BY <1>2, <1>3, <2>2, <2>5
  <1>9. ASSUME NEW name \in Names, NEW append \in BOOLEAN, NEW luck, redirect(name, append, luck)
        PROVE  FilesInv'
    <2> DEFINE w == OpenRetry(Files, name, append, luck)
               n == Lookup(w, name)
    <2>1. FilesOK(w)
      BY <1>1, RetryKeeps
    <2>2. /\ Store(w) /\ Rest
          /\ redir_file' = IF n = 0 THEN NoRedir
                           ELSE [node |-> n, offset |-> IF append THEN w.nodes[n].length ELSE 0]
      BY <1>9 DEF redirect
    <2>3. w \in FileSystem
      BY <2>1 DEF FilesOK
    <2> HIDE DEF w
    <2>4. n # 0 => n \in 0 .. MaxNodes /\ w.nodes[n].length \in Nat
      <3> SUFFICES ASSUME n # 0 PROVE n \in 0 .. MaxNodes /\ w.nodes[n].length \in Nat
        OBVIOUS
      <3>1. n \in Id
        BY <2>3, LookupFinds
      <3> HIDE DEF n
      <3> QED BY <2>3, <3>1, FilesAssumption DEF Id, FileSystem, Node
    <2> HIDE DEF n
    <2>5. redir_file' \in [node : 0 .. MaxNodes, offset : Nat]
      BY <1>2, <2>2, <2>4
    <2> QED BY <1>3, <2>1, <2>2, <2>5
  <1>10. ASSUME NEW b \in Data, shell_redirect_writer(b) PROVE FilesInv'
    <2> DEFINE w == vfs_write(Files, redir_file.node, redir_file.offset, b)
    <2>1. redir_file.node \in Id /\ redir_file.offset \in Nat /\ b \in Byte
      BY <1>2, <1>10, FilesAssumption DEF shell_redirect_writer, Idle, Id, Byte
    <2>2. FilesOK(w)
      BY <1>1, <2>1, WriteKeeps
    <2>3. Store(w) /\ Rest /\ redir_file' = [redir_file EXCEPT !.offset = @ + 1]
      BY <1>10 DEF shell_redirect_writer
    <2> HIDE DEF w
    <2>4. redir_file' \in [node : 0 .. MaxNodes, offset : Nat]
      BY <1>2, <2>3
    <2> QED BY <1>3, <2>2, <2>3, <2>4
  <1>11. ASSUME redirect_end PROVE FilesInv'
    <2>1. Files' = Files /\ Rest /\ redir_file' = NoRedir
      BY <1>11 DEF redirect_end, Files
    <2> QED BY <1>1, <1>2, <2>1, FdUnchanged DEF FilesInv, Rest
  <1> QED BY <1>4, <1>5, <1>6, <1>7, <1>8, <1>9, <1>10, <1>11 DEF Shell

LEMMA FilesInductive == FilesInv /\ [FilesNext]_filesVars => FilesInv'
  <1> SUFFICES ASSUME FilesInv, [FilesNext]_filesVars PROVE FilesInv'
    OBVIOUS
  <1>1. CASE Shell
    BY <1>1, ShellStep
  <1>2. ASSUME NEW p \in Proc, Syscall(p) PROVE FilesInv'
    BY <1>2, OpenStep, CloseStep, ReadStep, WriteStep, DupStep, PipeStep, ForkStep, ExitStep DEF Syscall
  <1>3. CASE UNCHANGED filesVars
    BY <1>3 DEF filesVars, FilesInv, Files, FdTypeOK, NoFdLeak, FreeFds
  <1> QED BY <1>1, <1>2, <1>3 DEF FilesNext

LEMMA FilesInitially == FilesInit => FilesInv
  <1> SUFFICES ASSUME FilesInit PROVE FilesInv
    OBVIOUS
  <1>1. NoNode \in Node /\ Holds(NoNode, <<>>) /\ <<>> \in Seq(Byte) /\ <<>> \in Seq(Child) /\ Len(<<>>) = 0
    BY DEF NoNode, Node, Holds
  <1>2. Files = [nodes |-> [n \in Id |-> NoNode], tmp |-> <<>>, content |-> [n \in Id |-> <<>>]]
    BY DEF FilesInit, Files
  <1>3. Files \in FileSystem
    BY <1>1, <1>2 DEF FileSystem
  <1>4. TreeOK(Files) /\ \A n \in Id : Holds(Files.nodes[n], Files.content[n])
    BY <1>1, <1>2 DEF TreeOK
  <1>5. FilesOK(Files)
    BY <1>3, <1>4 DEF FilesOK
  <1>6. Unused \in FdEntry /\ ~ Unused.in_use /\ 0 \in Fd /\ 0 \in Proc
    BY FdFinite, FilesAssumption DEF Unused, FdEntry, Proc
  <1>7. FdTypeOK
    BY <1>6, FilesAssumption DEF FilesInit, FdTypeOK, NoRedir
  <1>8. NoFdLeak
    BY <1>6 DEF FilesInit, NoFdLeak
  <1> QED BY <1>5, <1>7, <1>8 DEF FilesInv

LEMMA FilesInvHolds == FilesSpec => []FilesInv
  <1> QED BY FilesInitially, FilesInductive, PTL DEF FilesSpec

(***************************************************************************)
(* Whatever is written, with any offsets, through any growth of the buffer *)
(* in tmpfs_write, a file holds its ideal contents.                        *)
(***************************************************************************)
THEOREM ContentsKept == FilesSpec => []FileContents
  <1>1. FilesInv => FileContents
    BY DEF FilesInv, FilesOK, Holds, Files, FileContents
  <1> QED BY <1>1, FilesInvHolds, PTL

(***************************************************************************)
(* Every file in /tmp is found by vfs_find_child under its name, although  *)
(* mkdir accepts a name that exists.                                       *)
(***************************************************************************)
THEOREM EveryFileReachable == FilesSpec => []FilesReachable
  <1>1. ASSUME FilesInv PROVE FilesReachable
    <2> DEFINE w == Files
    <2>1. w \in FileSystem /\ TreeOK(w) /\ w.tmp = tmp /\ w.nodes = nodes
      BY <1>1 DEF FilesInv, FilesOK, Files
    <2> HIDE DEF w
    <2> SUFFICES ASSUME NEW i \in 1 .. Len(w.tmp), w.nodes[w.tmp[i].node].type = "file"
                 PROVE  Lookup(w, w.tmp[i].name) = w.tmp[i].node
      BY <2>1, ChildrenType DEF FilesReachable, w
    <2>2. PICK k \in 1 .. Len(w.tmp) : /\ w.tmp[k].name = w.tmp[i].name
                                       /\ Lookup(w, w.tmp[i].name) = w.tmp[k].node
                                       /\ \A j \in 1 .. Len(w.tmp) : w.tmp[j].name = w.tmp[i].name => k <= j
      BY <2>1, LookupFinds
    <2>3. i <= k /\ k <= i
      BY <2>1, <2>2 DEF TreeOK
    <2>4. i = k
      BY <2>3
    <2> QED BY <2>2, <2>4
  <1> QED BY <1>1, FilesInvHolds, PTL

(***************************************************************************)
(* Every entry in use of the global table has a descriptor of a process in *)
(* use, through open, close, dup, fork, exit and the two entries of pipe.  *)
(***************************************************************************)
THEOREM NoEntryLost == FilesSpec => []NoFdLeak
  <1>1. FilesInv => NoFdLeak
    BY DEF FilesInv
  <1> QED BY <1>1, FilesInvHolds, PTL
=============================================================================
