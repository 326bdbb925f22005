------------------------- MODULE ZnxNetwork_proofs -------------------------
(***************************************************************************)
(* Theorems about ZnxNetwork, whatever the number of nodes, of handlers,   *)
(* of blocks in flight and of faults: the state of the nodes keeps its     *)
(* types, and the chain of a node only ever moves to a better one.         *)
(***************************************************************************)
EXTENDS ZnxNetwork, ZnxSums_proofs, SequenceTheorems, TLAPS

LEMMA BlockTypes ==
  ASSUME NEW b \in Blocks
  PROVE  /\ Height(b) \in Nat /\ Parent(b) \in Blocks
         /\ Header[b].target \in Nat /\ Header[b].target < HashSpace
         /\ b \in Int
<1>1. Header[b] \in BlockHeader
  BY TypesAssumption
<1> QED
  BY <1>1, TypesAssumption, WidthAssumption DEF BlockHeader, Height, Parent

-----------------------------------------------------------------------------
(* The work of a chain.                                                    *)

WorkOf(b) == BlockWork(Header[b].target)

LEMMA WorkOfBlocks ==
  ASSUME NEW b \in Blocks
  PROVE  WorkOf(b) \in Nat /\ WorkOf(b) > 0
<1>1. PICK t : t = Header[b].target
  OBVIOUS
<1>2. t \in Nat /\ t + 1 <= HashSpace /\ HashSpace \in Nat
  BY <1>1, BlockTypes, ConsensusAssumption
<1>3. PICK q, r : q = HashSpace \div (t + 1) /\ r = HashSpace % (t + 1)
  OBVIOUS
<1>4. q \in Int /\ r \in 0..t /\ HashSpace = (t + 1) * q + r
  BY <1>2, <1>3
<1>5. q > 0
  <2> SUFFICES ASSUME q <= 0 PROVE FALSE
    BY <1>4
  <2>1. (t + 1) * q <= 0
    BY <1>2, <1>4
  <2> QED
    BY <1>2, <1>4, <2>1
<1> QED
  BY <1>1, <1>3, <1>4, <1>5 DEF WorkOf, BlockWork

LEMMA WorkAsSum ==
  ASSUME NEW c \in Seq(Blocks)
  PROVE  /\ Work(c) = SumFunction([i \in 1..Len(c) |-> WorkOf(c[i])])
         /\ [i \in 1..Len(c) |-> WorkOf(c[i])] \in [1..Len(c) -> Nat]
         /\ IsFiniteSet(1..Len(c))
<1>1. PICK g : g = [i \in DOMAIN c |-> Header[c[i]].target]
  OBVIOUS
<1>2. DOMAIN c = 1..Len(c) /\ \A i \in 1..Len(c) : c[i] \in Blocks
  OBVIOUS
<1>3. [i \in DOMAIN g |-> BlockWork(g[i])] = [i \in 1..Len(c) |-> WorkOf(c[i])]
  BY <1>1, <1>2 DEF WorkOf
<1>4. Len(c) \in Nat
  OBVIOUS
<1>5. IsFiniteSet(1..Len(c))
  BY <1>4, FS_Interval
<1> QED
  BY <1>1, <1>2, <1>3, <1>5, WorkOfBlocks DEF Work, CumulativeWork

LEMMA WorkType ==
  ASSUME NEW c \in Seq(Blocks)
  PROVE  Work(c) \in Nat
  BY WorkAsSum, SumNatural

LEMMA ShiftedBack ==
  ASSUME NEW k \in Nat, NEW n \in Nat
  PROVE  Renames([i \in k + 1..k + n |-> i - k], k + 1..k + n, 1..n)
<1>1. PICK D, E, b : D = k + 1..k + n /\ E = 1..n /\ b = [i \in D |-> i - k]
  OBVIOUS
<1>2. IsFiniteSet(D)
  BY <1>1, FS_Interval
<1>3. IsFiniteSet(E)
  BY <1>1, FS_Interval
<1>4. \A x \in D : b[x] = x - k /\ x - k \in E /\ x \in Int
  BY <1>1
<1>5. \A z \in E : z + k \in D /\ b[z + k] = z
  BY <1>1
<1>6. b \in [D -> E]
  BY <1>1, <1>4
<1>7. Renames(b, D, E)
  BY <1>2, <1>3, <1>4, <1>5, <1>6 DEF Renames
<1> QED
  BY <1>1, <1>7

(* The work of blocks, whatever number the first of them has.              *)
LEMMA WorkShifted ==
  ASSUME NEW c \in Seq(Blocks), NEW k \in Nat, NEW h
  PROVE  h = [i \in k + 1..k + Len(c) |-> WorkOf(c[i - k])] => SumFunction(h) = Work(c)
<1>1. SUFFICES ASSUME h = [i \in k + 1..k + Len(c) |-> WorkOf(c[i - k])]
               PROVE  SumFunction(h) = Work(c)
  OBVIOUS
<1>2. PICK n \in Nat : n = Len(c)
  OBVIOUS
<1>3. PICK E, H : E = 1..n /\ H = k + 1..k + n
  OBVIOUS
<1>4. PICK b : b = [i \in H |-> i - k]
  OBVIOUS
<1>5. PICK g : g = [i \in E |-> WorkOf(c[i])]
  OBVIOUS
<1>6. Renames(b, H, E)
  BY <1>3, <1>4, ShiftedBack
<1>7. g \in [E -> Nat] /\ Work(c) = SumFunction(g)
  BY <1>2, <1>3, <1>5, WorkAsSum
<1>8. \A x \in H : x - k \in E /\ h[x] = g[b[x]]
  <2>1. \A x \in H : x - k \in E /\ b[x] = x - k
    BY <1>3, <1>4
  <2> QED
    BY <1>1, <1>2, <1>3, <1>5, <2>1
<1>9. h \in [H -> Int]
  BY <1>1, <1>2, <1>3, <1>8, WorkOfBlocks
<1>10. g \in [E -> Int]
  BY <1>7
<1>11. SumFunction(g) = SumFunction(h)
  <2>1. \A x \in H : h[x] = g[b[x]]
    BY <1>8
  <2>2. Renames(b, H, E) /\ g \in [E -> Int] /\ h \in [H -> Int]
    BY <1>6, <1>9, <1>10
  <2> QED
    BY <2>1, <2>2, SumReordered
<1> QED
  BY <1>7, <1>11

(* The work of blocks one after the other is the sum of their works.       *)
LEMMA WorkAdds ==
  ASSUME NEW a \in Seq(Blocks), NEW c \in Seq(Blocks)
  PROVE  Work(a \o c) = Work(a) + Work(c)
<1>1. PICK k \in Nat, n \in Nat : k = Len(a) /\ n = Len(c)
  OBVIOUS
<1>2. PICK d \in Seq(Blocks) : d = a \o c /\ Len(d) = k + n
  <2>1. a \o c \in Seq(Blocks) /\ Len(a \o c) = Len(a) + Len(c)
    OBVIOUS
  <2> QED
    BY <1>1, <2>1
<1>3. /\ \A i \in 1..k : d[i] = a[i]
      /\ \A i \in k + 1..k + n : d[i] = c[i - k]
  BY <1>1, <1>2
<1>4. PICK D, L, H : D = 1..k + n /\ L = 1..k /\ H = k + 1..k + n
  OBVIOUS
<1>5. L \in SUBSET D /\ D \ L = H
  BY <1>4
<1>6. PICK f : f = [i \in D |-> WorkOf(d[i])]
  OBVIOUS
<1>7. IsFiniteSet(D) /\ f \in [D -> Int] /\ Work(d) = SumFunction(f)
  <2>1. f = [i \in 1..Len(d) |-> WorkOf(d[i])] /\ D = 1..Len(d)
    BY <1>2, <1>4, <1>6
  <2>2. IsFiniteSet(D) /\ f \in [D -> Nat] /\ Work(d) = SumFunction(f)
    BY <2>1, WorkAsSum
  <2> QED
    BY <2>2
<1>8. SumFunction(f) = SumFunction(Part(f, L)) + SumFunction(Part(f, H))
  BY <1>5, <1>7, SumSplit
<1>9. SumFunction(Part(f, L)) = Work(a)
  <2>1. Part(f, L) = [i \in 1..Len(a) |-> WorkOf(a[i])]
    BY <1>1, <1>3, <1>4, <1>5, <1>6 DEF Part
  <2> QED
    BY <2>1, WorkAsSum
<1>10. SumFunction(Part(f, H)) = Work(c)
  <2>1. Part(f, H) = [i \in k + 1..k + Len(c) |-> WorkOf(c[i - k])]
    BY <1>1, <1>3, <1>4, <1>5, <1>6 DEF Part
  <2> QED
    BY <2>1, WorkShifted
<1> QED
  BY <1>2, <1>7, <1>8, <1>9, <1>10

LEMMA WorkOfOne ==
  ASSUME NEW b \in Blocks
  PROVE  Work(<<b>>) = WorkOf(b)
<1>1. PICK c \in Seq(Blocks) : c = <<b>> /\ Len(c) = 1 /\ c[1] = b
  <2>1. <<b>> \in Seq(Blocks) /\ Len(<<b>>) = 1 /\ <<b>>[1] = b
    OBVIOUS
  <2> QED
    BY <2>1
<1>2. PICK g : g = [i \in 1..Len(c) |-> WorkOf(c[i])]
  OBVIOUS
<1>3. g = <<WorkOf(b)>>
  BY <1>1, <1>2
<1>4. WorkOf(b) \in Int
  BY WorkOfBlocks
<1>5. SumFunction(g) = WorkOf(b)
  BY <1>3, <1>4, SumOfOne
<1> QED
  BY <1>1, <1>2, <1>5, WorkAsSum

LEMMA SomeWork ==
  ASSUME NEW c \in Seq(Blocks), c # <<>>
  PROVE  Work(c) > 0
<1>1. Len(c) \in Nat \ {0} /\ c[1] \in Blocks
  OBVIOUS
<1>2. PICK n, D : n = Len(c) /\ D = 1..n
  OBVIOUS
<1>3. PICK g : g = [i \in D |-> WorkOf(c[i])]
  OBVIOUS
<1>4. IsFiniteSet(D) /\ g \in [D -> Nat] /\ g \in [D -> Int] /\ Work(c) = SumFunction(g)
  <2>1. IsFiniteSet(D) /\ g \in [D -> Nat] /\ Work(c) = SumFunction(g)
    BY <1>2, <1>3, WorkAsSum
  <2> QED
    BY <2>1
<1>5. 1 \in D /\ g[1] = WorkOf(c[1])
  BY <1>1, <1>2, <1>3
<1>6. SumFunction(g) = g[1] + SumFunction(Part(g, D \ {1}))
  BY <1>4, <1>5, SumWithout
<1>7. SumFunction(Part(g, D \ {1})) \in Nat
  <2>1. IsFiniteSet(D \ {1})
    BY <1>4, FS_Subset
  <2>2. Part(g, D \ {1}) \in [D \ {1} -> Nat]
    BY <1>4 DEF Part
  <2> QED
    BY <2>1, <2>2, SumNatural
<1> QED
  BY <1>1, <1>4, <1>5, <1>6, <1>7, WorkOfBlocks

-----------------------------------------------------------------------------
(* Valid chains: their parts, and what is committed to them.               *)

LEMMA Begins ==
  ASSUME NEW c \in Seq(Blocks), NEW k \in 0..Len(c)
  PROVE  /\ SubSeq(c, 1, k) \in Seq(Blocks) /\ Len(SubSeq(c, 1, k)) = k
         /\ \A i \in 1..k : SubSeq(c, 1, k)[i] = c[i]
  OBVIOUS

LEMMA BeginAlike ==
  ASSUME NEW c \in Seq(Blocks), NEW d \in Seq(Blocks), NEW k \in 0..Len(c), k <= Len(d),
         \A i \in 1..k : c[i] = d[i]
  PROVE  SubSeq(c, 1, k) = SubSeq(d, 1, k)
<1>1. PICK e, f : e = SubSeq(c, 1, k) /\ f = SubSeq(d, 1, k)
  OBVIOUS
<1>2. e \in Seq(Blocks) /\ Len(e) = k /\ \A i \in 1..k : e[i] = c[i]
  BY <1>1, Begins
<1>3. f \in Seq(Blocks) /\ Len(f) = k /\ \A i \in 1..k : f[i] = d[i]
  BY <1>1, Begins
<1>4. e = f
  BY <1>2, <1>3
<1> QED
  BY <1>1, <1>4

LEMMA Joined ==
  ASSUME NEW c \in Seq(Blocks), NEW e \in Seq(Blocks)
  PROVE  /\ c \o e \in Seq(Blocks) /\ Len(c \o e) = Len(c) + Len(e)
         /\ \A i \in 1..Len(c) : (c \o e)[i] = c[i]
         /\ \A i \in 1..Len(e) : (c \o e)[Len(c) + i] = e[i]
  OBVIOUS

(* What a valid chain says of its block in place i.                        *)
ValidAt(c, i) ==
  /\ Height(c[i]) = i - 1
  /\ Parent(c[i]) = c[i - 1]
  /\ BlockValid(Replay(SubSeq(c, 1, i - 1)), c[i], TargetAfter(SubSeq(c, 1, i - 1)))

LEMMA ValidMeans ==
  ASSUME NEW c
  PROVE  ValidChain(c) <=> c # <<>> /\ c[1] = GenesisBlock /\ \A i \in 2..Len(c) : ValidAt(c, i)
  BY DEF ValidChain, ValidAt

(* Nothing above a block matters for its validity.                         *)
LEMMA ValidAtAlike ==
  ASSUME NEW c \in Seq(Blocks), NEW d \in Seq(Blocks), NEW i \in 2..Len(c), i <= Len(d),
         \A j \in 1..i : c[j] = d[j]
  PROVE  ValidAt(c, i) <=> ValidAt(d, i)
<1>1. PICK k \in Nat : k = i - 1 /\ k \in 0..Len(c) /\ k <= Len(d)
  OBVIOUS
<1>2. \A j \in 1..k : c[j] = d[j]
  BY <1>1
<1>3. SubSeq(c, 1, k) = SubSeq(d, 1, k)
  BY <1>1, <1>2, BeginAlike
<1>4. c[i] = d[i] /\ c[k] = d[k]
  BY <1>1
<1> QED
  BY <1>1, <1>3, <1>4 DEF ValidAt

LEMMA ValidBegin ==
  ASSUME NEW c \in Seq(Blocks), ValidChain(c), NEW k \in 1..Len(c)
  PROVE  ValidChain(SubSeq(c, 1, k))
<1>1. PICK d : d = SubSeq(c, 1, k)
  OBVIOUS
<1>2. d \in Seq(Blocks) /\ Len(d) = k /\ \A i \in 1..k : d[i] = c[i]
  BY <1>1, Begins
<1>3. c[1] = GenesisBlock /\ \A i \in 2..Len(c) : ValidAt(c, i)
  BY ValidMeans
<1>4. d # <<>> /\ d[1] = GenesisBlock
  BY <1>2, <1>3
<1>5. ASSUME NEW i \in 2..Len(d)
      PROVE  ValidAt(d, i)
  <2>1. i \in 2..Len(c) /\ i <= Len(d) /\ \A j \in 1..i : c[j] = d[j]
    BY <1>2
  <2> QED
    BY <1>2, <1>3, <2>1, ValidAtAlike
<1>6. ValidChain(d)
  BY <1>4, <1>5, ValidMeans
<1> QED
  BY <1>1, <1>6

LEMMA HeightsOfValid ==
  ASSUME NEW c \in Seq(Blocks), ValidChain(c), NEW i \in 1..Len(c)
  PROVE  Height(c[i]) = i - 1
<1>1. c[1] = GenesisBlock /\ \A j \in 2..Len(c) : ValidAt(c, j)
  BY ValidMeans
<1>2. Height(GenesisBlock) = 0
  BY TypesAssumption DEF Height
<1>3. CASE i = 1
  BY <1>1, <1>2, <1>3
<1>4. CASE i # 1
  BY <1>1, <1>4 DEF ValidAt
<1> QED
  BY <1>3, <1>4

(* Blocks that can each be committed after those before it leave a valid   *)
(* chain (commit_new_tip, as often as a reorg calls it).                   *)
LEMMA ValidJoined ==
  ASSUME NEW c \in Seq(Blocks), ValidChain(c), NEW e \in Seq(Blocks), AllCommit(c, e)
  PROVE  c \o e \in Seq(Blocks) /\ ValidChain(c \o e)
<1>1. PICK d : d = c \o e
  OBVIOUS
<1>2. PICK n \in Nat, m \in Nat : n = Len(c) /\ m = Len(e)
  OBVIOUS
<1>3. /\ d \in Seq(Blocks) /\ Len(d) = n + m
      /\ \A i \in 1..n : d[i] = c[i]
      /\ \A i \in 1..m : d[n + i] = e[i]
  BY <1>1, <1>2
<1>4. n > 0 /\ c[1] = GenesisBlock /\ \A i \in 2..n : ValidAt(c, i)
  BY <1>2, ValidMeans
<1>5. d # <<>> /\ d[1] = GenesisBlock
  BY <1>3, <1>4
<1>6. ASSUME NEW i \in 2..n
      PROVE  ValidAt(d, i)
  <2>1. i \in 2..Len(c) /\ i <= Len(d) /\ \A j \in 1..i : c[j] = d[j]
    BY <1>2, <1>3
  <2> QED
    BY <1>3, <1>4, <2>1, ValidAtAlike
<1>7. ASSUME NEW k \in 1..m
      PROVE  ValidAt(d, n + k)
  <2>1. PICK s : s = c \o SubSeq(e, 1, k - 1)
    OBVIOUS
  <2>2. /\ SubSeq(e, 1, k - 1) \in Seq(Blocks) /\ Len(SubSeq(e, 1, k - 1)) = k - 1
        /\ \A j \in 1..k - 1 : SubSeq(e, 1, k - 1)[j] = e[j]
    <3>1. k - 1 \in 0..Len(e)
      BY <1>2
    <3> QED
      BY <3>1, Begins
  <2>3. /\ s \in Seq(Blocks) /\ Len(s) = n + (k - 1)
        /\ \A j \in 1..n : s[j] = c[j]
        /\ \A j \in 1..k - 1 : s[n + j] = e[j]
    BY <1>2, <2>1, <2>2
  <2>4. PICK l \in Nat : l = (n + k) - 1 /\ l = n + (k - 1) /\ l <= Len(d) /\ l \in 0..Len(d) /\ l > 0
    BY <1>3, <1>4
  <2>5. \A j \in 1..l : s[j] = d[j]
    <3> SUFFICES ASSUME NEW j \in 1..l PROVE s[j] = d[j]
      OBVIOUS
    <3>1. CASE j \in 1..n
      BY <1>3, <2>3, <3>1
    <3>2. CASE j \notin 1..n
      <4>1. PICK i : i = j - n
        OBVIOUS
      <4>2. i \in 1..k - 1 /\ i \in 1..m /\ j = n + i
        BY <2>4, <3>2, <4>1
      <4> QED
        BY <1>3, <2>3, <4>2
    <3> QED
      BY <3>1, <3>2
  <2>6. SubSeq(d, 1, l) = s
    <3>1. PICK g : g = SubSeq(d, 1, l)
      OBVIOUS
    <3>2. g \in Seq(Blocks) /\ Len(g) = l /\ \A j \in 1..l : g[j] = d[j]
      BY <1>3, <2>4, <3>1, Begins
    <3>3. g = s
      BY <2>3, <2>4, <2>5, <3>2
    <3> QED
      BY <3>1, <3>3
  <2>7. CommitOk(s, e[k])
    <3>1. k \in DOMAIN e
      BY <1>2
    <3>2. CommitOk(c \o SubSeq(e, 1, k - 1), e[k])
      BY <3>1 DEF AllCommit
    <3> QED
      BY <2>1, <3>2
  <2>8. d[n + k] = e[k] /\ d[l] = s[l]
    <3>1. d[n + k] = e[k]
      BY <1>3
    <3>2. l \in 1..l
      BY <2>4
    <3> QED
      BY <2>5, <3>1, <3>2
  <2>9. Last(s) = s[l] /\ Len(s) = l
    BY <2>3, <2>4 DEF Last
  <2> QED
    BY <2>4, <2>6, <2>7, <2>8, <2>9 DEF ValidAt, CommitOk, Fits
<1>8. ASSUME NEW i \in 2..Len(d)
      PROVE  ValidAt(d, i)
  <2>1. CASE i \in 2..n
    BY <1>6, <2>1
  <2>2. CASE i \notin 2..n
    <3>1. PICK k : k = i - n
      OBVIOUS
    <3>2. k \in 1..m /\ i = n + k
      BY <1>3, <1>4, <2>2, <3>1
    <3> QED
      BY <1>7, <3>2
  <2> QED
    BY <2>1, <2>2
<1>9. ValidChain(d)
  BY <1>5, <1>8, ValidMeans
<1> QED
  BY <1>1, <1>3, <1>9

-----------------------------------------------------------------------------
(* What a handler may make of the chain of a node.                         *)
Moves(old, new) ==
  \/ new = old
  \/ new \in Seq(Blocks) /\ ValidChain(new) /\ Better(new, old)

LEMMA AppendMoves ==
  ASSUME NEW c \in Seq(Blocks), ValidChain(c), NEW b \in Blocks, CommitOk(c, b)
  PROVE  Moves(c, Append(c, b))
<1>1. PICK e : e = <<b>>
  OBVIOUS
<1>2. e \in Seq(Blocks) /\ Len(e) = 1 /\ e[1] = b /\ DOMAIN e = {1}
  <2>1. <<b>> \in Seq(Blocks) /\ Len(<<b>>) = 1 /\ <<b>>[1] = b /\ DOMAIN <<b>> = {1}
    OBVIOUS
  <2> QED
    BY <1>1, <2>1
<1>3. AllCommit(c, e)
  <2>1. SubSeq(e, 1, 0) = <<>>
    BY <1>2
  <2>2. c \o SubSeq(e, 1, 1 - 1) = c
    BY <2>1
  <2> QED
    BY <1>2, <2>2 DEF AllCommit
<1>4. Append(c, b) = c \o e
  <2>1. Append(c, b) = c \o <<b>>
    OBVIOUS
  <2> QED
    BY <1>1, <2>1
<1>5. c \o e \in Seq(Blocks) /\ ValidChain(c \o e)
  BY <1>2, <1>3, ValidJoined
<1>6. Work(c \o e) = Work(c) + Work(e)
  BY <1>2, WorkAdds
<1>7. Work(c) \in Nat
  BY WorkType
<1>8. Work(e) \in Nat /\ Work(e) > 0
  BY <1>1, WorkOfOne, WorkOfBlocks
<1>9. Work(c \o e) > Work(c)
  BY <1>6, <1>7, <1>8
<1> QED
  BY <1>4, <1>5, <1>9 DEF Moves, Better

(* A chain in two parts.                                                   *)
LEMMA InTwo ==
  ASSUME NEW c \in Seq(Blocks), NEW k \in 0..Len(c)
  PROVE  /\ SubSeq(c, k + 1, Len(c)) \in Seq(Blocks)
         /\ c = SubSeq(c, 1, k) \o SubSeq(c, k + 1, Len(c))
<1>1. PICK n \in Nat : n = Len(c) /\ k \in 0..n /\ k \in Nat
  OBVIOUS
<1>2. PICK d, e : d = SubSeq(c, 1, k) /\ e = SubSeq(c, k + 1, n)
  OBVIOUS
<1>3. d \in Seq(Blocks) /\ Len(d) = k /\ \A i \in 1..k : d[i] = c[i]
  BY <1>2, Begins
<1>4. e \in Seq(Blocks) /\ Len(e) = n - k /\ \A i \in 1..n - k : e[i] = c[k + i]
  BY <1>1, <1>2
<1>5. PICK f : f = d \o e
  OBVIOUS
<1>6. f \in Seq(Blocks) /\ Len(f) = n
  <2>1. d \o e \in Seq(Blocks) /\ Len(d \o e) = Len(d) + Len(e)
    <3>1. d \in Seq(Blocks) /\ e \in Seq(Blocks)
      BY <1>3, <1>4
    <3> QED
      BY <3>1
  <2> QED
    BY <1>1, <1>3, <1>4, <1>5, <2>1
<1>7. ASSUME NEW i \in 1..n
      PROVE  f[i] = c[i]
  <2>1. CASE i <= k
    <3>1. i \in 1..k /\ f[i] = d[i]
      BY <1>1, <1>3, <1>4, <1>5, <2>1
    <3> QED
      BY <1>3, <3>1
  <2>2. CASE i > k
    <3>1. i - k \in 1..n - k /\ f[i] = e[i - k] /\ k + (i - k) = i
      BY <1>1, <1>3, <1>4, <1>5, <2>2
    <3> QED
      BY <1>4, <3>1
  <2> QED
    BY <1>1, <2>1, <2>2
<1>8. f = c
  BY <1>1, <1>6, <1>7
<1> QED
  BY <1>1, <1>2, <1>4, <1>5, <1>8

(* try_reorg_to_chain compares only what is above the fork, which is       *)
(* enough: both chains are the same below it (lib.rs:884).                 *)
LEMMA ReorgMovesToBetter ==
  ASSUME NEW c \in Seq(Blocks), ValidChain(c), NEW fork \in 0..Len(c) - 1,
         NEW e \in Seq(Blocks), e # <<>>
  PROVE  Moves(c, AfterReorg(c, fork, e))
<1>1. CASE ~ReorgMoves(c, fork, e)
  <2>1. AfterReorg(c, fork, e) = c
    BY <1>1 DEF AfterReorg
  <2> QED
    BY <2>1 DEF Moves
<1>2. CASE ReorgMoves(c, fork, e)
  <2>1. PICK k : k = fork + 1 /\ k \in 1..Len(c) /\ k \in 0..Len(c)
    OBVIOUS
  <2>2. PICK d, l, new : d = SubSeq(c, 1, k) /\ l = SubSeq(c, k + 1, Len(c)) /\ new = d \o e
    OBVIOUS
  <2>3. d = Below(c, fork) /\ l = SubSeq(c, fork + 2, Len(c)) /\ AfterReorg(c, fork, e) = new
    <3>1. k + 1 = fork + 2
      BY <2>1
    <3> QED
      BY <1>2, <2>1, <2>2, <3>1 DEF Below, AfterReorg
  <2>4. d \in Seq(Blocks) /\ ValidChain(d)
    BY <2>1, <2>2, Begins, ValidBegin
  <2>5. l \in Seq(Blocks) /\ c = d \o l
    BY <2>1, <2>2, InTwo
  <2>6. new \in Seq(Blocks) /\ ValidChain(new)
    BY <1>2, <2>2, <2>3, <2>4, ValidJoined DEF ReorgMoves
  <2>7. Work(new) = Work(d) + Work(e) /\ Work(c) = Work(d) + Work(l)
    BY <2>2, <2>4, <2>5, WorkAdds
  <2>8. Work(d) \in Nat /\ Work(e) \in Nat /\ Work(l) \in Nat
    BY <2>4, <2>5, WorkType
  <2>9. new[Len(new)] = e[Len(e)]
    <3>1. Len(e) \in Nat \ {0} /\ Len(new) = Len(d) + Len(e) /\ Len(d) \in Nat
      BY <2>2, <2>4
    <3> QED
      BY <2>2, <2>4, <3>1
  <2>10. \/ Work(e) > Work(l)
         \/ Work(e) = Work(l) /\ e[Len(e)] < c[Len(c)]
    BY <1>2, <2>3 DEF ReorgMoves, CandidateWins, Last
  <2>11. \/ Work(new) > Work(c)
         \/ Work(new) = Work(c) /\ new[Len(new)] < c[Len(c)]
    BY <2>7, <2>8, <2>9, <2>10
  <2> QED
    BY <2>3, <2>6, <2>11 DEF Moves, Better
<1> QED
  BY <1>1, <1>2

-----------------------------------------------------------------------------
(* The invariant.  The chain of every node is valid, which gives its       *)
(* blocks the heights that a backfill counts on.                           *)

Consecutive(s) == \A k \in 2..Len(s) : Height(s[k]) = Height(s[k - 1]) + 1

Answers   == Blocks \cup {NoBlock, Waiting}
Windows   == [stage : {"window"}, peer : Nodes, synced : Nat]
Downloads == [stage : {"download"}, peer : Nodes, synced : Nat, base : Nat,
              answers : Seq(Answers) \ {<<>>}]
Gathered  == [stage : {"lookup", "asked", "reorg"}, peer : Nodes, blocks : Seq(Blocks) \ {<<>>}]
Backfills == {t \in Gathered : Consecutive(t.blocks)
                               /\ (t.stage = "asked" => Height(Head(t.blocks)) > 0)
                               /\ (t.stage = "reorg" => Head(t.blocks) # GenesisBlock)}
Tasks     == {Free} \cup Windows \cup Downloads \cup Backfills

ChainsOK  == chain \in [Nodes -> Seq(Blocks)] /\ \A n \in Nodes : ValidChain(chain[n])
TasksOK   == tasks \in [Nodes -> [Slots -> Tasks]]
StrikesOK == /\ strikes \in [Nodes -> [Nodes -> Nat]]
             /\ blocked \in [Nodes -> SUBSET Nodes]
             /\ linked \subseteq {{n, p} : n, p \in Nodes}
GossipOK  == /\ outbox \in [Nodes -> SUBSET Blocks] /\ heard \in [Nodes -> SUBSET Blocks]
             /\ gossip \subseteq [block : Blocks, from : Nodes, to : Nodes]

NetInv == ChainsOK /\ TasksOK /\ StrikesOK /\ GossipOK

(* What a step does to the chains.                                         *)
ChainsMove ==
  chain' \in [Nodes -> Seq(Blocks)] /\ \A n \in Nodes : Moves(chain[n], chain'[n])

LEMMA MovesKeepChains == ChainsOK /\ ChainsMove => ChainsOK'
  BY DEF ChainsOK, ChainsMove, Moves

LEMMA ChainsStay == ChainsOK /\ UNCHANGED chain => ChainsMove
  BY DEF ChainsOK, ChainsMove, Moves

LEMMA OneChainMoves ==
  ASSUME ChainsOK, NEW n \in Nodes, NEW d \in Seq(Blocks), Moves(chain[n], d),
         chain' = [chain EXCEPT ![n] = d]
  PROVE  ChainsMove
  BY DEF ChainsOK, ChainsMove, Moves

(* The chain of one node, with a block that it accepts at the end.         *)
LEMMA CommitMoves ==
  ASSUME ChainsOK, NEW n \in Nodes, NEW b \in Blocks, CommitOk(chain[n], b),
         chain' = [chain EXCEPT ![n] = Append(chain[n], b)]
  PROVE  ChainsMove
<1>1. chain[n] \in Seq(Blocks) /\ ValidChain(chain[n])
  BY DEF ChainsOK
<1>2. PICK d : d = Append(chain[n], b)
  OBVIOUS
<1>3. d \in Seq(Blocks)
  BY <1>1, <1>2
<1>4. Moves(chain[n], d)
  BY <1>1, <1>2, AppendMoves
<1> QED
  BY <1>2, <1>3, <1>4, OneChainMoves

LEMMA ReorgMovesChains ==
  ASSUME ChainsOK, NEW n \in Nodes, NEW fork \in 0..Len(chain[n]) - 1,
         NEW e \in Seq(Blocks), e # <<>>,
         chain' = [chain EXCEPT ![n] = AfterReorg(chain[n], fork, e)]
  PROVE  ChainsMove
<1>1. PICK c : c = chain[n]
  OBVIOUS
<1>2. c \in Seq(Blocks) /\ ValidChain(c) /\ fork \in 0..Len(c) - 1
  BY <1>1 DEF ChainsOK
<1>3. PICK d : d = AfterReorg(c, fork, e)
  OBVIOUS
<1>4. Moves(c, d)
  BY <1>2, <1>3, ReorgMovesToBetter
<1>5. d \in Seq(Blocks)
  BY <1>2, <1>4 DEF Moves
<1> QED
  BY <1>1, <1>3, <1>4, <1>5, OneChainMoves

LEMMA NotEmpty ==
  ASSUME ChainsOK, NEW n \in Nodes
  PROVE  Len(chain[n]) \in Nat \ {0}
  BY DEF ChainsOK, ValidChain

-----------------------------------------------------------------------------
(* What a step does to the rest.                                           *)

LEMMA BecomeKeepsTasks ==
  ASSUME TasksOK, NEW n, NEW i, NEW t \in Tasks, Become(n, i, t)
  PROVE  TasksOK'
  BY DEF TasksOK, Become

LEMMA StartedOK ==
  ASSUME TasksOK, NEW n \in Nodes, NEW t \in Tasks
  PROVE  Started(n, t) \in [Slots -> Tasks]
  BY DEF TasksOK, Started

LEMMA StrikeIfKeeps ==
  ASSUME StrikesOK, NEW n \in Nodes, NEW p \in Nodes, NEW guilty, StrikeIf(guilty, n, p)
  PROVE  StrikesOK'
<1>1. CASE Strike(n, p)
  BY <1>1 DEF StrikesOK, Strike
<1>2. CASE NoStrike
  BY <1>2 DEF StrikesOK, NoStrike
<1> QED
  BY <1>1, <1>2 DEF StrikeIf

LEMMA CopiesOK ==
  ASSUME NEW n \in Nodes, NEW b \in Blocks, NEW s, s \subseteq Nodes
  PROVE  Copies(n, b, s) \subseteq [block : Blocks, from : Nodes, to : Nodes]
  BY DEF Copies

LEMMA HearKeeps ==
  ASSUME GossipOK, NEW m, NEW accepted, Hear(m, accepted)
  PROVE  /\ GossipOK'
         /\ m.block \in Blocks /\ m.from \in Nodes /\ m.to \in Nodes
<1>1. m.block \in Blocks /\ m.from \in Nodes /\ m.to \in Nodes
  BY DEF Hear, GossipOK
<1>2. PICK s : s = PeersOf(m.to) \ {m.from} /\ s \subseteq Nodes
  BY DEF PeersOf
<1>3. Copies(m.to, m.block, s) \subseteq [block : Blocks, from : Nodes, to : Nodes]
  BY <1>1, <1>2, CopiesOK
<1>4. gossip' \subseteq [block : Blocks, from : Nodes, to : Nodes]
  BY <1>2, <1>3 DEF Hear, GossipOK
<1> QED
  BY <1>1, <1>4 DEF Hear, GossipOK

LEMMA FreeIsTask == Free \in Tasks
  BY DEF Tasks

LEMMA SyncIsTask ==
  ASSUME NEW p \in Nodes
  PROVE  Sync(p) \in Tasks
  BY DEF Tasks, Windows, Sync

-----------------------------------------------------------------------------
(* One lemma for each step of a task.                                      *)

(* The tasks that have not ended, by their stages.                         *)
LEMMA TaskTypes ==
  ASSUME NEW t \in Tasks
  PROVE  /\ t.stage = "window" => t \in Windows
         /\ t.stage = "download" => t \in Downloads
         /\ t.stage \in {"lookup", "asked", "reorg"} => t \in Backfills
  BY DEF Tasks, Windows, Downloads, Backfills, Gathered, Free

LEMMA LookupKeeps ==
  ASSUME NetInv, NEW n \in Nodes, NEW i \in Slots, BackfillLookup(n, i)
  PROVE  TasksOK'
<1>1. PICK t : t = tasks[n][i] /\ t \in Tasks /\ t.stage = "lookup"
  BY DEF BackfillLookup, NetInv, TasksOK
<1>2. t \in Backfills
  BY <1>1, TaskTypes
<1>3. Head(t.blocks) \in Blocks
  <2>1. t.blocks \in Seq(Blocks) /\ t.blocks # <<>>
    BY <1>2 DEF Backfills, Gathered
  <2> QED
    BY <2>1
<1>4. /\ Head(t.blocks) # GenesisBlock => [t EXCEPT !.stage = "reorg"] \in Tasks
      /\ Height(Head(t.blocks)) # 0 => [t EXCEPT !.stage = "asked"] \in Tasks
  <2>1. Height(Head(t.blocks)) # 0 => Height(Head(t.blocks)) > 0
    BY <1>3, BlockTypes
  <2> QED
    BY <1>2, <2>1 DEF Tasks, Backfills, Gathered
<1>5. \E u \in Tasks : Become(n, i, u)
  <2>1. \/ Become(n, i, Free)
        \/ ParentFound(n, Head(t.blocks)) /\ Become(n, i, [t EXCEPT !.stage = "reorg"])
        \/ Height(Head(t.blocks)) # 0 /\ Become(n, i, [t EXCEPT !.stage = "asked"])
    <3>1. Len(t.blocks) \in Nat /\ MaxBackfillDepth \in Nat
      BY <1>2, NetworkAssumption DEF Backfills, Gathered
    <3> QED
      BY <1>1, <3>1 DEF BackfillLookup
  <2> QED
    BY <1>4, <2>1, FreeIsTask DEF ParentFound
<1> QED
  BY <1>5, BecomeKeepsTasks DEF NetInv

(* The answer is the block of the peer's chain that is one lower.          *)
LEMMA AnswerHeight ==
  ASSUME ChainsOK, NEW n \in Nodes, NEW p \in Nodes, NEW h \in Nat,
         NEW answer \in Blocks \cup {NoBlock}, answer # NoBlock, Answered(n, p, h, answer)
  PROVE  answer \in Blocks /\ Height(answer) = h
<1>1. answer = BlockAt(p, h)
  BY DEF Answered
<1>2. PICK c : c = chain[p] /\ c \in Seq(Blocks) /\ ValidChain(c)
  BY DEF ChainsOK
<1>3. h < Len(c) /\ answer = c[h + 1]
  BY <1>1, <1>2 DEF BlockAt
<1>4. h + 1 \in 1..Len(c) /\ (h + 1) - 1 = h
  BY <1>2, <1>3
<1>5. Height(c[h + 1]) = (h + 1) - 1
  BY <1>2, <1>4, HeightsOfValid
<1> QED
  BY <1>3, <1>4, <1>5

LEMMA OneMore ==
  ASSUME NEW b \in Blocks, NEW s \in Seq(Blocks), s # <<>>, Consecutive(s),
         Height(s[1]) = Height(b) + 1
  PROVE  <<b>> \o s \in Seq(Blocks) \ {<<>>} /\ Consecutive(<<b>> \o s)
<1>1. PICK m \in Nat : m = Len(s)
  OBVIOUS
<1>2. PICK e : e = <<b>> \o s
  OBVIOUS
<1>3. e \in Seq(Blocks) /\ Len(e) = m + 1 /\ e[1] = b /\ \A k \in 1..m : e[k + 1] = s[k]
  BY <1>1, <1>2
<1>4. ASSUME NEW k \in 2..m + 1
      PROVE  Height(e[k]) = Height(e[k - 1]) + 1
  <2>1. CASE k = 2
    <3>1. 1 \in 1..m
      BY <1>4, <2>1
    <3>2. e[2] = s[1]
      BY <1>3, <3>1
    <3> QED
      BY <1>3, <2>1, <3>2
  <2>2. CASE k # 2
    <3>1. PICK j \in Nat : j = k - 1 /\ j \in 2..m /\ j - 1 \in 1..m /\ j \in 1..m
      BY <1>4, <2>2
    <3>2. e[k] = s[j] /\ e[k - 1] = s[j - 1]
      <4>1. e[j + 1] = s[j] /\ e[(j - 1) + 1] = s[j - 1] /\ j + 1 = k /\ (j - 1) + 1 = k - 1
        BY <1>3, <3>1
      <4> QED
        BY <4>1
    <3>3. Height(s[j]) = Height(s[j - 1]) + 1
      BY <1>1, <3>1 DEF Consecutive
    <3> QED
      BY <3>2, <3>3
  <2> QED
    BY <2>1, <2>2
<1>5. Consecutive(e)
  BY <1>3, <1>4 DEF Consecutive
<1>6. e # <<>>
  BY <1>3
<1> QED
  BY <1>2, <1>3, <1>5, <1>6

LEMMA BackfillAnswerKeeps ==
  ASSUME NetInv, NEW n \in Nodes, NEW i \in Slots, BackfillAnswer(n, i)
  PROVE  TasksOK'
<1>1. PICK t : t = tasks[n][i] /\ t \in Tasks /\ t.stage = "asked"
  BY DEF BackfillAnswer, NetInv, TasksOK
<1>2. t \in Backfills
  BY <1>1, TaskTypes
<1>3. PICK s : s = t.blocks /\ s \in Seq(Blocks) /\ s # <<>> /\ Consecutive(s)
  BY <1>2 DEF Backfills, Gathered
<1>4. Head(s) = s[1] /\ s[1] \in Blocks
  BY <1>3
<1>5. t.peer \in Nodes /\ Height(s[1]) > 0
  BY <1>1, <1>2, <1>3, <1>4 DEF Backfills, Gathered
<1>6. PICK h \in Nat : h = ParentHeight(Head(s)) /\ h = Height(s[1]) - 1
  BY <1>4, <1>5, BlockTypes DEF ParentHeight
<1>7. PICK answer \in Blocks \cup {NoBlock} :
        /\ Answered(n, t.peer, h, answer)
        /\ Become(n, i, IF answer = NoBlock THEN Free
                        ELSE [t EXCEPT !.stage = "lookup", !.blocks = <<answer>> \o @])
  BY <1>1, <1>3, <1>6 DEF BackfillAnswer
<1>8. CASE answer = NoBlock
  BY <1>7, <1>8, FreeIsTask, BecomeKeepsTasks DEF NetInv
<1>9. CASE answer # NoBlock
  <2>1. answer \in Blocks /\ Height(answer) = h
    BY <1>5, <1>7, <1>9, AnswerHeight DEF NetInv
  <2>2. Height(s[1]) = Height(answer) + 1
    BY <1>4, <1>6, <2>1, BlockTypes
  <2>3. PICK e : e = <<answer>> \o s
    OBVIOUS
  <2>4. e \in Seq(Blocks) \ {<<>>} /\ Consecutive(e)
    BY <1>3, <2>1, <2>2, <2>3, OneMore
  <2>5. PICK u : u = [t EXCEPT !.stage = "lookup", !.blocks = <<answer>> \o @]
    OBVIOUS
  <2>6. u = [t EXCEPT !.stage = "lookup", !.blocks = e]
    BY <1>3, <2>3, <2>5
  <2>7. u \in Tasks
    BY <1>2, <2>4, <2>6 DEF Tasks, Backfills, Gathered
  <2> QED
    BY <1>7, <1>9, <2>5, <2>7, BecomeKeepsTasks DEF NetInv
<1> QED
  BY <1>8, <1>9

LEMMA BackfillReorgKeeps ==
  ASSUME NetInv, NEW n \in Nodes, NEW i \in Slots, BackfillReorg(n, i)
  PROVE  ChainsMove /\ TasksOK' /\ StrikesOK'
<1>1. PICK t : t = tasks[n][i] /\ t \in Tasks /\ t.stage = "reorg"
  BY DEF BackfillReorg, NetInv, TasksOK
<1>2. PICK e : e = t.blocks /\ e \in Seq(Blocks) /\ e # <<>> /\ t.peer \in Nodes
  <2>1. t \in Backfills
    BY <1>1, TaskTypes
  <2> QED
    BY <2>1 DEF Backfills, Gathered
<1>3. PICK c : c = chain[n] /\ c \in Seq(Blocks)
  BY DEF NetInv, ChainsOK
<1>4. PICK fork : fork = Height(Parent(Head(e)))
  OBVIOUS
<1>5. fork \in Nat
  <2>1. Head(e) \in Blocks
    BY <1>2
  <2> QED
    BY <1>4, <2>1, BlockTypes
<1>6. TasksOK'
  BY FreeIsTask, BecomeKeepsTasks DEF NetInv, BackfillReorg
<1>7. StrikesOK'
  <2>1. \E guilty : StrikeIf(guilty, n, t.peer)
    BY <1>1 DEF BackfillReorg
  <2> QED
    BY <1>2, <2>1, StrikeIfKeeps DEF NetInv
<1>8. CASE fork <= TipHeight(c)
  <2>1. chain' = [chain EXCEPT ![n] = AfterReorg(c, fork, e)]
    BY <1>1, <1>2, <1>3, <1>4, <1>8 DEF BackfillReorg
  <2>2. fork \in 0..Len(chain[n]) - 1
    BY <1>3, <1>5, <1>8 DEF TipHeight
  <2> QED
    BY <1>2, <1>3, <1>6, <1>7, <2>1, <2>2, ReorgMovesChains DEF NetInv
<1>9. CASE ~(fork <= TipHeight(c))
  <2>1. chain' = [chain EXCEPT ![n] = c]
    BY <1>1, <1>2, <1>3, <1>4, <1>9 DEF BackfillReorg
  <2>2. UNCHANGED chain
    BY <1>3, <2>1 DEF NetInv, ChainsOK
  <2> QED
    BY <1>6, <1>7, <2>2, ChainsStay DEF NetInv
<1> QED
  BY <1>8, <1>9

LEMMA WindowStartKeeps ==
  ASSUME NetInv, NEW n \in Nodes, NEW i \in Slots, IbdWindowStart(n, i)
  PROVE  TasksOK'
<1>1. PICK t : t = tasks[n][i] /\ t \in Windows
  BY TaskTypes DEF IbdWindowStart, NetInv, TasksOK
<1>2. CASE t.synced >= MaxIbdBlocks
  BY <1>1, <1>2, FreeIsTask, BecomeKeepsTasks DEF NetInv, IbdWindowStart
<1>3. CASE ~(t.synced >= MaxIbdBlocks)
  <2>1. PICK a : a = [k \in 1..IbdWindow |-> Waiting]
    OBVIOUS
  <2>2. a \in Seq(Answers) \ {<<>>}
    <3>1. IbdWindow \in Nat \ {0}
      BY NetworkAssumption
    <3>2. a \in Seq(Answers) /\ Len(a) = IbdWindow
      BY <2>1, <3>1 DEF Answers
    <3> QED
      BY <3>1, <3>2
  <2>3. PICK u : u = [stage |-> "download", peer |-> t.peer, synced |-> t.synced,
                      base |-> TipHeight(chain[n]), answers |-> a]
    OBVIOUS
  <2>4. TipHeight(chain[n]) \in Nat
    BY NotEmpty DEF NetInv, TipHeight
  <2>5. u \in Tasks
    BY <1>1, <2>2, <2>3, <2>4 DEF Tasks, Downloads, Windows
  <2>6. Become(n, i, u)
    BY <1>1, <1>3, <2>1, <2>3 DEF IbdWindowStart
  <2> QED
    BY <2>5, <2>6, BecomeKeepsTasks DEF NetInv
<1> QED
  BY <1>2, <1>3

LEMMA IbdAnswerKeeps ==
  ASSUME NetInv, NEW n \in Nodes, NEW i \in Slots, IbdAnswer(n, i)
  PROVE  TasksOK'
<1>1. PICK t : t = tasks[n][i] /\ t \in Downloads
  BY TaskTypes DEF IbdAnswer, NetInv, TasksOK
<1>2. PICK a : a = t.answers /\ a \in Seq(Answers) /\ a # <<>>
  BY <1>1 DEF Downloads
<1>3. PICK k \in DOMAIN a, answer \in Blocks \cup {NoBlock} :
        Become(n, i, [t EXCEPT !.answers[k] = answer])
  BY <1>1, <1>2 DEF IbdAnswer
<1>4. PICK e : e = [a EXCEPT ![k] = answer]
  OBVIOUS
<1>5. e \in Seq(Answers) /\ Len(e) = Len(a)
  <2>1. answer \in Answers
    BY <1>3 DEF Answers
  <2> QED
    BY <1>2, <1>3, <1>4, <2>1
<1>6. e # <<>>
  BY <1>2, <1>5
<1>7. PICK u : u = [t EXCEPT !.answers[k] = answer]
  OBVIOUS
<1>8. u = [t EXCEPT !.answers = e]
  BY <1>1, <1>2, <1>4, <1>7 DEF Downloads
<1>9. u \in Tasks
  BY <1>1, <1>5, <1>6, <1>8 DEF Tasks, Downloads
<1> QED
  BY <1>3, <1>7, <1>9, BecomeKeepsTasks DEF NetInv

LEMMA IbdApplyKeeps ==
  ASSUME NetInv, NEW n \in Nodes, NEW i \in Slots, IbdApply(n, i)
  PROVE  ChainsMove /\ TasksOK' /\ StrikesOK'
<1>1. PICK t : t = tasks[n][i] /\ t \in Downloads
  BY TaskTypes DEF IbdApply, NetInv, TasksOK
<1>2. PICK a : a = t.answers /\ a \in Seq(Answers) /\ a # <<>> /\ Waiting \notin ToSet(a)
  BY <1>1 DEF Downloads, IbdApply
<1>3. PICK b : b = Head(a) /\ b \in Blocks \cup {NoBlock}
  <2>1. Head(a) = a[1] /\ a[1] \in Answers /\ 1 \in DOMAIN a
    BY <1>2
  <2>2. a[1] # Waiting
    BY <1>2, <2>1 DEF ToSet
  <2> QED
    BY <2>1, <2>2 DEF Answers
<1>4. t.peer \in Nodes /\ t.synced \in Nat
  BY <1>1 DEF Downloads
<1>5. CASE b = NoBlock
  <2>1. Become(n, i, Free) /\ NoStrike /\ UNCHANGED chain
    BY <1>1, <1>2, <1>3, <1>5 DEF IbdApply
  <2>2. StrikeIf(FALSE, n, t.peer)
    BY <2>1 DEF StrikeIf
  <2> QED
    BY <1>4, <2>1, <2>2, FreeIsTask, BecomeKeepsTasks, ChainsStay, StrikeIfKeeps DEF NetInv
<1>6. CASE b # NoBlock
  <2>1. PICK ok : ok = IbdAccepts(chain[n], b)
    OBVIOUS
  <2>2. /\ chain' = IF ok THEN [chain EXCEPT ![n] = Append(@, b)] ELSE chain
        /\ StrikeIf(~ok, n, t.peer)
        /\ Become(n, i,
             CASE ~ok -> Free
               [] ok /\ Len(a) > 1 -> [t EXCEPT !.answers = Tail(@), !.synced = @ + 1]
               [] OTHER -> [Sync(t.peer) EXCEPT !.synced = t.synced + 1])
    BY <1>1, <1>2, <1>3, <1>6, <2>1 DEF IbdApply
  <2>3. StrikesOK'
    BY <1>4, <2>2, StrikeIfKeeps DEF NetInv
  <2>4. CASE ~ok
    <3>1. UNCHANGED chain /\ Become(n, i, Free)
      BY <2>2, <2>4
    <3> QED
      BY <2>3, <3>1, FreeIsTask, BecomeKeepsTasks, ChainsStay DEF NetInv
  <2>5. CASE ok
    <3>1. ChainsMove
      <4>1. b \in Blocks /\ CommitOk(chain[n], b)
        BY <1>3, <1>6, <2>1, <2>5 DEF IbdAccepts
      <4>2. chain' = [chain EXCEPT ![n] = Append(chain[n], b)]
        BY <2>2, <2>5
      <4> QED
        BY <4>1, <4>2, CommitMoves DEF NetInv
    <3>2. CASE Len(a) > 1
      <4>1. PICK e : e = Tail(a)
        OBVIOUS
      <4>2. e \in Seq(Answers) /\ Len(e) = Len(a) - 1
        BY <1>2, <4>1, HeadTailProperties
      <4>3. e # <<>>
        BY <1>2, <3>2, <4>2
      <4>4. PICK u : u = [t EXCEPT !.answers = e, !.synced = t.synced + 1]
        OBVIOUS
      <4>5. u = [t EXCEPT !.answers = Tail(@), !.synced = @ + 1]
        BY <1>1, <1>2, <4>1, <4>4 DEF Downloads
      <4>6. Become(n, i, u)
        BY <2>2, <2>5, <3>2, <4>5
      <4>7. u \in Tasks
        <5>1. t.synced + 1 \in Nat
          BY <1>4
        <5>2. u \in Downloads
          BY <1>1, <4>2, <4>3, <4>4, <5>1 DEF Downloads
        <5> QED
          BY <5>2 DEF Tasks
      <4> QED
        BY <2>3, <3>1, <4>6, <4>7, BecomeKeepsTasks DEF NetInv
    <3>3. CASE ~(Len(a) > 1)
      <4>1. PICK u : u = [Sync(t.peer) EXCEPT !.synced = t.synced + 1]
        OBVIOUS
      <4>2. Become(n, i, u)
        BY <2>2, <2>5, <3>3, <4>1
      <4>3. u \in Tasks
        <5>1. u = [stage |-> "window", peer |-> t.peer, synced |-> t.synced + 1]
          BY <4>1 DEF Sync
        <5>2. t.synced + 1 \in Nat
          BY <1>4
        <5>3. u \in Windows
          BY <1>4, <5>1, <5>2 DEF Windows
        <5> QED
          BY <5>3 DEF Tasks
      <4> QED
        BY <2>3, <3>1, <4>2, <4>3, BecomeKeepsTasks DEF NetInv
    <3> QED
      BY <3>2, <3>3
  <2> QED
    <3>1. ok \in BOOLEAN
      BY <2>1 DEF IbdAccepts, CommitOk, Fits
    <3> QED
      BY <2>4, <2>5, <3>1
<1> QED
  BY <1>5, <1>6

LEMMA TaskStepsKeep ==
  ASSUME NetInv, NEW n \in Nodes, NEW i \in Slots, TaskSteps(n, i)
  PROVE  NetInv' /\ ChainsMove
<1>1. CASE TaskOnly /\ TasksOK'
  <2>1. ChainsMove /\ UNCHANGED chain
    BY <1>1, ChainsStay DEF NetInv, TaskOnly
  <2> QED
    BY <1>1, <2>1 DEF NetInv, TaskOnly, ChainsOK, StrikesOK, GossipOK
<1>2. CASE TaskStep /\ ChainsMove /\ TasksOK' /\ StrikesOK'
  <2>1. ChainsOK'
    BY <1>2, MovesKeepChains DEF NetInv
  <2> QED
    BY <1>2, <2>1 DEF NetInv, TaskStep, GossipOK
<1>3. CASE BackfillLookup(n, i)
  BY <1>1, <1>3, LookupKeeps DEF BackfillLookup
<1>4. CASE BackfillAnswer(n, i)
  BY <1>1, <1>4, BackfillAnswerKeeps DEF BackfillAnswer
<1>5. CASE BackfillReorg(n, i)
  BY <1>2, <1>5, BackfillReorgKeeps DEF BackfillReorg
<1>6. CASE IbdWindowStart(n, i)
  BY <1>1, <1>6, WindowStartKeeps DEF IbdWindowStart
<1>7. CASE IbdAnswer(n, i)
  BY <1>1, <1>7, IbdAnswerKeeps DEF IbdAnswer
<1>8. CASE IbdApply(n, i)
  BY <1>2, <1>8, IbdApplyKeeps DEF IbdApply
<1> QED
  BY <1>3, <1>4, <1>5, <1>6, <1>7, <1>8 DEF TaskSteps

-----------------------------------------------------------------------------
(* One lemma for each way to handle a message, and for the other actions.  *)

LEMMA ExtendsKeeps ==
  ASSUME NetInv, NEW m, InboundExtends(m)
  PROVE  NetInv' /\ ChainsMove
<1>1. GossipOK' /\ m.block \in Blocks /\ m.from \in Nodes /\ m.to \in Nodes
  BY HearKeeps DEF NetInv, InboundExtends
<1>2. ChainsMove
  BY <1>1, CommitMoves DEF NetInv, ChainsOK, InboundExtends
<1>3. ChainsOK'
  BY <1>2, MovesKeepChains DEF NetInv
<1> QED
  BY <1>1, <1>2, <1>3 DEF NetInv, InboundExtends, NoStrike, TasksOK, StrikesOK

LEMMA InvalidKeeps ==
  ASSUME NetInv, NEW m, InboundInvalid(m)
  PROVE  NetInv' /\ ChainsMove
<1>1. GossipOK' /\ m.block \in Blocks /\ m.from \in Nodes /\ m.to \in Nodes
  BY HearKeeps DEF NetInv, InboundInvalid
<1>2. StrikesOK'
  <2>1. StrikeIf(TRUE, m.to, m.from)
    BY DEF InboundInvalid, StrikeIf
  <2> QED
    BY <1>1, <2>1, StrikeIfKeeps DEF NetInv
<1>3. ChainsMove /\ UNCHANGED <<chain, tasks>>
  BY ChainsStay DEF NetInv, InboundInvalid
<1> QED
  BY <1>1, <1>2, <1>3 DEF NetInv, ChainsOK, TasksOK

LEMMA SiblingKeeps ==
  ASSUME NetInv, NEW m, InboundSibling(m)
  PROVE  NetInv' /\ ChainsMove
<1>1. GossipOK' /\ m.block \in Blocks /\ m.from \in Nodes /\ m.to \in Nodes
  BY HearKeeps DEF NetInv, InboundSibling
<1>2. PICK n, e : n = m.to /\ n \in Nodes /\ e = <<m.block>>
  BY <1>1
<1>3. PICK fork : fork = AtLeast(TipHeight(chain[n]) - 1, 0)
  OBVIOUS
<1>4. fork \in 0..Len(chain[n]) - 1
  BY <1>2, <1>3, NotEmpty DEF NetInv, AtLeast, TipHeight
<1>5. e \in Seq(Blocks) /\ e # <<>>
  BY <1>1, <1>2
<1>6. /\ chain' = [chain EXCEPT ![n] = AfterReorg(chain[n], fork, e)]
      /\ \E guilty : StrikeIf(guilty, n, m.from)
      /\ UNCHANGED tasks
  BY <1>2, <1>3 DEF InboundSibling
<1>7. ChainsMove
  BY <1>2, <1>4, <1>5, <1>6, ReorgMovesChains DEF NetInv
<1>8. ChainsOK'
  BY <1>7, MovesKeepChains DEF NetInv
<1>9. StrikesOK'
  BY <1>1, <1>2, <1>6, StrikeIfKeeps DEF NetInv
<1> QED
  BY <1>1, <1>6, <1>7, <1>8, <1>9 DEF NetInv, TasksOK

LEMMA OrphanKeeps ==
  ASSUME NetInv, NEW m, InboundOrphan(m)
  PROVE  NetInv' /\ ChainsMove
<1>1. GossipOK' /\ m.block \in Blocks /\ m.from \in Nodes /\ m.to \in Nodes
  BY HearKeeps DEF NetInv, InboundOrphan
<1>2. PICK t : t = [stage |-> "lookup", peer |-> m.from, blocks |-> <<m.block>>]
  OBVIOUS
<1>3. t \in Tasks
  <2>1. PICK s : s = <<m.block>>
    OBVIOUS
  <2>2. s \in Seq(Blocks) /\ s # <<>> /\ Len(s) = 1
    BY <1>1, <2>1
  <2>3. Consecutive(s)
    BY <2>2 DEF Consecutive
  <2> QED
    BY <1>1, <1>2, <2>1, <2>2, <2>3 DEF Tasks, Backfills, Gathered
<1>4. Started(m.to, t) \in [Slots -> Tasks]
  BY <1>1, <1>3, StartedOK DEF NetInv
<1>5. TasksOK'
  BY <1>2, <1>4 DEF NetInv, TasksOK, InboundOrphan
<1>6. ChainsMove /\ UNCHANGED <<chain, strikes, blocked, linked>>
  BY ChainsStay DEF NetInv, InboundOrphan, NoStrike
<1> QED
  BY <1>1, <1>5, <1>6 DEF NetInv, ChainsOK, StrikesOK

LEMMA ConnectKeeps ==
  ASSUME NetInv, NEW n \in Nodes, NEW p \in Nodes, Connect(n, p)
  PROVE  NetInv' /\ ChainsMove
<1>1. Started(n, Sync(p)) \in [Slots -> Tasks] /\ Started(p, Sync(n)) \in [Slots -> Tasks]
  BY SyncIsTask, StartedOK DEF NetInv
<1>2. TasksOK'
  BY <1>1 DEF NetInv, TasksOK, Connect
<1>3. StrikesOK'
  BY DEF NetInv, StrikesOK, Connect
<1>4. ChainsMove /\ UNCHANGED <<chain, outbox, gossip, heard>>
  BY ChainsStay DEF NetInv, Connect
<1> QED
  BY <1>2, <1>3, <1>4 DEF NetInv, ChainsOK, GossipOK

LEMMA BanKeeps ==
  ASSUME NetInv, NEW n \in Nodes, NEW p \in Nodes, Ban(n, p)
  PROVE  NetInv' /\ ChainsMove
<1>1. ChainsMove
  BY ChainsStay DEF NetInv, Ban
<1> QED
  <2>1. StrikesOK'
    BY DEF NetInv, StrikesOK, Ban
  <2> QED
    BY <1>1, <2>1 DEF NetInv, ChainsOK, TasksOK, GossipOK, Ban

LEMMA DisconnectKeeps ==
  ASSUME NetInv, NEW n \in Nodes, NEW p \in Nodes, Disconnect(n, p)
  PROVE  NetInv' /\ ChainsMove
<1>1. ChainsMove
  BY ChainsStay DEF NetInv, Disconnect
<1> QED
  <2>1. StrikesOK'
    BY DEF NetInv, StrikesOK, Disconnect
  <2> QED
    BY <1>1, <2>1 DEF NetInv, ChainsOK, TasksOK, GossipOK, Disconnect

LEMMA MineKeeps ==
  ASSUME NetInv, NEW n \in Nodes, NEW b \in Blocks, Mine(n, b)
  PROVE  NetInv' /\ ChainsMove
<1>1. ChainsMove
  BY CommitMoves DEF NetInv, ChainsOK, Mine
<1>2. ChainsOK'
  BY <1>1, MovesKeepChains DEF NetInv
<1> QED
  BY <1>1, <1>2 DEF NetInv, TasksOK, StrikesOK, GossipOK, Mine

LEMMA MisbehaveKeeps ==
  ASSUME NetInv, NEW n \in Nodes, NEW b \in Blocks, Misbehave(n, b)
  PROVE  NetInv' /\ ChainsMove
<1>1. ChainsMove
  BY ChainsStay DEF NetInv, Misbehave
<1> QED
  BY <1>1 DEF NetInv, ChainsOK, TasksOK, StrikesOK, GossipOK, Misbehave

LEMMA PublishKeeps ==
  ASSUME NetInv, NEW n \in Nodes, NEW b \in Blocks, Publish(n, b)
  PROVE  NetInv' /\ ChainsMove
<1>1. ChainsMove
  BY ChainsStay DEF NetInv, Publish
<1>2. PICK s : s = PeersOf(n) /\ s \subseteq Nodes
  BY DEF PeersOf
<1>3. Copies(n, b, s) \subseteq [block : Blocks, from : Nodes, to : Nodes]
  BY <1>2, CopiesOK
<1>4. GossipOK'
  BY <1>2, <1>3 DEF NetInv, GossipOK, Publish
<1> QED
  BY <1>1, <1>4 DEF NetInv, ChainsOK, TasksOK, StrikesOK, Publish

LEMMA LoseKeeps ==
  ASSUME NetInv, NEW m, Lose(m)
  PROVE  NetInv' /\ ChainsMove
<1>1. ChainsMove
  BY ChainsStay DEF NetInv, Lose
<1> QED
  <2>1. GossipOK'
    BY DEF NetInv, GossipOK, Lose
  <2> QED
    BY <1>1, <2>1 DEF NetInv, ChainsOK, TasksOK, StrikesOK, Lose

-----------------------------------------------------------------------------
LEMMA InitNet == Init => NetInv
<1> SUFFICES ASSUME Init PROVE NetInv
  OBVIOUS
<1>1. chain \in InitialChains
  BY DEF Init
<1>2. chain \in [Nodes -> Seq(Blocks)]
  BY <1>1, NetworkAssumption
<1>3. \A n \in Nodes : ValidChain(chain[n])
  BY <1>1, DatabasesAssumption
<1>4. TasksOK
  BY FreeIsTask DEF Init, TasksOK
<1>5. StrikesOK
  BY DEF Init, StrikesOK
<1>6. GossipOK
  BY DEF Init, GossipOK
<1> QED
  BY <1>2, <1>3, <1>4, <1>5, <1>6 DEF NetInv, ChainsOK

LEMMA NextNet == NetInv /\ [Next]_vars => NetInv' /\ ChainsMove
<1> SUFFICES ASSUME NetInv, [Next]_vars PROVE NetInv' /\ ChainsMove
  OBVIOUS
<1>1. ASSUME NEW n \in Nodes, NEW p \in Nodes, Connect(n, p) \/ Disconnect(n, p) \/ Ban(n, p)
      PROVE  NetInv' /\ ChainsMove
  BY <1>1, ConnectKeeps, DisconnectKeeps, BanKeeps
<1>2. ASSUME NEW n \in Nodes, NEW b \in Blocks, Mine(n, b) \/ Misbehave(n, b) \/ Publish(n, b)
      PROVE  NetInv' /\ ChainsMove
  BY <1>2, MineKeeps, MisbehaveKeeps, PublishKeeps
<1>3. ASSUME NEW m \in gossip, Lose(m) \/ HandleGossip(m)
      PROVE  NetInv' /\ ChainsMove
  BY <1>3, LoseKeeps, ExtendsKeeps, InvalidKeeps, SiblingKeeps, OrphanKeeps DEF HandleGossip
<1>4. ASSUME NEW n \in Nodes, NEW i \in Slots, TaskSteps(n, i)
      PROVE  NetInv' /\ ChainsMove
  BY <1>4, TaskStepsKeep
<1>5. CASE UNCHANGED vars
  <2>1. ChainsMove
    BY <1>5, ChainsStay DEF NetInv, vars
  <2> QED
    BY <1>5, <2>1 DEF vars, NetInv, ChainsOK, TasksOK, StrikesOK, GossipOK
<1> QED
  BY <1>1, <1>2, <1>3, <1>4, <1>5 DEF Next, Progress

LEMMA NetInvariant == Spec => []NetInv
  BY InitNet, NextNet, PTL DEF Spec

(* Every run of the network keeps the types, and the heights of the blocks *)
(* that a backfill has gathered follow each other (lib.rs:667): the block  *)
(* that a peer has at a height is of that height, as its chain is valid.   *)
THEOREM NetTypeCorrect == Spec => []NetTypeOK
<1>1. NetInv => NetTypeOK
  <2> SUFFICES ASSUME NetInv PROVE NetTypeOK
    OBVIOUS
  <2>1. ASSUME NEW n \in Nodes, NEW i \in Slots, tasks[n][i].stage \in {"lookup", "asked", "reorg"},
               NEW k \in 2..Len(tasks[n][i].blocks)
        PROVE  Height(tasks[n][i].blocks[k]) = Height(tasks[n][i].blocks[k - 1]) + 1
    <3>1. PICK t : t = tasks[n][i] /\ t \in Tasks
      BY DEF NetInv, TasksOK
    <3>2. t \in Backfills
      BY <2>1, <3>1, TaskTypes
    <3> QED
      BY <3>1, <3>2 DEF Backfills, Consecutive
  <2> QED
    BY <2>1 DEF NetInv, ChainsOK, StrikesOK, GossipOK, NetTypeOK
<1> QED
  BY <1>1, NetInvariant, PTL

(* Whatever the handlers of a node do between each other's steps, whatever *)
(* its peers send it and in whatever order, the chain of a node only ever  *)
(* moves to a valid one that is better (lib.rs:867, 884).                  *)
THEOREM NetMovesToBetter == Spec => MovesToBetter
<1>1. NetInv /\ [Next]_vars =>
        [\A n \in Nodes : chain'[n] # chain[n] =>
           ValidChain(chain'[n]) /\ Better(chain'[n], chain[n])]_vars
  BY NextNet DEF ChainsMove, Moves
<1> QED
  BY <1>1, NetInvariant, PTL DEF Spec, MovesToBetter

-----------------------------------------------------------------------------
(* The fork choice.  A tip determines the chain below it, through the      *)
(* parents, so Better orders the valid chains: of any two one is better.   *)

LEMMA TipOf ==
  ASSUME NEW c \in Seq(Blocks), ValidChain(c)
  PROVE  /\ Len(c) \in Nat \ {0} /\ c[Len(c)] \in Blocks /\ c[Len(c)] \in Int
         /\ Height(c[Len(c)]) = Len(c) - 1
<1>1. c # <<>>
  BY ValidMeans
<1>2. Len(c) \in Nat \ {0} /\ Len(c) \in 1..Len(c) /\ c[Len(c)] \in Blocks
  BY <1>1
<1> QED
  BY <1>2, HeightsOfValid, BlockTypes

LEMMA SameTip ==
  ASSUME NEW c \in Seq(Blocks), ValidChain(c), NEW d \in Seq(Blocks), ValidChain(d),
         c[Len(c)] = d[Len(d)]
  PROVE  c = d
<1>1. PICK n \in Nat : n = Len(c) /\ n = Len(d) /\ n > 0 /\ c[n] = d[n]
  BY TipOf
<1>2. PICK T : T = {k \in Nat : k < n => c[n - k] = d[n - k]}
  OBVIOUS
<1>3. 0 \in T
  BY <1>1, <1>2
<1>4. ASSUME NEW k \in T
      PROVE  k + 1 \in T
  <2>1. CASE k + 1 < n
    <3>1. PICK i \in Nat : i = n - k /\ i \in 2..Len(c) /\ i \in 2..Len(d) /\ i - 1 = n - (k + 1)
      BY <1>1, <1>2, <2>1
    <3>2. c[i] = d[i]
      BY <1>2, <2>1, <3>1
    <3>3. Parent(c[i]) = c[i - 1] /\ Parent(d[i]) = d[i - 1]
      BY <3>1, ValidMeans DEF ValidAt
    <3> QED
      BY <1>2, <3>1, <3>2, <3>3
  <2>2. CASE ~(k + 1 < n)
    BY <1>2, <2>2
  <2> QED
    BY <2>1, <2>2
<1>5. T = Nat
  <2>1. T \in SUBSET Nat
    BY <1>2
  <2> QED
    BY <1>3, <1>4, <2>1, NumberInduction
<1>6. ASSUME NEW i \in 1..n
      PROVE  c[i] = d[i]
  <2>1. n - i \in Nat /\ n - i < n /\ n - (n - i) = i
    BY <1>1
  <2>2. n - i \in T
    BY <1>5, <2>1
  <2>3. c[n - (n - i)] = d[n - (n - i)]
    BY <1>2, <2>1, <2>2
  <2> QED
    BY <2>1, <2>3
<1>7. Len(c) = Len(d) /\ \A i \in 1..Len(c) : c[i] = d[i]
  BY <1>1, <1>6
<1> QED
  BY <1>7

(* The order that the nodes' choices follow (lib.rs:883): no chain is      *)
(* better than itself, what is better than a better chain is better, and   *)
(* of two valid chains exactly one is better than the other.               *)
THEOREM BetterIsAnOrder ==
  ASSUME NEW c \in Seq(Blocks), ValidChain(c), NEW d \in Seq(Blocks), ValidChain(d),
         NEW e \in Seq(Blocks), ValidChain(e)
  PROVE  /\ ~Better(c, c)
         /\ Better(e, d) /\ Better(d, c) => Better(e, c)
         /\ c # d => (Better(c, d) <=> ~Better(d, c))
<1>1. Work(c) \in Nat /\ Work(d) \in Nat /\ Work(e) \in Nat
  BY WorkType
<1>2. c[Len(c)] \in Int /\ d[Len(d)] \in Int /\ e[Len(e)] \in Int
  BY TipOf
<1>3. c # d => c[Len(c)] # d[Len(d)]
  BY SameTip
<1> QED
  BY <1>1, <1>2, <1>3 DEF Better

(* The blocks of a chain above a fork, which a peer sends for a reorg.     *)
Above(c, fork) == SubSeq(c, fork + 2, Len(c))

LEMMA TwoParts ==
  ASSUME NEW c \in Seq(Blocks), NEW fork \in Nat, fork + 1 < Len(c)
  PROVE  /\ Below(c, fork) \in Seq(Blocks) /\ Len(Below(c, fork)) = fork + 1
         /\ Above(c, fork) \in Seq(Blocks) /\ Above(c, fork) # <<>>
         /\ Len(Above(c, fork)) = Len(c) - (fork + 1)
         /\ \A i \in 1..Len(c) - (fork + 1) : Above(c, fork)[i] = c[fork + 1 + i]
         /\ c = Below(c, fork) \o Above(c, fork)
<1>1. PICK k \in Nat : k = fork + 1 /\ k \in 0..Len(c) /\ k < Len(c)
  OBVIOUS
<1>2. k + 1 = fork + 2
  BY <1>1
<1>3. Below(c, fork) = SubSeq(c, 1, k) /\ Above(c, fork) = SubSeq(c, k + 1, Len(c))
  BY <1>1, <1>2 DEF Below, Above
<1>4. SubSeq(c, 1, k) \in Seq(Blocks) /\ Len(SubSeq(c, 1, k)) = k
  BY <1>1, Begins
<1>5. PICK e : e = SubSeq(c, k + 1, Len(c))
  OBVIOUS
<1>6. e \in Seq(Blocks) /\ Len(e) = Len(c) - k /\ \A i \in 1..Len(c) - k : e[i] = c[k + i]
  BY <1>1, <1>5
<1>7. e # <<>>
  BY <1>1, <1>6
<1>8. c = SubSeq(c, 1, k) \o SubSeq(c, k + 1, Len(c))
  BY <1>1, InTwo
<1> QED
  BY <1>1, <1>3, <1>4, <1>5, <1>6, <1>7, <1>8

(* The blocks of a valid chain can be committed one after the other.       *)
LEMMA ValidCommits ==
  ASSUME NEW c \in Seq(Blocks), ValidChain(c), NEW fork \in Nat, fork + 1 < Len(c)
  PROVE  AllCommit(Below(c, fork), Above(c, fork))
<1>1. PICK b, e : b = Below(c, fork) /\ e = Above(c, fork)
  OBVIOUS
<1>2. PICK k \in Nat, n \in Nat : k = fork + 1 /\ n = Len(c) /\ k < n /\ k > 0
  OBVIOUS
<1>3. /\ b \in Seq(Blocks) /\ Len(b) = k
      /\ e \in Seq(Blocks) /\ Len(e) = n - k /\ \A i \in 1..n - k : e[i] = c[k + i]
      /\ b = SubSeq(c, 1, k) /\ DOMAIN e = 1..n - k
  <2>1. /\ b \in Seq(Blocks) /\ Len(b) = k
        /\ e \in Seq(Blocks) /\ Len(e) = n - k /\ \A i \in 1..n - k : e[i] = c[k + i]
    BY <1>1, <1>2, TwoParts
  <2>2. b = SubSeq(c, 1, k)
    BY <1>1, <1>2 DEF Below
  <2>3. DOMAIN e = 1..n - k
    BY <2>1
  <2> QED
    BY <2>1, <2>2, <2>3
<1>4. \A i \in 1..k : b[i] = c[i]
  <2>1. k \in 0..Len(c)
    BY <1>2
  <2> QED
    BY <1>3, <2>1, Begins
<1>5. ASSUME NEW i \in 1..n - k
      PROVE  CommitOk(b \o SubSeq(e, 1, i - 1), e[i])
  <2>1. PICK m \in Nat : m = i - 1 /\ m \in 0..Len(e)
    BY <1>3
  <2>2. PICK f : f = SubSeq(e, 1, m)
    OBVIOUS
  <2>3. f \in Seq(Blocks) /\ Len(f) = m /\ \A j \in 1..m : f[j] = e[j]
    BY <1>3, <2>1, <2>2, Begins
  <2>4. PICK g : g = b \o f
    OBVIOUS
  <2>5. /\ g \in Seq(Blocks) /\ Len(g) = k + m
        /\ \A j \in 1..k : g[j] = b[j]
        /\ \A j \in 1..m : g[k + j] = f[j]
    <3>1. b \in Seq(Blocks) /\ f \in Seq(Blocks) /\ Len(b) = k /\ Len(f) = m
      BY <1>3, <2>3
    <3> QED
      BY <2>4, <3>1, Joined
  <2>6. PICK l \in Nat : l = k + m /\ l = (k + i) - 1 /\ l > 0 /\ l \in 0..Len(c) /\ k + i \in 2..Len(c)
    BY <1>2, <2>1
  <2>7. ASSUME NEW j \in 1..l
        PROVE  g[j] = c[j]
    <3>1. CASE j <= k
      <4>1. j \in 1..k
        BY <3>1
      <4> QED
        BY <1>4, <2>5, <4>1
    <3>2. CASE j > k
      <4>1. PICK h \in Nat : h = j - k /\ h \in 1..m /\ h \in 1..n - k /\ k + h = j
        BY <2>1, <2>6, <3>2
      <4>2. g[k + h] = f[h] /\ f[h] = e[h] /\ e[h] = c[k + h]
        BY <1>3, <2>3, <2>5, <4>1
      <4> QED
        BY <4>1, <4>2
    <3> QED
      BY <3>1, <3>2
  <2>8. SubSeq(c, 1, l) = g
    <3>1. PICK h : h = SubSeq(c, 1, l)
      OBVIOUS
    <3>2. h \in Seq(Blocks) /\ Len(h) = l /\ \A j \in 1..l : h[j] = c[j]
      BY <2>6, <3>1, Begins
    <3>3. h = g
      BY <2>5, <2>6, <2>7, <3>2
    <3> QED
      BY <3>1, <3>3
  <2>9. ValidAt(c, k + i)
    BY <2>6, ValidMeans
  <2>10. e[i] = c[k + i] /\ (k + i) - 1 = l
    BY <1>3, <2>6
  <2>11. Last(g) = c[l] /\ Len(g) = l
    <3>1. l \in 1..l
      BY <2>6
    <3> QED
      BY <2>5, <2>6, <2>7, <3>1 DEF Last
  <2>12. CommitOk(g, e[i])
    BY <2>8, <2>9, <2>10, <2>11 DEF ValidAt, CommitOk, Fits
  <2> QED
    BY <2>1, <2>2, <2>4, <2>12
<1>6. AllCommit(b, e)
  BY <1>3, <1>5 DEF AllCommit
<1> QED
  BY <1>1, <1>6

(* Two nodes on the two sides of a fork, each of which is sent the other's *)
(* blocks above it, end on the same chain, the better one of the two, and  *)
(* neither reorg fails, which would be a strike: the comparison of the     *)
(* tails (lib.rs:883) decides as the whole chains would.                   *)
THEOREM ForksAreSettled ==
  ASSUME NEW c \in Seq(Blocks), ValidChain(c), NEW d \in Seq(Blocks), ValidChain(d),
         NEW fork \in Nat, fork + 1 < Len(c), fork + 1 < Len(d),
         Below(c, fork) = Below(d, fork)
  PROVE  /\ AfterReorg(c, fork, Above(d, fork)) = AfterReorg(d, fork, Above(c, fork))
         /\ AfterReorg(c, fork, Above(d, fork)) = IF Better(d, c) THEN d ELSE c
         /\ ~ReorgFails(c, fork, Above(d, fork)) /\ ~ReorgFails(d, fork, Above(c, fork))
<1>1. PICK b, e, l : b = Below(c, fork) /\ e = Above(d, fork) /\ l = Above(c, fork)
  OBVIOUS
<1>2. /\ b \in Seq(Blocks) /\ l \in Seq(Blocks) /\ l # <<>> /\ c = b \o l
      /\ e \in Seq(Blocks) /\ e # <<>> /\ d = b \o e
  BY <1>1, TwoParts
<1>3. AllCommit(b, e) /\ AllCommit(b, l)
  BY <1>1, ValidCommits
<1>4. Work(c) = Work(b) + Work(l) /\ Work(d) = Work(b) + Work(e)
  BY <1>2, WorkAdds
<1>5. Work(b) \in Nat /\ Work(l) \in Nat /\ Work(e) \in Nat
  BY <1>2, WorkType
<1>6. c[Len(c)] = l[Len(l)] /\ d[Len(d)] = e[Len(e)]
  <2>1. Len(l) \in 1..Len(l) /\ Len(e) \in 1..Len(e)
    BY <1>2
  <2>2. Len(c) = Len(b) + Len(l) /\ Len(d) = Len(b) + Len(e)
    BY <1>2, Joined
  <2> QED
    BY <1>2, <2>1, <2>2, Joined
<1>7. CandidateWins(c, fork, e) <=> Better(d, c)
  <2>1. CandidateWins(c, fork, e) <=>
          \/ Work(e) > Work(l)
          \/ Work(e) = Work(l) /\ e[Len(e)] < c[Len(c)]
    BY <1>1 DEF CandidateWins, Above, Last
  <2>2. /\ Work(e) > Work(l) <=> Work(d) > Work(c)
        /\ Work(e) = Work(l) <=> Work(d) = Work(c)
    BY <1>4, <1>5
  <2> QED
    BY <1>6, <2>1, <2>2 DEF Better
<1>8. CandidateWins(d, fork, l) <=> Better(c, d)
  <2>1. CandidateWins(d, fork, l) <=>
          \/ Work(l) > Work(e)
          \/ Work(l) = Work(e) /\ l[Len(l)] < d[Len(d)]
    BY <1>1 DEF CandidateWins, Above, Last
  <2>2. /\ Work(l) > Work(e) <=> Work(c) > Work(d)
        /\ Work(l) = Work(e) <=> Work(c) = Work(d)
    BY <1>4, <1>5
  <2> QED
    BY <1>6, <2>1, <2>2 DEF Better
<1>9. ReorgMoves(c, fork, e) <=> Better(d, c)
  BY <1>1, <1>3, <1>7 DEF ReorgMoves
<1>10. ReorgMoves(d, fork, l) <=> Better(c, d)
  BY <1>1, <1>3, <1>8 DEF ReorgMoves
<1>11. AfterReorg(c, fork, e) = IF Better(d, c) THEN d ELSE c
  BY <1>1, <1>2, <1>9 DEF AfterReorg
<1>12. AfterReorg(d, fork, l) = IF Better(c, d) THEN c ELSE d
  BY <1>1, <1>2, <1>10 DEF AfterReorg
<1>13. AfterReorg(c, fork, e) = AfterReorg(d, fork, l)
  <2>1. c # d => (Better(c, d) <=> ~Better(d, c))
    BY BetterIsAnOrder
  <2> QED
    BY <1>11, <1>12, <2>1
<1>14. ~ReorgFails(c, fork, e) /\ ~ReorgFails(d, fork, l)
  BY <1>1, <1>3 DEF ReorgFails
<1> QED
  BY <1>1, <1>11, <1>13, <1>14

(* Nodes whose tips have the same hash have the same chain, and so the     *)
(* same coins, whatever was lost, forked or reorganised on the way.        *)
THEOREM SameTipSameChain ==
  Spec => [](\A n, p \in Nodes : Last(chain[n]) = Last(chain[p]) => chain[n] = chain[p])
<1>1. NetInv => \A n, p \in Nodes : Last(chain[n]) = Last(chain[p]) => chain[n] = chain[p]
  BY SameTip DEF NetInv, ChainsOK, Last
<1> QED
  BY <1>1, NetInvariant, PTL

-----------------------------------------------------------------------------
(* Who is struck.  First, what a block that some node can commit says of   *)
(* the chains it fits.                                                     *)

LEMMA BlocksStep ==
  ASSUME NEW step \in [Blocks -> Blocks], NEW b \in Blocks
  PROVE  \E g \in [Nat -> Blocks] : g[0] = b /\ \A n \in Nat : g[n + 1] = step[g[n]]
  BY StepsExist

LEMMA AncestorsExist ==
  ASSUME NEW b \in Blocks
  PROVE  \E g \in [Nat -> Blocks] :
           g = [k \in Nat |-> IF k = 0 THEN b ELSE Parent(g[k - 1])]
<1>1. PICK step : step = [x \in Blocks |-> Parent(x)]
  OBVIOUS
<1>2. step \in [Blocks -> Blocks] /\ \A x \in Blocks : step[x] = Parent(x)
  BY <1>1, BlockTypes
<1>3. PICK g \in [Nat -> Blocks] : g[0] = b /\ \A n \in Nat : g[n + 1] = step[g[n]]
  BY <1>2, BlocksStep
<1>4. PICK e : e = [k \in Nat |-> IF k = 0 THEN b ELSE Parent(g[k - 1])]
  OBVIOUS
<1>5. ASSUME NEW k \in Nat
      PROVE  e[k] = g[k]
  <2>1. CASE k = 0
    BY <1>3, <1>4, <2>1
  <2>2. CASE k # 0
    <3>1. PICK j \in Nat : j = k - 1 /\ j + 1 = k
      BY <2>2
    <3>2. g[j + 1] = Parent(g[j])
      BY <1>2, <1>3
    <3> QED
      BY <1>4, <2>2, <3>1, <3>2
  <2> QED
    BY <2>1, <2>2
<1>6. e = g
  BY <1>3, <1>4, <1>5
<1> QED
  BY <1>4, <1>6

(* The blocks from genesis to a block are as many as its height says, and  *)
(* the block is the last of them.                                          *)
LEMMA PathEnds ==
  ASSUME NEW b \in Blocks
  PROVE  /\ PathTo(b) \in Seq(Blocks) /\ Len(PathTo(b)) = Height(b) + 1
         /\ PathTo(b)[Height(b) + 1] = b
<1> DEFINE Is(g) == g = [k \in Nat |-> IF k = 0 THEN b ELSE Parent(g[k - 1])]
           a == CHOOSE g : Is(g)
<1>1. PICK n \in Nat : n = Height(b) + 1
  BY BlockTypes
<1>2. PathTo(b) = [i \in 1..n |-> a[n - i]]
  BY <1>1 DEF PathTo
<1>3. Is(a)
  BY AncestorsExist
<1> HIDE DEF a
<1>4. \A k \in Nat : a[k] \in Blocks
  <2>1. PICK T : T = {k \in Nat : a[k] \in Blocks}
    OBVIOUS
  <2>2. 0 \in T
    BY <1>3, <2>1
  <2>3. ASSUME NEW k \in T
        PROVE  k + 1 \in T
    <3>1. k + 1 \in Nat /\ k + 1 # 0 /\ (k + 1) - 1 = k /\ a[k] \in Blocks
      BY <2>1
    <3>2. a[k + 1] = Parent(a[k])
      BY <1>3, <3>1
    <3> QED
      BY <2>1, <3>1, <3>2, BlockTypes
  <2>4. T \in SUBSET Nat
    BY <2>1
  <2> QED
    BY <2>1, <2>2, <2>3, <2>4, NumberInduction
<1>5. PICK s : s = [i \in 1..n |-> a[n - i]]
  OBVIOUS
<1>6. \A i \in 1..n : n - i \in Nat
  BY <1>1
<1>7. s \in [1..n -> Blocks]
  BY <1>4, <1>5, <1>6
<1>8. s \in Seq(Blocks) /\ Len(s) = n
  BY <1>1, <1>7
<1>9. s[n] = b
  <2>1. n \in 1..n /\ n - n = 0 /\ 0 \in Nat
    BY <1>1, BlockTypes
  <2>2. s[n] = a[0]
    BY <1>5, <2>1
  <2> QED
    BY <1>3, <2>1, <2>2
<1> QED
  BY <1>1, <1>2, <1>5, <1>8, <1>9

(* A block that some node can commit goes on any valid chain that ends in  *)
(* its parent, there being only one; the first block is not committed.     *)
LEMMA SoundFits ==
  ASSUME NEW c \in Seq(Blocks), ValidChain(c), NEW b \in Blocks, Sound(b),
         b # GenesisBlock, Parent(b) = c[Len(c)]
  PROVE  CommitOk(c, b)
<1>1. PICK d : d = PathTo(b) /\ d \in Seq(Blocks) /\ ValidChain(d)
  BY PathEnds DEF Sound
<1>2. PICK n \in Nat : n = Height(b) /\ Len(d) = n + 1 /\ d[n + 1] = b
  BY <1>1, BlockTypes, PathEnds
<1>3. n # 0
  <2> SUFFICES ASSUME n = 0 PROVE FALSE
    OBVIOUS
  <2>1. d[1] = b
    BY <1>2
  <2> QED
    BY <1>1, <2>1, ValidMeans
<1>4. n \in 1..Len(d) /\ n \in 0..Len(d) /\ n + 1 \in 2..Len(d) /\ (n + 1) - 1 = n
  BY <1>2, <1>3
<1>5. PICK e : e = SubSeq(d, 1, n)
  OBVIOUS
<1>6. e \in Seq(Blocks) /\ Len(e) = n /\ e[n] = d[n] /\ ValidChain(e)
  BY <1>1, <1>4, <1>5, Begins, ValidBegin
<1>7. ValidAt(d, n + 1)
  BY <1>1, <1>4, ValidMeans
<1>8. Parent(b) = d[n] /\ BlockValid(Replay(e), b, TargetAfter(e))
  BY <1>2, <1>4, <1>5, <1>7 DEF ValidAt
<1>9. e[Len(e)] = c[Len(c)]
  BY <1>6, <1>8
<1>10. e = c
  BY <1>6, <1>9, SameTip
<1> QED
  BY <1>2, <1>6, <1>8, <1>10 DEF CommitOk, Fits, Last

LEMMA SoundHeight ==
  ASSUME NEW b \in Blocks, Sound(b), b # GenesisBlock
  PROVE  Height(b) > 0 /\ Height(Parent(b)) = Height(b) - 1
<1>1. PICK d : d = PathTo(b) /\ d \in Seq(Blocks) /\ ValidChain(d)
  BY PathEnds DEF Sound
<1>2. PICK n \in Nat : n = Height(b) /\ Len(d) = n + 1 /\ d[n + 1] = b
  BY <1>1, BlockTypes, PathEnds
<1>3. n # 0
  <2> SUFFICES ASSUME n = 0 PROVE FALSE
    OBVIOUS
  <2>1. d[1] = b
    BY <1>2
  <2> QED
    BY <1>1, <2>1, ValidMeans
<1>4. n \in 1..Len(d) /\ n + 1 \in 2..Len(d) /\ (n + 1) - 1 = n
  BY <1>2, <1>3
<1>5. Parent(d[n + 1]) = d[n]
  BY <1>1, <1>4, ValidMeans DEF ValidAt
<1>6. Height(d[n]) = n - 1
  BY <1>1, <1>4, HeightsOfValid
<1> QED
  BY <1>2, <1>3, <1>5, <1>6

(* A branch above a fork of the chain: each block on the one before it.    *)
Linked(c, fork, s) ==
  /\ Parent(s[1]) = c[fork + 1]
  /\ \A k \in 2..Len(s) : Parent(s[k]) = s[k - 1]

Committable(b) == Sound(b) /\ b # GenesisBlock

(* The first blocks of such a branch, each of which some node can commit,  *)
(* leave a valid chain.                                                    *)
LEMMA BranchStep ==
  ASSUME NEW d \in Seq(Blocks), NEW e \in Seq(Blocks), NEW m \in Nat, m < Len(e),
         ValidChain(d \o SubSeq(e, 1, m)), Committable(e[m + 1]),
         Parent(e[m + 1]) = IF m = 0 THEN d[Len(d)] ELSE e[m], d # <<>>
  PROVE  /\ CommitOk(d \o SubSeq(e, 1, m), e[m + 1])
         /\ ValidChain(d \o SubSeq(e, 1, m + 1))
<1>1. PICK s, t : s = SubSeq(e, 1, m) /\ t = SubSeq(e, 1, m + 1)
  OBVIOUS
<1>2. s \in Seq(Blocks) /\ Len(s) = m /\ \A i \in 1..m : s[i] = e[i]
  <2>1. m \in 0..Len(e)
    OBVIOUS
  <2> QED
    BY <1>1, <2>1, Begins
<1>3. t \in Seq(Blocks) /\ Len(t) = m + 1 /\ \A i \in 1..m + 1 : t[i] = e[i]
  <2>1. m + 1 \in 0..Len(e)
    OBVIOUS
  <2> QED
    BY <1>1, <2>1, Begins
<1>4. PICK b \in Blocks : b = e[m + 1]
  OBVIOUS
<1>5. PICK f, g : f = d \o s /\ g = d \o t
  OBVIOUS
<1>6. /\ f \in Seq(Blocks) /\ Len(f) = Len(d) + m
      /\ \A i \in 1..Len(d) : f[i] = d[i]
      /\ \A i \in 1..m : f[Len(d) + i] = e[i]
  BY <1>2, <1>5, Joined
<1>7. /\ g \in Seq(Blocks) /\ Len(g) = Len(d) + (m + 1)
      /\ \A i \in 1..Len(d) : g[i] = d[i]
      /\ \A i \in 1..m + 1 : g[Len(d) + i] = e[i]
  <2>1. /\ g \in Seq(Blocks) /\ Len(g) = Len(d) + Len(t)
        /\ \A i \in 1..Len(d) : g[i] = d[i]
        /\ \A i \in 1..Len(t) : g[Len(d) + i] = t[i]
    BY <1>3, <1>5, Joined
  <2>2. Len(t) = m + 1
    BY <1>3
  <2> QED
    BY <1>3, <2>1, <2>2
<1>8. Parent(b) = f[Len(f)]
  <2>1. CASE m = 0
    <3>1. Len(d) \in 1..Len(d) /\ Len(f) = Len(d)
      BY <1>6, <2>1
    <3> QED
      BY <1>4, <1>6, <2>1, <3>1
  <2>2. CASE m # 0
    <3>1. m \in 1..m
      BY <2>2
    <3> QED
      BY <1>4, <1>6, <2>2, <3>1
  <2> QED
    BY <2>1, <2>2
<1>9. ValidChain(f)
  BY <1>1, <1>5
<1>10. CommitOk(f, b)
  BY <1>4, <1>6, <1>8, <1>9, SoundFits DEF Committable
<1>11. ValidChain(Append(f, b))
  BY <1>6, <1>9, <1>10, AppendMoves DEF Moves
<1>12. g = Append(f, b)
  <2>1. PICK h : h = Append(f, b)
    OBVIOUS
  <2>2. /\ h \in Seq(Blocks) /\ Len(h) = Len(f) + 1 /\ h[Len(f) + 1] = b
        /\ \A i \in 1..Len(f) : h[i] = f[i]
    <3>1. f \in Seq(Blocks)
      BY <1>6
    <3> QED
      BY <2>1, <3>1
  <2>3. ASSUME NEW i \in 1..Len(g)
        PROVE  g[i] = h[i]
    <3>1. CASE i <= Len(d)
      <4>1. i \in 1..Len(d) /\ i \in 1..Len(f)
        BY <1>6, <3>1
      <4> QED
        BY <1>6, <1>7, <2>2, <4>1
    <3>2. CASE i > Len(d)
      <4>0. PICK p \in Nat : p = Len(d)
        OBVIOUS
      <4>1. PICK j \in Nat : i = p + j /\ j \in 1..m + 1
        <5>1. i \in 1..p + (m + 1) /\ i > p
          BY <1>7, <3>2, <4>0
        <5>2. i - p \in Nat /\ i = p + (i - p) /\ i - p \in 1..m + 1
          BY <4>0, <5>1
        <5> QED
          BY <5>2
      <4>2. g[i] = e[j]
        BY <1>7, <4>0, <4>1
      <4>3. CASE j = m + 1
        <5>1. i = Len(f) + 1
          BY <1>6, <4>0, <4>1, <4>3
        <5> QED
          BY <1>4, <2>2, <4>2, <4>3, <5>1
      <4>4. CASE j # m + 1
        <5>1. j \in 1..m
          BY <4>1, <4>4
        <5>2. i \in 1..p + m
          BY <4>0, <4>1, <5>1
        <5>3. h[i] = f[i] /\ f[Len(d) + j] = e[j]
          BY <1>6, <2>2, <4>0, <5>1, <5>2
        <5> QED
          BY <4>0, <4>1, <4>2, <5>3
      <4> QED
        BY <4>3, <4>4
    <3> QED
      BY <3>1, <3>2
  <2>4. Len(g) = Len(h)
    BY <1>6, <1>7, <2>2
  <2>5. g = h
    BY <1>7, <2>2, <2>3, <2>4
  <2> QED
    BY <2>1, <2>5
<1> QED
  BY <1>1, <1>4, <1>5, <1>10, <1>11, <1>12

LEMMA BranchCommits ==
  ASSUME NEW c \in Seq(Blocks), ValidChain(c), NEW fork \in 0..Len(c) - 1,
         NEW e \in Seq(Blocks), Linked(c, fork, e), \A k \in 1..Len(e) : Committable(e[k])
  PROVE  AllCommit(Below(c, fork), e)
<1>1. PICK k : k = fork + 1 /\ k \in 1..Len(c) /\ k \in 0..Len(c)
  OBVIOUS
<1>2. PICK d : d = Below(c, fork)
  OBVIOUS
<1>3. /\ d \in Seq(Blocks) /\ Len(d) = k /\ d[k] = c[k] /\ ValidChain(d) /\ d # <<>>
  <2>1. d = SubSeq(c, 1, k)
    BY <1>1, <1>2 DEF Below
  <2>2. d \in Seq(Blocks) /\ Len(d) = k /\ d[k] = c[k] /\ ValidChain(d)
    BY <1>1, <2>1, Begins, ValidBegin
  <2> QED
    BY <1>1, <2>2
<1>4. ASSUME NEW m \in Nat, m < Len(e)
      PROVE  /\ Committable(e[m + 1])
             /\ Parent(e[m + 1]) = IF m = 0 THEN d[Len(d)] ELSE e[m]
  <2>1. Committable(e[m + 1])
    <3>1. m + 1 \in 1..Len(e)
      BY <1>4
    <3> QED
      BY <3>1
  <2>2. CASE m = 0
    BY <1>1, <1>3, <2>1, <2>2 DEF Linked
  <2>3. CASE m # 0
    <3>1. m + 1 \in 2..Len(e) /\ (m + 1) - 1 = m
      BY <1>4, <2>3
    <3>2. Parent(e[m + 1]) = e[(m + 1) - 1]
      BY <3>1 DEF Linked
    <3> QED
      BY <2>1, <2>3, <3>1, <3>2
  <2> QED
    BY <2>2, <2>3
<1>5. PICK T : T = {m \in Nat : m <= Len(e) => ValidChain(d \o SubSeq(e, 1, m))}
  OBVIOUS
<1>6. 0 \in T
  <2>1. d \o SubSeq(e, 1, 0) = d
    BY <1>3
  <2> QED
    BY <1>3, <1>5, <2>1
<1>7. ASSUME NEW m \in T
      PROVE  m + 1 \in T
  <2>1. m \in Nat /\ m + 1 \in Nat
    BY <1>5
  <2>2. CASE m + 1 <= Len(e)
    <3>1. m < Len(e) /\ m <= Len(e)
      BY <2>1, <2>2
    <3>2. ValidChain(d \o SubSeq(e, 1, m))
      BY <1>5, <3>1
    <3>3. ValidChain(d \o SubSeq(e, 1, m + 1))
      BY <1>3, <1>4, <2>1, <3>1, <3>2, BranchStep
    <3> QED
      BY <1>5, <2>1, <3>3
  <2>3. CASE ~(m + 1 <= Len(e))
    BY <1>5, <2>1, <2>3
  <2> QED
    BY <2>2, <2>3
<1>8. T \in SUBSET Nat
  BY <1>5
<1>9. T = Nat
  BY <1>6, <1>7, <1>8, NumberInduction
<1>10. ASSUME NEW i \in DOMAIN e
       PROVE  CommitOk(d \o SubSeq(e, 1, i - 1), e[i])
  <2>1. PICK m \in Nat : m = i - 1 /\ m < Len(e) /\ m <= Len(e) /\ m + 1 = i
    OBVIOUS
  <2>2. ValidChain(d \o SubSeq(e, 1, m))
    BY <1>5, <1>9, <2>1
  <2>3. CommitOk(d \o SubSeq(e, 1, m), e[m + 1])
    BY <1>3, <1>4, <2>1, <2>2, BranchStep
  <2> QED
    BY <2>1, <2>3
<1> QED
  BY <1>2, <1>10 DEF AllCommit

(* Blocks that are not a branch of the chain: the first one's parent is no *)
(* block of it, or one of the others is not on the one before it.          *)
Loose(c, s) ==
  \/ Parent(s[1]) \notin ToSet(c)
  \/ \E k \in 2..Len(s) : Parent(s[k]) # s[k - 1]

LEMMA LooseOrLinked ==
  ASSUME NEW c \in Seq(Blocks), ValidChain(c), NEW e \in Seq(Blocks), ~Loose(c, e)
  PROVE  /\ Height(Parent(e[1])) \in 0..Len(c) - 1
         /\ Linked(c, Height(Parent(e[1])), e)
<1>1. Parent(e[1]) \in ToSet(c) /\ \A k \in 2..Len(e) : Parent(e[k]) = e[k - 1]
  BY DEF Loose
<1>2. PICK j \in 1..Len(c) : c[j] = Parent(e[1])
  BY <1>1 DEF ToSet
<1>3. Height(c[j]) = j - 1
  BY HeightsOfValid
<1>4. Height(Parent(e[1])) = j - 1 /\ j - 1 \in 0..Len(c) - 1 /\ (j - 1) + 1 = j
  BY <1>2, <1>3
<1> QED
  BY <1>1, <1>2, <1>4 DEF Linked

(* A reorg that fails has a block that no node commits, or blocks that do  *)
(* not fit together.                                                       *)
LEMMA FailsIfLoose ==
  ASSUME NEW c \in Seq(Blocks), ValidChain(c), NEW e \in Seq(Blocks), e # <<>>,
         \A k \in 1..Len(e) : e[k] # GenesisBlock,
         NEW fork, fork = Height(Parent(e[1])), ReorgFails(c, fork, e)
  PROVE  Loose(c, e) \/ \E k \in 1..Len(e) : ~Sound(e[k])
<1> SUFFICES ASSUME ~Loose(c, e), \A k \in 1..Len(e) : Sound(e[k])
             PROVE  FALSE
  OBVIOUS
<1>1. fork \in 0..Len(c) - 1 /\ Linked(c, fork, e)
  BY LooseOrLinked
<1>2. \A k \in 1..Len(e) : Committable(e[k])
  BY DEF Committable
<1>3. AllCommit(Below(c, fork), e)
  BY <1>1, <1>2, BranchCommits
<1> QED
  BY <1>3 DEF ReorgFails

(* Nobody is sent the genesis block.                                       *)
GenesisStays ==
  /\ \A n \in Nodes : GenesisBlock \notin outbox[n]
  /\ \A m \in gossip : m.block # GenesisBlock

LEMMA GenesisIsSound == Sound(GenesisBlock)
<1>1. Height(GenesisBlock) = 0 /\ GenesisBlock \in Blocks
  BY TypesAssumption DEF Height
<1>2. PICK d : d = PathTo(GenesisBlock) /\ d \in Seq(Blocks) /\ Len(d) = 1 /\ d[1] = GenesisBlock
  <2>1. PICK d : d = PathTo(GenesisBlock)
    OBVIOUS
  <2>2. d \in Seq(Blocks) /\ Len(d) = 0 + 1 /\ d[0 + 1] = GenesisBlock
    BY <1>1, <2>1, PathEnds
  <2> QED
    BY <2>1, <2>2
<1>3. d # <<>> /\ \A i \in 2..Len(d) : ValidAt(d, i)
  BY <1>2
<1> QED
  BY <1>2, <1>3, ValidMeans DEF Sound

LEMMA CopiesOf ==
  ASSUME NEW n, NEW b, NEW s, NEW m \in Copies(n, b, s)
  PROVE  m.block = b
  BY DEF Copies

LEMMA GenesisStaysPut == Spec => []GenesisStays
<1>1. Init => GenesisStays
  BY DEF Init, GenesisStays
<1>2. NetInv /\ GenesisStays /\ [Next]_vars => GenesisStays'
  <2> SUFFICES ASSUME NetInv, GenesisStays, [Next]_vars PROVE GenesisStays'
    OBVIOUS
  <2>1. CASE UNCHANGED <<outbox, gossip>>
    BY <2>1 DEF GenesisStays
  <2>2. ASSUME NEW n \in Nodes, NEW b \in Blocks, Mine(n, b)
        PROVE  GenesisStays'
    <3>1. Len(chain[n]) \in Nat \ {0}
      BY NotEmpty DEF NetInv
    <3>2. b # GenesisBlock
      BY <2>2, <3>1, TypesAssumption DEF Mine, CommitOk, Fits, Height
    <3> QED
      BY <2>2, <3>2 DEF Mine, GenesisStays, NetInv, GossipOK
  <2>3. ASSUME NEW n \in Nodes, NEW b \in Blocks, Misbehave(n, b)
        PROVE  GenesisStays'
    <3>1. b # GenesisBlock
      BY <2>3, GenesisIsSound DEF Misbehave
    <3> QED
      BY <2>3, <3>1 DEF Misbehave, GenesisStays, NetInv, GossipOK
  <2>4. ASSUME NEW n \in Nodes, NEW b \in Blocks, Publish(n, b)
        PROVE  GenesisStays'
    <3>1. b # GenesisBlock
      BY <2>4 DEF Publish, GenesisStays
    <3>2. \A m \in gossip' : m \in gossip \/ m.block = b
      BY <2>4, CopiesOf DEF Publish
    <3> QED
      BY <2>4, <3>1, <3>2 DEF Publish, GenesisStays, NetInv, GossipOK
  <2>5. ASSUME NEW m \in gossip, Lose(m)
        PROVE  GenesisStays'
    BY <2>5 DEF Lose, GenesisStays
  <2>6. ASSUME NEW m, NEW accepted, Hear(m, accepted)
        PROVE  GenesisStays'
    <3>1. m.block # GenesisBlock
      BY <2>6 DEF Hear, GenesisStays
    <3>2. \A x \in gossip' : x \in gossip \/ x.block = m.block
      BY <2>6, CopiesOf DEF Hear
    <3> QED
      BY <2>6, <3>1, <3>2 DEF Hear, GenesisStays
  <2>7. ASSUME NEW m \in gossip, HandleGossip(m)
        PROVE  GenesisStays'
    <3>1. Hear(m, TRUE) \/ Hear(m, FALSE)
      BY <2>7 DEF HandleGossip, InboundExtends, InboundInvalid, InboundSibling, InboundOrphan
    <3> QED
      BY <2>6, <3>1
  <2>8. ASSUME NEW n \in Nodes, NEW p \in Nodes, Connect(n, p) \/ Disconnect(n, p) \/ Ban(n, p)
        PROVE  GenesisStays'
    BY <2>1, <2>8 DEF Connect, Disconnect, Ban
  <2>9. ASSUME NEW n \in Nodes, NEW i \in Slots, TaskSteps(n, i)
        PROVE  GenesisStays'
    BY <2>1, <2>9 DEF TaskSteps, BackfillLookup, BackfillAnswer, BackfillReorg, IbdWindowStart,
                      IbdAnswer, IbdApply, TaskOnly, TaskStep
  <2>10. CASE UNCHANGED vars
    BY <2>1, <2>10 DEF vars
  <2> QED
    BY <2>2, <2>3, <2>4, <2>5, <2>7, <2>8, <2>9, <2>10 DEF Next, Progress
<1> QED
  BY <1>1, <1>2, NetInvariant, PTL DEF Spec

(* The blocks of p that a handler of n may weigh against the chain next.   *)
Branches(p, n) ==
  {<<m.block>> : m \in {x \in gossip : /\ x.from = p /\ x.to = n
                                       /\ Height(x.block) = TipHeight(chain[n])}} \cup
  {tasks[n][i].blocks : i \in {j \in Slots : tasks[n][j].stage = "reorg" /\ tasks[n][j].peer = p}}

(* The blocks that a download from p may put on top of the chain of n.     *)
Downloaded(p, n) ==
  {Head(tasks[n][i].answers) : i \in {j \in Slots : /\ tasks[n][j].stage = "download"
                                                   /\ tasks[n][j].peer = p}} \cap Blocks

(* What a peer is struck for.                                              *)
Cause(p, n) ==
  \/ \E b \in SentBy(p, n) : ~Sound(b)
  \/ \E s \in Branches(p, n) : Loose(chain[n], s)
  \/ \E b \in Downloaded(p, n) : ~Fits(chain[n], b)

LEMMA StruckBy ==
  ASSUME StrikesOK, NEW a \in Nodes, NEW q \in Nodes, NEW guilty, StrikeIf(guilty, a, q),
         NEW n \in Nodes, NEW p \in Nodes, strikes'[n][p] > strikes[n][p]
  PROVE  guilty /\ n = a /\ p = q
<1>1. guilty
  <2> SUFFICES ASSUME ~guilty PROVE FALSE
    OBVIOUS
  <2>1. strikes' = strikes
    BY DEF StrikeIf, NoStrike
  <2> QED
    BY <2>1 DEF StrikesOK
<1>2. strikes' = [strikes EXCEPT ![a][q] = @ + 1]
  BY <1>1 DEF StrikeIf, Strike
<1>3. n = a /\ p = q
  BY <1>2 DEF StrikesOK
<1> QED
  BY <1>1, <1>3

LEMMA InvalidCause ==
  ASSUME NetInv, NEW m, InboundInvalid(m)
  PROVE  Cause(m.from, m.to)
<1>1. m \in gossip /\ m.block \in Blocks /\ m.from \in Nodes /\ m.to \in Nodes
  BY DEF InboundInvalid, Hear, NetInv, GossipOK
<1>2. PICK b, c : b = m.block /\ c = chain[m.to]
  OBVIOUS
<1>3. b \in Blocks /\ c \in Seq(Blocks) /\ ValidChain(c) /\ Len(c) \in Nat \ {0}
  BY <1>1, <1>2, NotEmpty DEF NetInv, ChainsOK
<1>4. Fits(c, b) /\ ~CommitOk(c, b)
  BY <1>2 DEF InboundInvalid
<1>5. b # GenesisBlock
  BY <1>3, <1>4, TypesAssumption DEF Fits, Height
<1>6. ~Sound(b)
  BY <1>3, <1>4, <1>5, SoundFits DEF Fits, Last
<1>7. b \in SentBy(m.from, m.to)
  BY <1>1, <1>2 DEF SentBy
<1> QED
  BY <1>6, <1>7 DEF Cause

LEMMA SiblingCause ==
  ASSUME NetInv, GenesisStays, NEW m, InboundSibling(m),
         ReorgFails(chain[m.to], AtLeast(TipHeight(chain[m.to]) - 1, 0), <<m.block>>)
  PROVE  Cause(m.from, m.to)
<1>1. m \in gossip /\ m.block \in Blocks /\ m.from \in Nodes /\ m.to \in Nodes
  BY DEF InboundSibling, Hear, NetInv, GossipOK
<1>2. PICK b, c, e : b = m.block /\ c = chain[m.to] /\ e = <<m.block>>
  OBVIOUS
<1>3. b \in Blocks /\ c \in Seq(Blocks) /\ ValidChain(c) /\ Len(c) \in Nat \ {0}
  BY <1>1, <1>2, NotEmpty DEF NetInv, ChainsOK
<1>4. e \in Seq(Blocks) /\ e # <<>> /\ Len(e) = 1 /\ e[1] = b
  BY <1>2, <1>3
<1>5. Height(b) = TipHeight(c) /\ b # GenesisBlock
  BY <1>1, <1>2 DEF InboundSibling, GenesisStays
<1>6. b \in SentBy(m.from, m.to)
  BY <1>1, <1>2 DEF SentBy
<1>7. e \in Branches(m.from, m.to)
  BY <1>1, <1>2, <1>5 DEF Branches
<1>8. ASSUME Sound(b), ~Loose(c, e)
      PROVE  FALSE
  <2>1. Height(b) > 0 /\ Height(Parent(b)) = Height(b) - 1
    BY <1>3, <1>5, <1>8, SoundHeight
  <2>2. PICK fork : fork = AtLeast(TipHeight(c) - 1, 0)
    OBVIOUS
  <2>3. fork = Height(Parent(e[1]))
    BY <1>3, <1>4, <1>5, <2>1, <2>2, BlockTypes DEF AtLeast
  <2>4. ReorgFails(c, fork, e)
    BY <1>2, <2>2
  <2>5. \A k \in 1..Len(e) : e[k] # GenesisBlock /\ Sound(e[k])
    BY <1>4, <1>5, <1>8
  <2> QED
    BY <1>3, <1>4, <1>8, <2>3, <2>4, <2>5, FailsIfLoose
<1> QED
  BY <1>2, <1>6, <1>7, <1>8 DEF Cause

LEMMA ReorgCause ==
  ASSUME NetInv, NEW n \in Nodes, NEW i \in Slots, tasks[n][i].stage = "reorg",
         ReorgFails(chain[n], Height(Parent(Head(tasks[n][i].blocks))), tasks[n][i].blocks)
  PROVE  Cause(tasks[n][i].peer, n)
<1>1. PICK t : t = tasks[n][i] /\ t \in Tasks /\ t.stage = "reorg"
  BY DEF NetInv, TasksOK
<1>2. t \in Backfills
  BY <1>1, TaskTypes
<1>3. PICK c, e : c = chain[n] /\ e = t.blocks
  OBVIOUS
<1>4. c \in Seq(Blocks) /\ ValidChain(c)
  BY <1>3 DEF NetInv, ChainsOK
<1>5. e \in Seq(Blocks) /\ e # <<>> /\ Consecutive(e) /\ Head(e) # GenesisBlock
  BY <1>1, <1>2, <1>3 DEF Backfills, Gathered
<1>6. Head(e) = e[1]
  BY <1>5
<1>7. ASSUME NEW k \in 1..Len(e)
      PROVE  e[k] # GenesisBlock /\ e[k] \in SentBy(t.peer, n)
  <2>1. e[k] # GenesisBlock
    <3>1. CASE k = 1
      BY <1>5, <1>6, <3>1
    <3>2. CASE k # 1
      <4>1. k \in 2..Len(e) /\ k - 1 \in 1..Len(e)
        BY <3>2
      <4>2. e[k - 1] \in Blocks
        BY <1>5, <4>1
      <4>3. Height(e[k]) = Height(e[k - 1]) + 1 /\ Height(e[k - 1]) \in Nat
        BY <1>5, <4>1, <4>2, BlockTypes DEF Consecutive
      <4> QED
        BY <4>3, TypesAssumption DEF Height
    <3> QED
      BY <3>1, <3>2
  <2>2. e[k] \in ToSet(e)
    BY <1>5 DEF ToSet
  <2>3. e[k] \in SentBy(t.peer, n)
    BY <1>1, <1>3, <2>2 DEF SentBy
  <2> QED
    BY <2>1, <2>3
<1>8. Loose(c, e) \/ \E k \in 1..Len(e) : ~Sound(e[k])
  <2>1. PICK fork : fork = Height(Parent(e[1]))
    OBVIOUS
  <2>2. ReorgFails(c, fork, e)
    BY <1>1, <1>3, <1>6, <2>1
  <2> QED
    BY <1>4, <1>5, <1>7, <2>1, <2>2, FailsIfLoose
<1>9. e \in Branches(t.peer, n)
  BY <1>1, <1>3 DEF Branches
<1> QED
  BY <1>1, <1>3, <1>7, <1>8, <1>9 DEF Cause

LEMMA ApplyCause ==
  ASSUME NetInv, NEW n \in Nodes, NEW i \in Slots, IbdApply(n, i),
         Head(tasks[n][i].answers) # NoBlock,
         ~IbdAccepts(chain[n], Head(tasks[n][i].answers))
  PROVE  Cause(tasks[n][i].peer, n)
<1>1. PICK t : t = tasks[n][i] /\ t \in Tasks /\ t.stage = "download"
  BY DEF IbdApply, NetInv, TasksOK
<1>2. PICK a : a = t.answers /\ a \in Seq(Answers) /\ a # <<>>
  BY <1>1, TaskTypes DEF Downloads
<1>3. PICK b : b = Head(a)
  OBVIOUS
<1>4. b \in ToSet(a) /\ b \in Answers
  BY <1>2, <1>3 DEF ToSet
<1>5. b # NoBlock /\ b # Waiting
  BY <1>1, <1>2, <1>3, <1>4 DEF IbdApply
<1>6. b \in Blocks
  BY <1>4, <1>5 DEF Answers
<1>7. b \in SentBy(t.peer, n) /\ b \in Downloaded(t.peer, n)
  <2>1. b \in SentBy(t.peer, n)
    BY <1>1, <1>2, <1>4, <1>6 DEF SentBy
  <2>2. b \in Downloaded(t.peer, n)
    BY <1>1, <1>2, <1>3, <1>6 DEF Downloaded
  <2> QED
    BY <2>1, <2>2
<1>8. ASSUME Fits(chain[n], b)
      PROVE  ~Sound(b)
  <2>1. PICK c : c = chain[n] /\ c \in Seq(Blocks) /\ ValidChain(c) /\ Len(c) \in Nat \ {0}
    BY NotEmpty DEF NetInv, ChainsOK
  <2>2. b # GenesisBlock
    BY <1>8, <2>1, TypesAssumption DEF Fits, Height
  <2>3. ~CommitOk(c, b)
    BY <1>1, <1>2, <1>3, <2>1 DEF IbdAccepts
  <2> QED
    BY <1>6, <1>8, <2>1, <2>2, <2>3, SoundFits DEF Fits, Last
<1> QED
  BY <1>1, <1>7, <1>8 DEF Cause

LEMMA NextStrikes ==
  ASSUME NetInv, GenesisStays, [Next]_vars, NEW n \in Nodes, NEW p \in Nodes,
         strikes'[n][p] > strikes[n][p]
  PROVE  Cause(p, n)
<1>1. CASE UNCHANGED strikes
  BY <1>1 DEF NetInv, StrikesOK
<1>2. ASSUME NEW a \in Nodes, NEW b \in Blocks, Mine(a, b) \/ Misbehave(a, b) \/ Publish(a, b)
      PROVE  UNCHANGED strikes
  BY <1>2 DEF Mine, Misbehave, Publish
<1>3. ASSUME NEW a \in Nodes, NEW q \in Nodes, Connect(a, q) \/ Disconnect(a, q) \/ Ban(a, q)
      PROVE  UNCHANGED strikes
  BY <1>3 DEF Connect, Disconnect, Ban
<1>4. ASSUME NEW m \in gossip, Lose(m) \/ HandleGossip(m)
      PROVE  Cause(p, n)
  <2>1. m.from \in Nodes /\ m.to \in Nodes
    BY DEF NetInv, GossipOK
  <2>2. CASE Lose(m) \/ InboundExtends(m) \/ InboundOrphan(m)
    BY <1>1, <2>2 DEF Lose, InboundExtends, InboundOrphan, NoStrike
  <2>3. CASE InboundInvalid(m)
    <3>1. StrikeIf(TRUE, m.to, m.from)
      BY <2>3 DEF InboundInvalid, StrikeIf
    <3>2. n = m.to /\ p = m.from
      BY <2>1, <3>1, StruckBy DEF NetInv
    <3> QED
      BY <2>3, <3>2, InvalidCause
  <2>4. CASE InboundSibling(m)
    <3>1. PICK g : g = ReorgFails(chain[m.to], AtLeast(TipHeight(chain[m.to]) - 1, 0), <<m.block>>)
      OBVIOUS
    <3>2. StrikeIf(g, m.to, m.from)
      BY <2>4, <3>1 DEF InboundSibling
    <3>3. g /\ n = m.to /\ p = m.from
      BY <2>1, <3>2, StruckBy DEF NetInv
    <3> QED
      BY <2>4, <3>1, <3>3, SiblingCause
  <2> QED
    BY <1>4, <2>2, <2>3, <2>4 DEF HandleGossip
<1>5. ASSUME NEW a \in Nodes, NEW i \in Slots, TaskSteps(a, i)
      PROVE  Cause(p, n)
  <2>1. PICK t : t = tasks[a][i] /\ t \in Tasks
    BY DEF NetInv, TasksOK
  <2>2. CASE BackfillLookup(a, i) \/ BackfillAnswer(a, i) \/ IbdWindowStart(a, i) \/ IbdAnswer(a, i)
    BY <1>1, <2>2 DEF BackfillLookup, BackfillAnswer, IbdWindowStart, IbdAnswer, TaskOnly
  <2>3. CASE BackfillReorg(a, i)
    <3>1. t.stage = "reorg" /\ t.peer \in Nodes
      BY <2>1, <2>3, TaskTypes DEF BackfillReorg, Backfills, Gathered
    <3>2. PICK runs, fails : /\ runs = (Height(Parent(Head(t.blocks))) <= TipHeight(chain[a]))
                             /\ fails = ReorgFails(chain[a], Height(Parent(Head(t.blocks))), t.blocks)
      OBVIOUS
    <3>3. StrikeIf(runs /\ fails, a, t.peer)
      BY <2>1, <2>3, <3>2 DEF BackfillReorg
    <3>4. fails /\ n = a /\ p = t.peer
      BY <3>1, <3>3, StruckBy DEF NetInv
    <3> QED
      BY <2>1, <3>1, <3>2, <3>4, ReorgCause
  <2>4. CASE IbdApply(a, i)
    <3>1. t.stage = "download"
      BY <2>1, <2>4 DEF IbdApply
    <3>2. t.peer \in Nodes
      BY <2>1, <3>1, TaskTypes DEF Downloads
    <3>3. CASE Head(t.answers) = NoBlock
      BY <1>1, <2>1, <2>4, <3>3 DEF IbdApply, NoStrike
    <3>4. CASE Head(t.answers) # NoBlock
      <4>1. PICK guilty : guilty = ~IbdAccepts(chain[a], Head(t.answers))
        OBVIOUS
      <4>2. StrikeIf(guilty, a, t.peer)
        BY <2>1, <2>4, <3>4, <4>1 DEF IbdApply
      <4>3. guilty /\ n = a /\ p = t.peer
        BY <3>2, <4>2, StruckBy DEF NetInv
      <4> QED
        BY <2>1, <2>4, <3>4, <4>1, <4>3, ApplyCause
    <3> QED
      BY <3>3, <3>4
  <2> QED
    BY <1>5, <2>2, <2>3, <2>4 DEF TaskSteps
<1> QED
  BY <1>1, <1>2, <1>3, <1>4, <1>5 DEF Next, Progress, vars

(* The strikes that StruckForInvalid is wrong about: a peer is only struck *)
(* if it has sent a block that no node can commit, as lib.rs:134 says, or  *)
(* if its blocks do not fit.  They do not if a block of the tip's height   *)
(* is on another fork than the tip's parent, which lib.rs:867 does not     *)
(* count with; if the peer or the node has moved to another chain during a *)
(* backfill (the storage lock is given back between its steps, lib.rs:646) *)
(* or if the tip has moved since the download asked for its window.        *)
THEOREM WhoIsStruck ==
  Spec => [][\A n, p \in Nodes : strikes'[n][p] > strikes[n][p] =>
               \/ \E b \in SentBy(p, n) : ~Sound(b)
               \/ \E s \in Branches(p, n) : Loose(chain[n], s)
               \/ \E b \in Downloaded(p, n) : ~Fits(chain[n], b)]_vars
<1>1. NetInv /\ GenesisStays /\ [Next]_vars =>
        [\A n, p \in Nodes : strikes'[n][p] > strikes[n][p] =>
           \/ \E b \in SentBy(p, n) : ~Sound(b)
           \/ \E s \in Branches(p, n) : Loose(chain[n], s)
           \/ \E b \in Downloaded(p, n) : ~Fits(chain[n], b)]_vars
  BY NextStrikes DEF Cause
<1> QED
  BY <1>1, NetInvariant, GenesisStaysPut, PTL DEF Spec

(* Who is blocked has been struck as often as that takes, and is not       *)
(* connected.                                                              *)
Bans ==
  \A n, p \in Nodes : p \in blocked[n] =>
    strikes[n][p] >= StrikesBeforeBan /\ {n, p} \notin linked

LEMMA StrikeKeepsBans ==
  ASSUME StrikesOK, Bans, NEW a \in Nodes, NEW q \in Nodes, NEW guilty, StrikeIf(guilty, a, q)
  PROVE  Bans'
<1>1. CASE NoStrike
  BY <1>1 DEF Bans, NoStrike
<1>2. CASE Strike(a, q)
  <2>1. StrikesBeforeBan \in Nat /\ UNCHANGED <<blocked, linked>>
    BY <1>2, NetworkAssumption DEF Strike
  <2>2. \A n, p \in Nodes : strikes'[n][p] >= strikes[n][p] /\ strikes[n][p] \in Nat /\ strikes'[n][p] \in Nat
    BY <1>2 DEF Strike, StrikesOK
  <2> SUFFICES ASSUME NEW n \in Nodes, NEW p \in Nodes, p \in blocked'[n]
               PROVE  strikes'[n][p] >= StrikesBeforeBan /\ {n, p} \notin linked'
    BY DEF Bans
  <2>3. p \in blocked[n] /\ linked' = linked
    BY <2>1
  <2>4. strikes[n][p] >= StrikesBeforeBan /\ {n, p} \notin linked
    BY <2>3 DEF Bans
  <2> QED
    BY <2>1, <2>2, <2>3, <2>4
<1> QED
  BY <1>1, <1>2 DEF StrikeIf

LEMMA NextBans == NetInv /\ Bans /\ [Next]_vars => Bans'
<1> SUFFICES ASSUME NetInv, Bans, [Next]_vars PROVE Bans'
  OBVIOUS
<1>1. CASE UNCHANGED <<strikes, blocked, linked>>
  BY <1>1 DEF Bans
<1>2. ASSUME NEW a \in Nodes, NEW b \in Blocks, Mine(a, b) \/ Misbehave(a, b) \/ Publish(a, b)
      PROVE  Bans'
  BY <1>1, <1>2 DEF Mine, Misbehave, Publish
<1>3. ASSUME NEW a \in Nodes, NEW q \in Nodes, Connect(a, q)
      PROVE  Bans'
  <2>1. /\ q \notin blocked[a] /\ a \notin blocked[q]
        /\ linked' = linked \cup {{a, q}} /\ UNCHANGED <<strikes, blocked>>
    BY <1>3 DEF Connect
  <2>2. ASSUME NEW n \in Nodes, NEW p \in Nodes, p \in blocked[n], {n, p} = {a, q}
        PROVE  FALSE
    BY <2>1, <2>2
  <2> QED
    BY <2>1, <2>2 DEF Bans
<1>4. ASSUME NEW a \in Nodes, NEW q \in Nodes, Disconnect(a, q) \/ Ban(a, q)
      PROVE  Bans'
  <2>1. CASE Disconnect(a, q)
    BY <2>1 DEF Disconnect, Bans
  <2>2. CASE Ban(a, q)
    <3>1. /\ strikes[a][q] >= StrikesBeforeBan /\ strikes' = strikes
          /\ blocked' = [blocked EXCEPT ![a] = @ \cup {q}] /\ linked' = linked \ {{a, q}}
      BY <2>2 DEF Ban
    <3>2. \A n, p \in Nodes : p \in blocked'[n] => p \in blocked[n] \/ (n = a /\ p = q)
      BY <3>1 DEF NetInv, StrikesOK
    <3> QED
      BY <3>1, <3>2 DEF Bans
  <2> QED
    BY <1>4, <2>1, <2>2
<1>5. ASSUME NEW m \in gossip, Lose(m) \/ HandleGossip(m)
      PROVE  Bans'
  <2>1. m.from \in Nodes /\ m.to \in Nodes
    BY DEF NetInv, GossipOK
  <2>2. CASE Lose(m) \/ InboundExtends(m) \/ InboundOrphan(m)
    BY <1>1, <2>2 DEF Lose, InboundExtends, InboundOrphan, NoStrike
  <2>3. CASE InboundInvalid(m) \/ InboundSibling(m)
    <3>1. \E guilty : StrikeIf(guilty, m.to, m.from)
      <4>1. InboundInvalid(m) => StrikeIf(TRUE, m.to, m.from)
        BY DEF InboundInvalid, StrikeIf
      <4> QED
        BY <2>3, <4>1 DEF InboundSibling
    <3> QED
      BY <2>1, <3>1, StrikeKeepsBans DEF NetInv
  <2> QED
    BY <1>5, <2>2, <2>3 DEF HandleGossip
<1>6. ASSUME NEW a \in Nodes, NEW i \in Slots, TaskSteps(a, i)
      PROVE  Bans'
  <2>1. PICK t : t = tasks[a][i] /\ t \in Tasks
    BY DEF NetInv, TasksOK
  <2>2. CASE BackfillLookup(a, i) \/ BackfillAnswer(a, i) \/ IbdWindowStart(a, i) \/ IbdAnswer(a, i)
    BY <1>1, <2>2 DEF BackfillLookup, BackfillAnswer, IbdWindowStart, IbdAnswer, TaskOnly
  <2>3. CASE BackfillReorg(a, i)
    <3>1. t.peer \in Nodes
      BY <2>1, <2>3, TaskTypes DEF BackfillReorg, Backfills, Gathered
    <3>2. \E guilty : StrikeIf(guilty, a, t.peer)
      BY <2>1, <2>3 DEF BackfillReorg
    <3> QED
      BY <3>1, <3>2, StrikeKeepsBans DEF NetInv
  <2>4. CASE IbdApply(a, i)
    <3>1. t.peer \in Nodes
      BY <2>1, <2>4, TaskTypes DEF IbdApply, Downloads
    <3>2. NoStrike \/ \E guilty : StrikeIf(guilty, a, t.peer)
      BY <2>1, <2>4 DEF IbdApply
    <3> QED
      BY <1>1, <3>1, <3>2, StrikeKeepsBans DEF NetInv, NoStrike
  <2> QED
    BY <1>6, <2>2, <2>3, <2>4 DEF TaskSteps
<1>7. CASE UNCHANGED vars
  BY <1>1, <1>7 DEF vars
<1> QED
  BY <1>2, <1>3, <1>4, <1>5, <1>6, <1>7 DEF Next, Progress

(* The ban is a message to another task (lib.rs:152, p2p lib.rs:595), but  *)
(* no peer is blocked that has not as many strikes as STRIKES_BEFORE_BAN,  *)
(* and none that is blocked is connected, whoever opens connections and    *)
(* whatever handlers still run.                                            *)
THEOREM BansHold == Spec => []Bans
<1>1. Init => Bans
  BY NetworkAssumption DEF Init, Bans
<1> QED
  BY <1>1, NextBans, NetInvariant, PTL DEF Spec
=============================================================================
