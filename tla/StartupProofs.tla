---------------------------- MODULE StartupProofs ----------------------------
(***************************************************************************)
(* Proofs about Startup and Router, for any command lines, routes, uris,   *)
(* widths of the options' fields, size of the indirect table and size of   *)
(* the queues.                                                             *)
(***************************************************************************)
EXTENDS Startup, SequenceTheorems, WellFoundedInduction, TLAPS

-----------------------------------------------------------------------------
(***************************************************************************)
(* Numbers.                                                                *)
(***************************************************************************)

\* A remainder is less than the divisor; what is less is its own remainder.
LEMMA Remainder ==
    ASSUME NEW a \in Int, NEW n \in Nat \ {0}
    PROVE  a % n \in 0 .. n - 1 /\ (0 <= a /\ a < n => a % n = a)
  OBVIOUS

\* Between a power of two and its double there is no other.
LEMMA Doubles ==
    /\ \A p, q \in Power2 : p < q => 2 * p <= q
    /\ \A p \in Power2 : p # 1 => p \div 2 \in Power2 /\ 2 * (p \div 2) = p
    /\ Power2 \subseteq Nat \ {0}
<1>1. \A p, q \in Power2 : p < q => 2 * p <= q
  BY DEF Power2
<1>2. \A p \in Power2 : p # 1 => p \div 2 \in Power2 /\ 2 * (p \div 2) = p
  BY DEF Power2
<1>3. Power2 \subseteq Nat \ {0}
  BY DEF Power2
<1>. QED BY <1>1, <1>2, <1>3

\* There is a least power of two above a number below the largest of them.
LEMMA NextPower ==
    ASSUME NEW v \in Nat, NEW top \in Power2, v < top
    PROVE  \E p \in Power2 : v < p /\ \A q \in Power2 : v < q => p <= q
  BY DEF Power2

\* A bounded set of natural numbers that is not empty has a greatest element:
\* the least distance from the bound.
LEMMA Greatest ==
    ASSUME NEW n \in Nat, NEW T, T \subseteq 1 .. n, T # {}
    PROVE  \E x \in T : \A y \in T : y <= x
<1>. DEFINE R == {ss \in Nat \X Nat : ss[1] < ss[2]}
            U == {n - x : x \in T}
<1>1. IsWellFoundedOn(R, Nat)
  BY NatLessThanWellFounded DEF OpToRel
<1>2. U \subseteq Nat
  <2>1. \A x \in T : n - x \in Nat
    OBVIOUS
  <2>. QED BY <2>1
<1>3. U # {}
  <2>1. PICK x \in T : TRUE
    OBVIOUS
  <2>2. n - x \in U
    OBVIOUS
  <2>. QED BY <2>2
<1>4. PICK u \in U : \A v \in U : ~(<<v, u>> \in R)
  <2>. HIDE DEF R, U
  <2>. QED BY <1>1, <1>2, <1>3, WFMin
<1>5. PICK x \in T : u = n - x
  OBVIOUS
<1>6. \A y \in T : ~(n - y < u)
  <2>. TAKE y \in T
  <2>1. n - y \in U /\ n - y \in Nat /\ u \in Nat
    BY <1>2
  <2>. HIDE DEF U
  <2>. QED BY <1>4, <2>1 DEF R
<1>7. \A y \in T : y \in Nat
  OBVIOUS
<1>. QED BY <1>5, <1>6, <1>7

\* Induction over 0 .. n, with a set for the predicate.
LEMMA Induction ==
    ASSUME NEW T, NEW n \in Nat, 0 \in T, \A k \in Nat : k < n /\ k \in T => k + 1 \in T
    PROVE  n \in T
<1>. DEFINE R == {ss \in Nat \X Nat : ss[1] < ss[2]}
            F == {k \in Nat : k <= n /\ k \notin T}
<1>1. IsWellFoundedOn(R, Nat)
  BY NatLessThanWellFounded DEF OpToRel
<1>2. SUFFICES ASSUME F # {} PROVE FALSE
  OBVIOUS
<1>3. F \subseteq Nat
  OBVIOUS
<1>. HIDE DEF R, F
<1>4. PICK x \in F : \A y \in F : ~(<<y, x>> \in R)
  BY <1>1, <1>2, <1>3, WFMin
<1>5. x \in Nat /\ x <= n /\ x \notin T /\ x # 0
  BY <1>4 DEF F
<1>6. x - 1 \in Nat /\ x - 1 < n /\ x - 1 < x /\ (x - 1) + 1 = x
  BY <1>5
<1>7. <<x - 1, x>> \in R
  BY <1>5, <1>6 DEF R
<1>8. x - 1 \notin F
  BY <1>4, <1>7
<1>9. x - 1 \in T
  BY <1>6, <1>8 DEF F
<1>. QED BY <1>5, <1>6, <1>9

\* A set of natural numbers that is not empty has a least element.
LEMMA Least ==
    ASSUME NEW T, T \subseteq Nat, T # {}
    PROVE  \E x \in T : \A y \in T : x <= y
<1>. DEFINE R == {ss \in Nat \X Nat : ss[1] < ss[2]}
<1>1. IsWellFoundedOn(R, Nat)
  BY NatLessThanWellFounded DEF OpToRel
<1>. HIDE DEF R
<1>2. PICK x \in T : \A y \in T : ~(<<y, x>> \in R)
  BY <1>1, WFMin
<1>3. \A y \in T : y < x => <<y, x>> \in R
  BY DEF R
<1>4. \A y \in T : ~(y < x)
  BY <1>2, <1>3
<1>. QED BY <1>4

\* round_to_pow2 gives the nearest power of two, of which there are at least two
\* slots: the queue has room for an element.
LEMMA RoundIsNearest ==
    LET r == round_to_pow2(QueueSize)
        Distance(p) == IF p <= QueueSize THEN QueueSize - p ELSE p - QueueSize IN
    r \in Power2 \ {1} /\ \A p \in Power2 : Distance(r) <= Distance(p)
<1>. DEFINE size == QueueSize
            v == size - 1
            u == CHOOSE p \in Power2 : v < p /\ \A q \in Power2 : v < q => p <= q
            lower == u \div 2
            r == round_to_pow2(size)
            Distance(p) == IF p <= size THEN size - p ELSE p - size
<1>1. size \in Nat /\ size >= 2 /\ v \in Nat /\ CountValues \in Nat \ {0} /\ size <= CountValues
  BY QueueAssumption, StartupAssumption, Doubles
<1>2. PICK top \in Power2 : size <= top /\ top < CountValues
  BY QueueAssumption
<1>3. \E p \in Power2 : v < p /\ \A q \in Power2 : v < q => p <= q
  <2>1. v < top
    BY <1>1, <1>2, Doubles
  <2>. HIDE DEF v
  <2>. QED BY <1>1, <2>1, NextPower
<1>4. u \in Power2 /\ v < u /\ \A q \in Power2 : v < q => u <= q
  BY <1>3
<1>. HIDE DEF u
<1>5. u \in Nat /\ u >= size /\ u <= top /\ top \in Nat /\ u # 1
  BY <1>1, <1>2, <1>4, Doubles
<1>6. lower \in Power2 /\ lower \in Nat /\ 2 * lower = u
  BY <1>4, <1>5, Doubles
<1>. HIDE DEF lower
<1>7. lower < size
  <2>1. ~(v < lower)
    BY <1>1, <1>4, <1>5, <1>6
  <2>. QED BY <1>1, <1>6, <2>1
<1>8. v % CountValues = v /\ u % CountValues = u
  <2>1. v \in Int /\ 0 <= v /\ v < CountValues /\ u \in Int /\ 0 <= u /\ u < CountValues
    BY <1>1, <1>2, <1>5
  <2>. HIDE DEF v
  <2>. QED BY <1>1, <2>1, Remainder
<1>9. r = IF u = 0 \/ size - lower <= u - size THEN lower ELSE u
  <2>1. Smeared(v) + 1 = u
    <3>1. Smeared(v) = u - 1
      BY DEF Smeared, u
    <3>. QED BY <1>5, <3>1
  <2>. QED BY <1>8, <2>1 DEF round_to_pow2, lower
<1>. HIDE DEF r
<1>10. \/ r = lower /\ size - lower <= u - size
       \/ r = u /\ u - size < size - lower
  <2>1. CASE size - lower <= u - size
    <3>1. r = lower
      BY <1>9, <2>1
    <3>. QED BY <2>1, <3>1
  <2>2. CASE ~(size - lower <= u - size)
    <3>1. u # 0 /\ u - size < size - lower
      BY <1>1, <1>5, <1>6, <2>2
    <3>. QED BY <1>9, <2>2, <3>1
  <2>. QED BY <2>1, <2>2
<1>11. r \in Power2 \ {1}
  <2>1. lower = 1 => size = 2 /\ u = 2
    BY <1>1, <1>5, <1>6
  <2>. QED BY <1>4, <1>5, <1>6, <1>10, <2>1
<1>12. ASSUME NEW p \in Power2 PROVE Distance(r) <= Distance(p)
  <2>1. p \in Nat /\ (p <= lower \/ p >= u)
    BY <1>4, <1>6, Doubles
  <2>. QED BY <1>1, <1>5, <1>6, <1>7, <1>10, <2>1
<1>. QED BY <1>11, <1>12 DEF r
-----------------------------------------------------------------------------
(***************************************************************************)
(* The router: paths.                                                      *)
(***************************************************************************)

\* The segments found so far, after n strings of the uri.
Split(uri, f, n) ==
    IF n = 0 THEN <<>>
    ELSE IF uri[n] = "" THEN f[n - 1]
    ELSE Append(f[n - 1], uri[n])

\* The loop of split_path_segments ends, with every string looked at.
LEMMA SplitDefined ==
    ASSUME NEW uri, Len(uri) \in Nat
    PROVE  \E f : f = [n \in 0 .. Len(uri) |-> Split(uri, f, n)]
<1>. DEFINE UpTo(f, k) == f = [n \in 0 .. k |-> Split(uri, f, n)]
            T == {k \in Nat : \E f : UpTo(f, k)}
<1>1. 0 \in T
  <2>. DEFINE f == [n \in 0 .. 0 |-> <<>>]
  <2>1. UpTo(f, 0)
    BY DEF Split
  <2>. HIDE DEF f, UpTo
  <2>. QED BY <2>1
<1>2. ASSUME NEW k \in Nat, k \in T PROVE k + 1 \in T
  <2>1. PICK f : UpTo(f, k)
    BY <1>2
  <2>. DEFINE g == [n \in 0 .. k + 1 |-> Split(uri, f, n)]
  <2>2. \A n \in 0 .. k : f[n] = Split(uri, f, n)
    BY <2>1
  <2>3. \A n \in 0 .. k : g[n] = f[n]
    BY <2>2
  <2>4. \A n \in 0 .. k + 1 : Split(uri, g, n) = Split(uri, f, n)
    <3>. TAKE n \in 0 .. k + 1
    <3>1. n # 0 => n - 1 \in 0 .. k
      OBVIOUS
    <3>. HIDE DEF g
    <3>. QED BY <2>3, <3>1 DEF Split
  <2>5. UpTo(g, k + 1)
    BY <2>4
  <2>. HIDE DEF g, UpTo
  <2>. QED BY <2>5
<1>. HIDE DEF T
<1>3. Len(uri) \in T
  BY <1>1, <1>2, Induction
<1>. QED BY <1>3 DEF T

\* A path is a sequence of text that is not empty.
Text(S) == S \ {"", Param}

\* What split_path_segments gives is one.
LEMMA SplitIsPath ==
    ASSUME NEW S, NEW uri \in Seq(S \ {Param})
    PROVE  split_path_segments(uri) \in Seq(Text(S))
<1>. DEFINE L == Len(uri)
            segs == CHOOSE f : f = [n \in 0 .. L |-> Split(uri, f, n)]
            T == {k \in Nat : k <= L => segs[k] \in Seq(Text(S))}
<1>1. L \in Nat /\ \A n \in 1 .. L : uri[n] \in S \ {Param}
  OBVIOUS
<1>2. split_path_segments(uri) = segs[L]
  BY DEF split_path_segments, Split
<1>3. segs = [n \in 0 .. L |-> Split(uri, segs, n)]
  BY <1>1, SplitDefined, Zenon
<1>. HIDE DEF segs
<1>4. \A n \in 0 .. L : segs[n] = Split(uri, segs, n)
  BY <1>3
<1>. HIDE DEF L
<1>5. 0 \in T
  <2>3. segs[0] = Split(uri, segs, 0)
    <3>1. 0 \in 0 .. L
      BY <1>1
    <3>. QED BY <1>4, <3>1
  <2>1. segs[0] = <<>>
    BY <2>3 DEF Split
  <2>2. <<>> \in Seq(Text(S))
    OBVIOUS
  <2>. QED BY <2>1, <2>2
<1>6. ASSUME NEW k \in Nat, k < L, k \in T PROVE k + 1 \in T
  <2>1. segs[k] \in Seq(Text(S)) /\ k + 1 \in 0 .. L /\ k + 1 \in 1 .. L /\ (k + 1) - 1 = k
    BY <1>1, <1>6
  <2>2. segs[k + 1] = Split(uri, segs, k + 1)
    BY <1>4, <2>1
  <2>3. uri[k + 1] # "" => uri[k + 1] \in Text(S)
    BY <1>1, <2>1 DEF Text
  <2>4. Split(uri, segs, k + 1) \in Seq(Text(S))
    <3>0. Split(uri, segs, k + 1) =
            IF uri[k + 1] = "" THEN segs[k] ELSE Append(segs[k], uri[k + 1])
      <4>1. k + 1 # 0 /\ (k + 1) - 1 = k
        OBVIOUS
      <4>. QED BY <4>1 DEF Split
    <3>1. CASE uri[k + 1] = ""
      BY <2>1, <3>0, <3>1
    <3>2. CASE uri[k + 1] # ""
      <4>1. PICK x \in Text(S) : x = uri[k + 1]
        BY <2>3, <3>2
      <4>2. Append(segs[k], x) \in Seq(Text(S))
        BY <2>1
      <4>. QED BY <3>0, <3>2, <4>1, <4>2
    <3>. QED BY <3>1, <3>2
  <2>. QED BY <2>2, <2>4
<1>7. L \in T
  <2>. HIDE DEF T
  <2>. QED BY <1>1, <1>5, <1>6, Induction
<1>. QED BY <1>1, <1>2, <1>7
-----------------------------------------------------------------------------
(***************************************************************************)
(* The router: looking a path up.                                          *)
(***************************************************************************)

Prefix(node, k) == [i \in 1 .. k |-> node[i]]

\* A tree with segments in S: with every node there are those on the way to it,
\* and each has a table of the handlers.
IsTree(t, S) ==
    /\ DOMAIN t \subseteq Seq(S)
    /\ <<>> \in DOMAIN t
    /\ \A node \in DOMAIN t : \A k \in 0 .. Len(node) : Prefix(node, k) \in DOMAIN t
    /\ \A node \in DOMAIN t : t[node] = [m \in Methods |-> t[node][m]]

\* The nodes that find_handler_recursive may come to.
Nodes(t, segs) == {node \in DOMAIN t : Len(node) <= Len(segs)}

\* What it returns for a child that exists, or not.
Child(t, f, child) == IF child \in DOMAIN t THEN f[child] ELSE NotResolved

\* One call of it, where f holds what the calls it makes return.
Call(t, m, segs, f, node) ==
    LET segment == segs[Len(node) + 1]
        literal == Child(t, f, Append(node, segment))
        param == Child(t, f, Append(node, Param)) IN
    IF Len(node) = Len(segs) THEN [handler |-> t[node][m], param |-> ""]
    ELSE IF literal.handler # NoHandler THEN literal
    ELSE IF param.handler = NoHandler THEN NotResolved
    ELSE IF param.param # "" THEN param
    ELSE [param EXCEPT !.param = segment]

IsFind(f, t, m, segs) == f = [node \in Nodes(t, segs) |-> Call(t, m, segs, f, node)]

\* A child is one segment longer.
LEMMA ChildOf ==
    ASSUME NEW S, NEW node \in Seq(S), NEW x \in S
    PROVE  /\ Append(node, x) \in Seq(S)
           /\ Len(Append(node, x)) = Len(node) + 1
           /\ Append(node, x)[Len(node) + 1] = x
           /\ \A i \in 1 .. Len(node) : Append(node, x)[i] = node[i]
  OBVIOUS

\* The recursion ends.
LEMMA FindDefined ==
    ASSUME NEW S, Param \in S, NEW t, IsTree(t, S), NEW m, NEW segs \in Seq(S)
    PROVE  \E f : IsFind(f, t, m, segs)
<1>. DEFINE L == Len(segs)
            D(k) == {node \in Nodes(t, segs) : Len(node) + k >= L}
            From(f, k) == f = [node \in D(k) |-> Call(t, m, segs, f, node)]
            T == {k \in Nat : \E f : From(f, k)}
<1>1. L \in Nat /\ \A i \in 1 .. L : segs[i] \in S
  OBVIOUS
<1>2. \A node \in Nodes(t, segs) : node \in Seq(S) /\ Len(node) \in Nat /\ Len(node) <= L
  BY DEF Nodes, IsTree
<1>3. \A node \in D(0) : Len(node) = L
  BY <1>1, <1>2
<1>4. 0 \in T
  <2>. DEFINE f == [node \in D(0) |-> [handler |-> t[node][m], param |-> ""]]
  <2>1. \A node \in D(0) : Call(t, m, segs, f, node) = [handler |-> t[node][m], param |-> ""]
    <3>. HIDE DEF f, D
    <3>. QED BY <1>3 DEF Call
  <2>2. From(f, 0)
    <3>. HIDE DEF D
    <3>. QED BY <2>1
  <2>. HIDE DEF From
  <2>. QED BY <2>2
<1>5. ASSUME NEW k \in Nat, k \in T PROVE k + 1 \in T
  <2>1. PICK f : From(f, k)
    BY <1>5
  <2>. DEFINE g == [node \in D(k + 1) |-> Call(t, m, segs, f, node)]
  <2>2. ASSUME NEW node \in D(k) PROVE node \in D(k + 1) /\ f[node] = Call(t, m, segs, f, node)
    <3>1. node \in D(k + 1)
      BY <1>1, <1>2
    <3>. HIDE DEF D
    <3>. QED BY <2>1, <3>1
  <2>3. \A node \in D(k) : g[node] = f[node]
    <3>. HIDE DEF D
    <3>. QED BY <2>2
  <2>4. ASSUME NEW node \in D(k + 1) PROVE Call(t, m, segs, g, node) = Call(t, m, segs, f, node)
    <3>1. CASE Len(node) = L
      BY <3>1 DEF Call
    <3>2. CASE Len(node) # L
      <4>1. ASSUME NEW x \in S
            PROVE  Child(t, g, Append(node, x)) = Child(t, f, Append(node, x))
        <5>1. CASE Append(node, x) \in DOMAIN t
          <6>1. Len(Append(node, x)) = Len(node) + 1
            BY <1>2, ChildOf
          <6>2. PICK c : c = Append(node, x)
            OBVIOUS
          <6>3. Len(c) = Len(node) + 1 /\ c \in DOMAIN t
            BY <5>1, <6>1, <6>2
          <6>4. c \in D(k)
            BY <1>1, <1>2, <3>2, <6>3 DEF Nodes
          <6>. HIDE DEF D, g
          <6>. QED BY <2>3, <6>2, <6>4 DEF Child
        <5>2. CASE Append(node, x) \notin DOMAIN t
          BY <5>2 DEF Child
        <5>. QED BY <5>1, <5>2
      <4>2. segs[Len(node) + 1] \in S
        <5>1. Len(node) + 1 \in 1 .. L
          BY <1>1, <1>2, <3>2
        <5>. QED BY <1>1, <5>1
      <4>3. /\ Child(t, g, Append(node, Param)) = Child(t, f, Append(node, Param))
            /\ Child(t, g, Append(node, segs[Len(node) + 1]))
                 = Child(t, f, Append(node, segs[Len(node) + 1]))
        BY <4>1, <4>2
      <4>. HIDE DEF g
      <4>. QED BY <4>3 DEF Call
    <3>. QED BY <3>1, <3>2
  <2>5. From(g, k + 1)
    <3>. HIDE DEF D
    <3>. QED BY <2>4
  <2>. HIDE DEF g, From
  <2>. QED BY <2>5
<1>6. L \in T
  <2>. HIDE DEF T, L
  <2>. QED BY <1>1, <1>4, <1>5, Induction
<1>7. D(L) = Nodes(t, segs)
  BY <1>1, <1>2
<1>8. PICK f : From(f, L)
  BY <1>6
<1>9. IsFind(f, t, m, segs)
  <2>. HIDE DEF D
  <2>. QED BY <1>7, <1>8 DEF IsFind
<1>. QED BY <1>9

\* What find_handler_recursive returns is what the call at the root returns.
LEMMA FindResult ==
    ASSUME NEW S, Param \in S, NEW t, IsTree(t, S), NEW m, NEW segs \in Seq(S)
    PROVE  \E f : /\ find_handler_recursive(t, m, segs) = f[<<>>]
                  /\ \A node \in Nodes(t, segs) : f[node] = Call(t, m, segs, f, node)
<1>. DEFINE f == CHOOSE f : IsFind(f, t, m, segs)
<1>0. IsFind(f, t, m, segs)
  BY FindDefined
<1>1. f = [node \in Nodes(t, segs) |-> Call(t, m, segs, f, node)]
  BY <1>0 DEF IsFind
<1>2. find_handler_recursive(t, m, segs) = f[<<>>]
  BY DEF find_handler_recursive, IsFind, Call, Child, Nodes
<1>. HIDE DEF f
<1>3. \A node \in Nodes(t, segs) : f[node] = Call(t, m, segs, f, node)
  BY <1>1
<1>. QED BY <1>2, <1>3
-----------------------------------------------------------------------------
(***************************************************************************)
(* The router: what is found is the best.                                  *)
(***************************************************************************)

\* The nodes with a handler that segs can lead to by way of node.
Below(t, m, segs, node) ==
    {q \in DOMAIN t :
        /\ Len(q) = Len(segs)
        /\ \A i \in 1 .. Len(node) : q[i] = node[i]
        /\ \A i \in Len(node) + 1 .. Len(segs) : q[i] \in {segs[i], Param}
        /\ t[q][m] # NoHandler}

\* Preferred, of nodes.
Before(b, q) ==
    \A i \in 1 .. Len(b) :
        b[i] = Param /\ q[i] # Param => \E j \in 1 .. i - 1 : b[j] # Param /\ q[j] = Param

\* v is the text that the last parameter of b behind k stands for.
LastParam(b, segs, k, v) ==
    /\ (\A i \in k + 1 .. Len(segs) : b[i] # Param) => v = ""
    /\ \A i \in k + 1 .. Len(segs) :
         /\ b[i] = Param
         /\ \A j \in i + 1 .. Len(segs) : b[j] # Param
         => v = segs[i]
    /\ (\E i \in k + 1 .. Len(segs) : b[i] = Param) => v # ""

NotEmpty(text) == text # ""

\* res is the best that can be found from node.
Found(t, m, segs, node, b, res) ==
    /\ b \in Below(t, m, segs, node)
    /\ \A q \in Below(t, m, segs, node) : Before(b, q)
    /\ res = [handler |-> t[b][m], param |-> res.param]
    /\ LastParam(b, segs, Len(node), res.param)

Best(t, m, segs, node, res) ==
    IF Below(t, m, segs, node) = {} THEN res = NotResolved
    ELSE \E b : Found(t, m, segs, node, b, res)

\* A best result without a handler is none.
LEMMA BestHandler ==
    ASSUME NEW t, NEW m, NEW segs, NEW node, NEW res, Best(t, m, segs, node, res)
    PROVE  res.handler = NoHandler <=> Below(t, m, segs, node) = {}
<1>1. CASE Below(t, m, segs, node) = {}
  <2>1. res = NotResolved
    BY <1>1 DEF Best
  <2>2. NotResolved.handler = NoHandler
    BY DEF NotResolved
  <2>. QED BY <1>1, <2>1, <2>2
<1>2. CASE Below(t, m, segs, node) # {}
  <2>1. PICK b : Found(t, m, segs, node, b, res)
    BY <1>2 DEF Best
  <2>2. b \in Below(t, m, segs, node) /\ res = [handler |-> t[b][m], param |-> res.param]
    BY <2>1 DEF Found
  <2>3. t[b][m] # NoHandler
    BY <2>2 DEF Below
  <2>4. res.handler = t[b][m]
    BY <2>2
  <2>. QED BY <1>2, <2>3, <2>4
<1>. QED BY <1>1, <1>2

\* At the end of the path there is the node itself, with a handler or without.
LEMMA BestAtEnd ==
    ASSUME NEW S, NEW t, IsTree(t, S), NEW m, NEW segs \in Seq(S),
           NEW node \in DOMAIN t, Len(node) = Len(segs)
    PROVE  Best(t, m, segs, node, [handler |-> t[node][m], param |-> ""])
<1>. DEFINE L == Len(segs)
            res == [handler |-> t[node][m], param |-> ""]
<1>1. L \in Nat /\ \A q \in DOMAIN t : q \in Seq(S)
  BY DEF IsTree
<1>2. \A q \in Below(t, m, segs, node) : q = node
  <2>. TAKE q \in Below(t, m, segs, node)
  <2>1. q \in Seq(S) /\ node \in Seq(S) /\ Len(q) = Len(node)
        /\ \A i \in 1 .. Len(node) : q[i] = node[i]
    BY <1>1 DEF Below
  <2>. QED BY <2>1
<1>3. t[node][m] # NoHandler => node \in Below(t, m, segs, node)
  BY <1>1 DEF Below
<1>4. CASE t[node][m] = NoHandler
  <2>1. Below(t, m, segs, node) = {}
    BY <1>2, <1>4 DEF Below
  <2>. QED BY <1>4, <2>1 DEF Best, NotResolved
<1>5. CASE t[node][m] # NoHandler
  <2>1. Before(node, node)
    BY DEF Before
  <2>2. LastParam(node, segs, Len(node), "")
    <3>1. Len(node) + 1 .. Len(segs) = {}
      BY <1>1
    <3>. QED BY <3>1 DEF LastParam
  <2>3. Found(t, m, segs, node, node, res)
    BY <1>2, <1>3, <1>5, <2>1, <2>2 DEF Found
  <2>. QED BY <1>3, <1>5, <2>3 DEF Best
<1>. QED BY <1>4, <1>5

\* What is below a node is below its literal child or below its parameter.
LEMMA BelowChildren ==
    ASSUME NEW S, Param \in S, NEW t, IsTree(t, S), NEW m, NEW segs \in Seq(S),
           NEW node \in DOMAIN t, Len(node) < Len(segs)
    PROVE  Below(t, m, segs, node) = Below(t, m, segs, Append(node, segs[Len(node) + 1]))
                                     \cup Below(t, m, segs, Append(node, Param))
<1>. DEFINE L == Len(segs)
            k == Len(node)
            B(n) == Below(t, m, segs, n)
<1>1. L \in Nat /\ k \in Nat /\ k + 1 \in 1 .. L /\ node \in Seq(S) /\ segs[k + 1] \in S
  BY DEF IsTree
<1>2. ASSUME NEW x \in S
      PROVE  \A q \in DOMAIN t :
               q \in B(Append(node, x)) <=>
                 /\ Len(q) = L
                 /\ \A i \in 1 .. k : q[i] = node[i]
                 /\ q[k + 1] = x
                 /\ \A i \in k + 2 .. L : q[i] \in {segs[i], Param}
                 /\ t[q][m] # NoHandler
  <2>. TAKE q \in DOMAIN t
  <2>1. PICK c : c = Append(node, x)
    OBVIOUS
  <2>2. Len(c) = k + 1 /\ c[k + 1] = x /\ \A i \in 1 .. k : c[i] = node[i]
    BY <1>1, <2>1, ChildOf
  <2>3. (\A i \in 1 .. Len(c) : q[i] = c[i]) <=> q[k + 1] = x /\ \A i \in 1 .. k : q[i] = node[i]
    <3>. HIDE DEF k
    <3>1. \A i \in 1 .. k + 1 : i = k + 1 \/ i \in 1 .. k
      BY <1>1
    <3>2. k + 1 \in 1 .. k + 1 /\ \A i \in 1 .. k : i \in 1 .. k + 1
      BY <1>1
    <3>. QED BY <2>2, <3>1, <3>2
  <2>4. Len(c) + 1 = k + 2
    BY <1>1, <2>2
  <2>5. q \in B(c) <=>
          /\ Len(q) = L
          /\ \A i \in 1 .. Len(c) : q[i] = c[i]
          /\ \A i \in k + 2 .. L : q[i] \in {segs[i], Param}
          /\ t[q][m] # NoHandler
    BY <2>4 DEF Below
  <2>. HIDE DEF B
  <2>. QED BY <2>1, <2>3, <2>5
<1>3. \A q \in DOMAIN t :
        q \in B(node) <=>
          /\ Len(q) = L
          /\ \A i \in 1 .. k : q[i] = node[i]
          /\ q[k + 1] \in {segs[k + 1], Param}
          /\ \A i \in k + 2 .. L : q[i] \in {segs[i], Param}
          /\ t[q][m] # NoHandler
  <2>. TAKE q \in DOMAIN t
  <2>1. (\A i \in k + 1 .. L : q[i] \in {segs[i], Param}) <=>
          /\ q[k + 1] \in {segs[k + 1], Param}
          /\ \A i \in k + 2 .. L : q[i] \in {segs[i], Param}
    <3>. HIDE DEF k, L
    <3>1. \A i \in k + 1 .. L : i = k + 1 \/ i \in k + 2 .. L
      BY <1>1
    <3>2. k + 1 \in k + 1 .. L /\ \A i \in k + 2 .. L : i \in k + 1 .. L
      BY <1>1
    <3>. QED BY <3>1, <3>2
  <2>. QED BY <2>1 DEF Below
<1>4. \A n : B(n) \subseteq DOMAIN t
  BY DEF Below
<1>. HIDE DEF B, k, L
<1>5. \A q \in DOMAIN t : q \in B(node) <=> q \in B(Append(node, segs[k + 1])) \cup B(Append(node, Param))
  BY <1>1, <1>2, <1>3
<1>6. B(node) = B(Append(node, segs[k + 1])) \cup B(Append(node, Param))
  BY <1>4, <1>5
<1>. QED BY <1>6 DEF B, k

\* Nothing is below a child that does not exist.
LEMMA NothingBelow ==
    ASSUME NEW S, NEW t, IsTree(t, S), NEW m, NEW segs \in Seq(S),
           NEW c \in Seq(S), Len(c) <= Len(segs), c \notin DOMAIN t
    PROVE  Below(t, m, segs, c) = {}
<1>. SUFFICES ASSUME NEW q \in Below(t, m, segs, c) PROVE FALSE
  OBVIOUS
<1>1. q \in DOMAIN t /\ Len(q) = Len(segs) /\ \A i \in 1 .. Len(c) : q[i] = c[i]
  BY DEF Below
<1>2. Len(c) \in 0 .. Len(q)
  BY <1>1
<1>3. Prefix(q, Len(c)) \in DOMAIN t
  BY <1>1, <1>2 DEF IsTree
<1>4. Prefix(q, Len(c)) = c
  BY <1>1 DEF Prefix
<1>. QED BY <1>3, <1>4

\* What is found by way of the literal is preferred to all that a parameter at
\* its place leads to.
LEMMA LiteralFirst ==
    ASSUME NEW S, Param \in S, NEW t, IsTree(t, S), NEW m, NEW segs \in Seq(Text(S)),
           NEW node \in DOMAIN t, Len(node) < Len(segs),
           NEW b, b \in Below(t, m, segs, Append(node, segs[Len(node) + 1])),
           NEW q, q \in Below(t, m, segs, Append(node, Param))
    PROVE  Before(b, q)
<1>. DEFINE k == Len(node)
<1>1. /\ node \in Seq(S) /\ k \in Nat /\ segs[k + 1] \in S /\ segs[k + 1] # Param
      /\ Len(segs) \in Nat
  <2>1. node \in Seq(S) /\ k \in Nat /\ k + 1 \in 1 .. Len(segs) /\ Len(segs) \in Nat
    BY DEF IsTree
  <2>2. segs[k + 1] \in Text(S)
    BY <2>1
  <2>3. segs[k + 1] \in S /\ segs[k + 1] # Param
    BY <2>2 DEF Text
  <2>. QED BY <2>1, <2>3
<1>2. /\ Len(b) = Len(segs) /\ b[k + 1] # Param /\ \A i \in 1 .. k : b[i] = node[i]
  <2>1. PICK c : c = Append(node, segs[k + 1])
    OBVIOUS
  <2>2. Len(c) = k + 1 /\ c[k + 1] = segs[k + 1] /\ \A i \in 1 .. k : c[i] = node[i]
    BY <1>1, <2>1, ChildOf
  <2>3. Len(b) = Len(segs) /\ \A i \in 1 .. k + 1 : b[i] = c[i]
    BY <2>1, <2>2 DEF Below
  <2>. HIDE DEF k
  <2>. QED BY <1>1, <2>2, <2>3
<1>3. q[k + 1] = Param /\ \A i \in 1 .. k : q[i] = node[i]
  <2>1. PICK c : c = Append(node, Param)
    OBVIOUS
  <2>2. Len(c) = k + 1 /\ c[k + 1] = Param /\ \A i \in 1 .. k : c[i] = node[i]
    BY <1>1, <2>1, ChildOf
  <2>3. \A i \in 1 .. k + 1 : q[i] = c[i]
    BY <2>1, <2>2 DEF Below
  <2>. HIDE DEF k
  <2>. QED BY <1>1, <2>2, <2>3
<1>. HIDE DEF k
<1>4. ASSUME NEW i \in 1 .. Len(b), b[i] = Param, q[i] # Param
      PROVE  \E j \in 1 .. i - 1 : b[j] # Param /\ q[j] = Param
  <2>1. i \notin 1 .. k /\ i # k + 1
    BY <1>2, <1>3, <1>4
  <2>2. k + 1 \in 1 .. i - 1
    BY <1>1, <1>2, <2>1
  <2>. QED BY <1>2, <1>3, <2>2
<1>. QED BY <1>4 DEF Before

\* The value of the last parameter, one segment up: behind a literal it stays, ...
LEMMA LastParamLiteral ==
    ASSUME NEW segs, NEW k \in Nat, NEW b, NEW v, Len(segs) \in Nat, k < Len(segs),
           LastParam(b, segs, k + 1, v), b[k + 1] # Param
    PROVE  LastParam(b, segs, k, v)
<1>. DEFINE L == Len(segs)
<1>1. /\ \A i \in k + 1 .. L : i = k + 1 \/ i \in (k + 1) + 1 .. L
      /\ \A i \in (k + 1) + 1 .. L : i \in k + 1 .. L
  OBVIOUS
<1>. HIDE DEF L
<1>. QED BY <1>1 DEF LastParam, L

\* ... and a parameter gives its own text unless there is one behind it.
LEMMA LastParamParam ==
    ASSUME NEW segs, NEW k \in Nat, NEW b, NEW v, Len(segs) \in Nat, k < Len(segs),
           LastParam(b, segs, k + 1, v), b[k + 1] = Param, NotEmpty(segs[k + 1])
    PROVE  LastParam(b, segs, k, IF v # "" THEN v ELSE segs[k + 1])
<1>. DEFINE L == Len(segs)
<1>0. k + 1 \in k + 1 .. L
  OBVIOUS
<1>1. /\ \A i \in k + 1 .. L : i = k + 1 \/ i \in (k + 1) + 1 .. L
      /\ \A i \in (k + 1) + 1 .. L : i \in k + 1 .. L
  OBVIOUS
<1>. DEFINE w == IF v # "" THEN v ELSE segs[k + 1]
<1>2. w # ""
  BY DEF NotEmpty
<1>3. ASSUME NEW i \in k + 1 .. L, b[i] = Param, \A j \in i + 1 .. L : b[j] # Param
      PROVE  w = segs[i]
  <2>1. CASE i = k + 1
    <3>1. \A j \in (k + 1) + 1 .. L : b[j] # Param
      BY <1>3, <2>1
    <3>2. v = ""
      BY <3>1 DEF LastParam
    <3>. QED BY <2>1, <3>2
  <2>2. CASE i # k + 1
    <3>1. i \in (k + 1) + 1 .. L
      BY <1>1, <2>2
    <3>2. v = segs[i]
      BY <1>3, <3>1 DEF LastParam
    <3>3. v # ""
      BY <1>3, <3>1 DEF LastParam
    <3>. QED BY <3>2, <3>3
  <2>. QED BY <2>1, <2>2
<1>. HIDE DEF w
<1>4. LastParam(b, segs, k, w)
  BY <1>0, <1>1, <1>2, <1>3 DEF LastParam
<1>. QED BY <1>4 DEF w

\* One call is right when the calls it makes are.
LEMMA BestStep ==
    ASSUME NEW S, Param \in S, NEW t, IsTree(t, S), NEW m, NEW segs \in Seq(Text(S)),
           NEW node \in DOMAIN t, Len(node) < Len(segs), NEW f,
           \A c \in DOMAIN t : Len(c) = Len(node) + 1 => Best(t, m, segs, c, f[c])
    PROVE  Best(t, m, segs, node, Call(t, m, segs, f, node))
<1>. DEFINE k == Len(node)
            x == segs[k + 1]
            lit == Append(node, x)
            par == Append(node, Param)
            B(n) == Below(t, m, segs, n)
            literal == Child(t, f, lit)
            param == Child(t, f, par)
            res == Call(t, m, segs, f, node)
<1>0. Text(S) \subseteq S
  BY DEF Text
<1>1. /\ node \in Seq(S) /\ k \in Nat /\ k < Len(segs) /\ Len(segs) \in Nat
      /\ k + 1 <= Len(segs) /\ k + 1 \in 1 .. Len(segs) /\ Len(node) # Len(segs)
  BY DEF IsTree
<1>2. x \in Text(S) /\ x \in S /\ x # "" /\ x # Param
  <2>1. x \in Text(S)
    BY <1>1
  <2>. HIDE DEF x
  <2>. QED BY <2>1 DEF Text
<1>3. segs \in Seq(S)
  BY <1>0
<1>4. /\ lit \in Seq(S) /\ Len(lit) = k + 1 /\ lit[k + 1] = x
      /\ par \in Seq(S) /\ Len(par) = k + 1 /\ par[k + 1] = Param
  <2>. HIDE DEF x
  <2>1. /\ lit \in Seq(S) /\ Len(lit) = k + 1 /\ lit[k + 1] = x
    BY <1>1, <1>2, ChildOf
  <2>2. /\ par \in Seq(S) /\ Len(par) = k + 1 /\ par[k + 1] = Param
    BY <1>1, ChildOf
  <2>. QED BY <2>1, <2>2, Zenon
<1>5. res = IF literal.handler # NoHandler THEN literal
            ELSE IF param.handler = NoHandler THEN NotResolved
            ELSE IF param.param # "" THEN param
            ELSE [param EXCEPT !.param = x]
  BY <1>1, Zenon DEF Call
<1>6. ASSUME NEW c \in Seq(S), Len(c) = k + 1
      PROVE  Best(t, m, segs, c, Child(t, f, c))
  <2>1. CASE c \in DOMAIN t
    BY <1>6, <2>1 DEF Child
  <2>2. CASE c \notin DOMAIN t
    <3>1. Below(t, m, segs, c) = {}
      BY <1>1, <1>3, <1>6, <2>2, NothingBelow
    <3>. QED BY <2>2, <3>1 DEF Child, Best
  <2>. QED BY <2>1, <2>2
<1>7. B(node) = B(lit) \cup B(par)
  BY <1>1, <1>3, BelowChildren
<1>8. \A b \in B(lit) : \A q \in B(par) : Before(b, q)
  BY LiteralFirst
<1>9. (\A b \in B(lit) : b[k + 1] = x) /\ (\A b \in B(par) : b[k + 1] = Param)
  <2>1. k + 1 \in 1 .. k + 1
    BY <1>1
  <2>. HIDE DEF lit, par, x
  <2>. QED BY <1>4, <2>1 DEF Below
<1>. HIDE DEF lit, par, x, res
<1>10. Best(t, m, segs, lit, literal) /\ Best(t, m, segs, par, param)
  BY <1>4, <1>6
<1>. HIDE DEF literal, param
<1>11. CASE literal.handler # NoHandler
  <2>1. B(lit) # {}
    BY <1>10, <1>11, BestHandler
  <2>2. PICK b : Found(t, m, segs, lit, b, literal)
    BY <1>10, <2>1 DEF Best
  <2>3. /\ b \in B(lit) /\ \A q \in B(lit) : Before(b, q)
        /\ literal = [handler |-> t[b][m], param |-> literal.param]
        /\ LastParam(b, segs, k + 1, literal.param)
    BY <1>4, <2>2 DEF Found
  <2>4. b \in B(node) /\ \A q \in B(node) : Before(b, q)
    BY <1>7, <1>8, <2>3
  <2>5. LastParam(b, segs, k, literal.param)
    <3>1. b[k + 1] # Param
      BY <1>2, <1>9, <2>3
    <3>. QED BY <1>1, <2>3, <3>1, LastParamLiteral
  <2>6. res = literal
    BY <1>5, <1>11
  <2>7. Found(t, m, segs, node, b, res)
    BY <2>3, <2>4, <2>5, <2>6 DEF Found
  <2>. QED BY <2>4, <2>7 DEF Best, res
<1>12. CASE literal.handler = NoHandler /\ param.handler = NoHandler
  <2>1. B(lit) = {} /\ B(par) = {}
    BY <1>10, <1>12, BestHandler
  <2>2. B(node) = {} /\ res = NotResolved
    BY <1>5, <1>7, <1>12, <2>1
  <2>. QED BY <2>2 DEF Best, res
<1>13. CASE literal.handler = NoHandler /\ param.handler # NoHandler
  <2>1. B(lit) = {} /\ B(par) # {}
    BY <1>10, <1>13, BestHandler
  <2>2. PICK b : Found(t, m, segs, par, b, param)
    BY <1>10, <2>1 DEF Best
  <2>3. /\ b \in B(par) /\ \A q \in B(par) : Before(b, q)
        /\ param = [handler |-> t[b][m], param |-> param.param]
        /\ LastParam(b, segs, k + 1, param.param)
    BY <1>4, <2>2 DEF Found
  <2>4. b \in B(node) /\ \A q \in B(node) : Before(b, q)
    BY <1>7, <2>1, <2>3
  <2>. DEFINE v == IF param.param # "" THEN param.param ELSE x
  <2>5. LastParam(b, segs, k, v)
    <3>1. b[k + 1] = Param
      BY <1>9, <2>3
    <3>2. NotEmpty(segs[k + 1])
      BY <1>2 DEF NotEmpty, x
    <3>. QED BY <1>1, <2>3, <3>1, <3>2, LastParamParam DEF x
  <2>6. res = [handler |-> t[b][m], param |-> v]
    <3>1. PICK h, p : h = t[b][m] /\ p = param.param
      OBVIOUS
    <3>2. param = [handler |-> h, param |-> p]
      BY <2>3, <3>1
    <3>3. res = IF p # "" THEN param ELSE [param EXCEPT !.param = x]
      BY <1>5, <1>13, <3>1
    <3>4. v = IF p # "" THEN p ELSE x
      BY <3>1
    <3>. HIDE DEF v
    <3>5. CASE p # ""
      BY <3>1, <3>2, <3>3, <3>4, <3>5
    <3>6. CASE p = ""
      <4>1. res = [handler |-> h, param |-> x]
        BY <3>2, <3>3, <3>6
      <4>. QED BY <3>1, <3>4, <3>6, <4>1
    <3>. QED BY <3>5, <3>6
  <2>7. res.param = v
    <3>. HIDE DEF v
    <3>. QED BY <2>6
  <2>8. Found(t, m, segs, node, b, res)
    <3>. HIDE DEF v
    <3>. QED BY <2>4, <2>5, <2>6, <2>7 DEF Found
  <2>. QED BY <2>4, <2>8 DEF Best, res
<1>. QED BY <1>11, <1>12, <1>13

\* find_handler_recursive finds the best below the root.
LEMMA FindIsBest ==
    ASSUME NEW S, Param \in S, NEW t, IsTree(t, S), NEW m, NEW segs \in Seq(Text(S))
    PROVE  Best(t, m, segs, <<>>, find_handler_recursive(t, m, segs))
<1>. DEFINE L == Len(segs)
<1>0. Text(S) \subseteq S
  BY DEF Text
<1>1. L \in Nat /\ segs \in Seq(S)
  BY <1>0
<1>2. PICK f : /\ find_handler_recursive(t, m, segs) = f[<<>>]
               /\ \A node \in Nodes(t, segs) : f[node] = Call(t, m, segs, f, node)
  BY <1>1, FindResult
<1>3. \A node \in DOMAIN t : Len(node) \in Nat
  BY DEF IsTree
<1>. DEFINE T == {k \in Nat : \A node \in DOMAIN t :
                    Len(node) + k = L => Best(t, m, segs, node, f[node])}
<1>4. 0 \in T
  <2>. SUFFICES ASSUME NEW node \in DOMAIN t, Len(node) = L
                PROVE  Best(t, m, segs, node, f[node])
    BY <1>3
  <2>1. f[node] = Call(t, m, segs, f, node)
    BY <1>1, <1>2 DEF Nodes
  <2>2. Call(t, m, segs, f, node) = [handler |-> t[node][m], param |-> ""]
    BY DEF Call
  <2>. QED BY <1>1, <2>1, <2>2, BestAtEnd
<1>5. ASSUME NEW k \in Nat, k \in T PROVE k + 1 \in T
  <2>. SUFFICES ASSUME NEW node \in DOMAIN t, Len(node) + (k + 1) = L
                PROVE  Best(t, m, segs, node, f[node])
    OBVIOUS
  <2>1. Len(node) \in Nat /\ Len(node) < Len(segs)
    BY <1>1, <1>3
  <2>2. f[node] = Call(t, m, segs, f, node)
    BY <1>1, <1>2, <2>1 DEF Nodes
  <2>3. ASSUME NEW c \in DOMAIN t, Len(c) = Len(node) + 1 PROVE Best(t, m, segs, c, f[c])
    <3>1. Len(c) + k = L
      BY <2>1, <2>3
    <3>. QED BY <1>5, <3>1
  <2>. QED BY <2>1, <2>2, <2>3, BestStep
<1>6. L \in T
  <2>. HIDE DEF T, L
  <2>. QED BY <1>1, <1>4, <1>5, Induction
<1>7. <<>> \in DOMAIN t /\ Len(<<>>) + L = L
  BY <1>1 DEF IsTree
<1>. QED BY <1>2, <1>6, <1>7

\* The accepted routes are the handlers in the tree.
Registered(t, routes) ==
    /\ \A r \in routes : /\ r.method \in Methods /\ r.node \in DOMAIN t
                         /\ r.handler = t[r.node][r.method] /\ r.handler # NoHandler
    /\ \A node \in DOMAIN t, m \in Methods :
         t[node][m] # NoHandler => \E r \in routes : r.method = m /\ r.node = node

\* Of two nodes that match the same path, one is not preferred to the other in
\* both ways: they differ somewhere first.
LEMMA BestIsUnique ==
    ASSUME NEW S, NEW b \in Seq(S), NEW c \in Seq(S), NEW segs, Len(b) = Len(segs),
           Len(c) = Len(segs), Before(b, c), Before(c, b),
           \A i \in 1 .. Len(segs) : b[i] \in {segs[i], Param} /\ c[i] \in {segs[i], Param}
    PROVE  b = c
<1>. DEFINE L == Len(segs)
            D == {i \in 1 .. L : b[i] # c[i]}
<1>1. L \in Nat /\ D \subseteq Nat
  OBVIOUS
<1>2. CASE D = {}
  <2>1. \A i \in 1 .. L : b[i] = c[i]
    BY <1>2
  <2>. HIDE DEF D
  <2>. QED BY <2>1
<1>3. CASE D # {}
  <2>1. PICK i \in D : \A j \in D : i <= j
    <3>. HIDE DEF D
    <3>. QED BY <1>1, <1>3, Least
  <2>2. i \in 1 .. L /\ b[i] # c[i] /\ i \in 1 .. Len(b) /\ i \in 1 .. Len(c)
    OBVIOUS
  <2>3. \A j \in 1 .. i - 1 : b[j] = c[j]
    <3>. TAKE j \in 1 .. i - 1
    <3>1. j \in 1 .. L /\ ~(i <= j)
      BY <1>1, <2>2
    <3>. QED BY <2>1, <3>1
  <2>. HIDE DEF D
  <2>4. CASE b[i] = Param
    <3>1. c[i] # Param
      BY <2>2, <2>4
    <3>2. \E j \in 1 .. i - 1 : b[j] # Param /\ c[j] = Param
      BY <2>2, <2>4, <3>1 DEF Before
    <3>. QED BY <2>3, <3>2
  <2>5. CASE b[i] # Param
    <3>1. c[i] = Param
      BY <2>2, <2>5
    <3>2. \E j \in 1 .. i - 1 : c[j] # Param /\ b[j] = Param
      BY <2>2, <2>5, <3>1 DEF Before
    <3>. QED BY <2>3, <3>2
  <2>. QED BY <2>4, <2>5
<1>. QED BY <1>2, <1>3

\* resolve finds the best match among the routes that were accepted: for every
\* tree, wherever it has nodes without handlers, and every path.
LEMMA ResolveIsBest ==
    ASSUME NEW S, Param \in S, NEW t, IsTree(t, S), NEW routes, Registered(t, routes),
           NEW m \in Methods, NEW uri \in Seq(S \ {Param})
    PROVE  resolve(t, m, uri) = BestMatch(routes, m, uri)
<1>. DEFINE segs == split_path_segments(uri)
            L == Len(segs)
            res == find_handler_recursive(t, m, segs)
            M == Matches(routes, m, segs)
            B == Below(t, m, segs, <<>>)
<1>1. segs \in Seq(Text(S))
  BY SplitIsPath
<1>2. Best(t, m, segs, <<>>, res)
  <2>. HIDE DEF segs
  <2>. QED BY <1>1, FindIsBest
<1>3. resolve(t, m, uri) = res
  BY DEF resolve
<1>4. BestMatch(routes, m, uri) =
        LET best == CHOOSE r \in M : \A q \in M : Preferred(r, q)
            params == {i \in DOMAIN segs : best.node[i] = Param} IN
        IF M = {} THEN NotResolved
        ELSE [handler |-> best.handler,
              param |-> IF params = {} THEN ""
                        ELSE segs[CHOOSE i \in params : \A j \in params : j <= i]]
  BY DEF BestMatch
<1>. HIDE DEF segs
<1>5. L \in Nat /\ DOMAIN segs = 1 .. L
  BY <1>1
<1>6. \A q \in DOMAIN t : q \in Seq(S) /\ DOMAIN q = 1 .. Len(q)
  BY DEF IsTree
<1>7. \A q : q \in B <=> /\ q \in DOMAIN t /\ Len(q) = L /\ t[q][m] # NoHandler
                         /\ \A i \in 1 .. L : q[i] \in {segs[i], Param}
  <2>1. Len(<<>>) = 0 /\ 1 .. 0 = {} /\ 0 + 1 = 1
    OBVIOUS
  <2>. QED BY <2>1 DEF Below
<1>8. \A r : r \in M <=> /\ r \in routes /\ r.method = m /\ Len(r.node) = L
                         /\ \A i \in 1 .. L : r.node[i] \in {segs[i], Param}
  BY <1>5 DEF Matches
<1>. HIDE DEF L, M, B, res
<1>9. \A r \in M : r.node \in B /\ r.handler = t[r.node][m]
  BY <1>7, <1>8 DEF Registered
<1>10. \A q \in B : \E r \in M : r.node = q
  <2>. TAKE q \in B
  <2>1. PICK r \in routes : r.method = m /\ r.node = q
    BY <1>7 DEF Registered
  <2>. QED BY <1>7, <1>8, <2>1
<1>11. \A r, q \in M : Preferred(r, q) <=> Before(r.node, q.node)
  BY <1>6, <1>7, <1>9 DEF Preferred, Before
<1>12. CASE B = {}
  <2>1. M = {}
    BY <1>9, <1>12
  <2>2. res = NotResolved
    BY <1>2, <1>12 DEF Best, B
  <2>. QED BY <1>3, <1>4, <2>1, <2>2
<1>13. CASE B # {}
  <2>1. PICK b : Found(t, m, segs, <<>>, b, res)
    BY <1>2, <1>13 DEF Best, B
  <2>2. /\ b \in B /\ \A q \in B : Before(b, q)
        /\ res = [handler |-> t[b][m], param |-> res.param]
        /\ LastParam(b, segs, 0, res.param)
    <3>1. Len(<<>>) = 0
      OBVIOUS
    <3>. QED BY <2>1, <3>1 DEF Found, B
  <2>. DEFINE best == CHOOSE r \in M : \A q \in M : Preferred(r, q)
  <2>3. \E r \in M : \A q \in M : Preferred(r, q)
    <3>1. PICK r \in M : r.node = b
      BY <1>10, <2>2
    <3>2. \A q \in M : Preferred(r, q)
      BY <1>9, <1>11, <2>2, <3>1
    <3>. QED BY <3>2
  <2>4. best \in M /\ \A q \in M : Preferred(best, q)
    BY <2>3
  <2>5. M # {}
    BY <2>4
  <2>6. best.node = b
    <3>. HIDE DEF best
    <3>1. PICK r \in M : r.node = b
      BY <1>10, <2>2
    <3>2. Before(best.node, b)
      BY <1>11, <2>4, <3>1
    <3>3. PICK c \in B : c = best.node
      BY <1>9, <2>4
    <3>4. Before(b, c) /\ Before(c, b)
      BY <2>2, <3>2, <3>3
    <3>5. /\ b \in Seq(S) /\ c \in Seq(S) /\ Len(b) = Len(segs) /\ Len(c) = Len(segs)
          /\ \A i \in 1 .. Len(segs) : b[i] \in {segs[i], Param} /\ c[i] \in {segs[i], Param}
      BY <1>6, <1>7, <2>2 DEF L
    <3>6. b = c
      BY <3>4, <3>5, BestIsUnique
    <3>. QED BY <3>3, <3>6
  <2>. DEFINE params == {i \in 1 .. L : b[i] = Param}
              last == CHOOSE i \in params : \A j \in params : j <= i
              v == IF params = {} THEN "" ELSE segs[last]
  <2>7. BestMatch(routes, m, uri) = [handler |-> t[b][m], param |-> v]
    <3>1. best.handler = t[b][m]
      BY <1>9, <2>4, <2>6
    <3>2. {i \in DOMAIN segs : best.node[i] = Param} = params
      BY <1>5, <2>6
    <3>. HIDE DEF params, best
    <3>. QED BY <1>4, <2>5, <3>1, <3>2 DEF best
  <2>8. res.param = v
    <3>0. 0 + 1 = 1
      OBVIOUS
    <3>1. CASE params = {}
      <4>1. \A i \in 1 .. Len(segs) : b[i] # Param
        BY <3>1 DEF L
      <4>. QED BY <2>2, <3>0, <3>1, <4>1 DEF LastParam
    <3>2. CASE params # {}
      <4>1. params \subseteq 1 .. L
        OBVIOUS
      <4>2. \E i \in params : \A j \in params : j <= i
        <5>. HIDE DEF params
        <5>. QED BY <1>5, <3>2, <4>1, Greatest
      <4>3. last \in params /\ \A j \in params : j <= last
        BY <4>2
      <4>. HIDE DEF last
      <4>4. last \in 1 .. L /\ b[last] = Param
        BY <4>3
      <4>5. \A j \in last + 1 .. L : b[j] # Param
        <5>. TAKE j \in last + 1 .. L
        <5>1. j \in 1 .. L /\ ~(j <= last)
          BY <1>5, <4>4
        <5>. QED BY <4>3, <5>1
      <4>6. res.param = segs[last]
        <5>1. \A i \in 1 .. Len(segs) : b[i] = Param /\ (\A j \in i + 1 .. Len(segs) : b[j] # Param)
                                        => res.param = segs[i]
          BY <2>2, <3>0 DEF LastParam
        <5>. QED BY <4>4, <4>5, <5>1 DEF L
      <4>. QED BY <3>2, <4>6
    <3>. QED BY <3>1, <3>2
  <2>. QED BY <1>3, <2>2, <2>7, <2>8
<1>. QED BY <1>12, <1>13
-----------------------------------------------------------------------------
(***************************************************************************)
(* The router: registering a path.                                         *)
(***************************************************************************)

\* The nodes on the way of a route.
LEMMA NodeIs ==
    ASSUME NEW S, Param \in S, NEW segs \in Seq(S), NEW n \in 0 .. Len(segs)
    PROVE  /\ NodeOf(segs, n) \in Seq(S) /\ Len(NodeOf(segs, n)) = n
           /\ \A k \in 0 .. n : Prefix(NodeOf(segs, n), k) = NodeOf(segs, k)
<1>. DEFINE x(i) == IF IsParameter(segs[i]) THEN Param ELSE segs[i]
            node == [i \in 1 .. n |-> x(i)]
<1>1. \A i \in 1 .. n : x(i) \in S
  OBVIOUS
<1>2. NodeOf(segs, n) = node
  BY DEF NodeOf
<1>3. n \in Nat
  OBVIOUS
<1>4. node \in Seq(S) /\ Len(node) = n
  <2>. HIDE DEF x
  <2>. QED BY <1>1, <1>3
<1>5. ASSUME NEW k \in 0 .. n PROVE Prefix(node, k) = NodeOf(segs, k)
  <2>1. \A i \in 1 .. k : node[i] = x(i)
    BY <1>3
  <2>2. NodeOf(segs, k) = [i \in 1 .. k |-> x(i)]
    BY DEF NodeOf
  <2>. HIDE DEF x, node
  <2>. QED BY <2>1, <2>2 DEF Prefix
<1>. QED BY <1>2, <1>4, <1>5

\* add gives up at the first refusal, or comes to the end of the path.
Depth(t, segs) ==
    IF Refusals(t, segs) = {} THEN Len(segs)
    ELSE (CHOOSE i \in Refusals(t, segs) : \A j \in Refusals(t, segs) : i <= j) - 1

\* The handlers that a node has before.
Handlers(t, node) == IF node \in DOMAIN t THEN t[node] ELSE Empty

\* It comes no further than the path.
LEMMA DepthIs ==
    ASSUME NEW S, NEW t, NEW segs \in Seq(S)
    PROVE  Depth(t, segs) \in 0 .. Len(segs)
<1>. DEFINE R == Refusals(t, segs)
            first == CHOOSE i \in R : \A j \in R : i <= j
<1>1. R \subseteq 1 .. Len(segs) /\ Len(segs) \in Nat
  BY DEF Refusals
<1>. HIDE DEF R
<1>2. CASE R = {}
  BY <1>1, <1>2 DEF Depth, R
<1>3. CASE R # {}
  <2>1. \E i \in R : \A j \in R : i <= j
    <3>1. R \subseteq Nat
      BY <1>1
    <3>. QED BY <1>3, <3>1, Least
  <2>2. first \in R
    BY <2>1
  <2>3. Depth(t, segs) = first - 1
    BY <1>3 DEF Depth, R
  <2>. HIDE DEF first
  <2>. QED BY <1>1, <2>2, <2>3
<1>. QED BY <1>2, <1>3

\* The routes after add, as add_handler keeps them.
AddRoute(routes, t, m, uri, h) ==
    LET segs == split_path_segments(uri)
        node == NodeOf(segs, Len(segs)) IN
    IF Accepts(t, uri)
    THEN {q \in routes : q.method # m \/ q.node # node}
         \cup {[method |-> m, node |-> node, handler |-> h]}
    ELSE routes

\* A tree stays one, and what it holds stays what was accepted: add leaves
\* nodes behind when it gives up, but none with a handler.
LEMMA AddKeeps ==
    ASSUME NEW S, Param \in S, NEW t, IsTree(t, S), NEW routes, Registered(t, routes),
           NEW m \in Methods, NEW uri \in Seq(S \ {Param}), NEW h, h # NoHandler
    PROVE  /\ IsTree(add(t, m, uri, h), S)
           /\ Registered(add(t, m, uri, h), AddRoute(routes, t, m, uri, h))
<1>. DEFINE segs == split_path_segments(uri)
            L == Len(segs)
            d == Depth(t, segs)
            new == add(t, m, uri, h)
            way == {NodeOf(segs, n) : n \in 0 .. d}
            target == NodeOf(segs, L)
            ok == Accepts(t, uri)
<1>1. segs \in Seq(S)
  <2>1. segs \in Seq(Text(S))
    BY SplitIsPath
  <2>2. Text(S) \subseteq S
    BY DEF Text
  <2>. HIDE DEF segs
  <2>. QED BY <2>1, <2>2
<1>2. /\ DOMAIN new = DOMAIN t \cup way
      /\ \A node \in DOMAIN new :
           new[node] = IF ok /\ node = target THEN [Handlers(t, node) EXCEPT ![m] = h]
                       ELSE Handlers(t, node)
  BY DEF add, Depth, Accepts, Handlers
<1>3. ok => d = L
  BY DEF Accepts, Depth
<1>4. AddRoute(routes, t, m, uri, h) =
        IF ok THEN {q \in routes : q.method # m \/ q.node # target}
                   \cup {[method |-> m, node |-> target, handler |-> h]}
        ELSE routes
  BY DEF AddRoute
<1>. HIDE DEF segs, ok, new
<1>5. L \in Nat /\ d \in 0 .. L
  BY <1>1, DepthIs
<1>6. ok => target \in DOMAIN new
  <2>1. ok => L \in 0 .. d
    BY <1>3, <1>5
  <2>. QED BY <1>2, <2>1
<1>. HIDE DEF d
<1>7. ASSUME NEW n \in 0 .. d
      PROVE  /\ NodeOf(segs, n) \in Seq(S) /\ Len(NodeOf(segs, n)) = n
             /\ \A k \in 0 .. n : Prefix(NodeOf(segs, n), k) \in way
  <2>1. n \in 0 .. L /\ n \in 0 .. Len(segs)
    BY <1>5
  <2>2. /\ NodeOf(segs, n) \in Seq(S) /\ Len(NodeOf(segs, n)) = n
        /\ \A k \in 0 .. n : Prefix(NodeOf(segs, n), k) = NodeOf(segs, k)
    BY <1>1, <2>1, NodeIs
  <2>3. \A k \in 0 .. n : k \in 0 .. d
    BY <1>5
  <2>. QED BY <2>2, <2>3
<1>8. \A node : Handlers(t, node) = [x \in Methods |-> Handlers(t, node)[x]]
  <2>. TAKE node
  <2>1. CASE node \in DOMAIN t
    BY <2>1 DEF Handlers, IsTree
  <2>2. CASE node \notin DOMAIN t
    BY <2>2 DEF Handlers, Empty
  <2>. QED BY <2>1, <2>2
<1>9. ASSUME NEW node \in DOMAIN new, NEW x \in Methods
      PROVE  new[node][x] = IF ok /\ node = target /\ x = m THEN h ELSE Handlers(t, node)[x]
  <2>1. CASE ok /\ node = target
    <3>1. new[node] = [Handlers(t, node) EXCEPT ![m] = h]
      BY <1>2, <2>1
    <3>. QED BY <1>8, <2>1, <3>1
  <2>2. CASE ~(ok /\ node = target)
    BY <1>2, <2>2
  <2>. QED BY <2>1, <2>2
<1>10. IsTree(new, S)
  <2>1. DOMAIN new \subseteq Seq(S)
    <3>1. way \subseteq Seq(S)
      BY <1>7
    <3>. HIDE DEF way
    <3>. QED BY <1>2, <3>1 DEF IsTree
  <2>2. <<>> \in DOMAIN new
    BY <1>2 DEF IsTree
  <2>3. ASSUME NEW node \in DOMAIN new, NEW k \in 0 .. Len(node)
        PROVE  Prefix(node, k) \in DOMAIN new
    <3>1. CASE node \in DOMAIN t
      <4>1. Prefix(node, k) \in DOMAIN t
        BY <3>1 DEF IsTree
      <4>. QED BY <1>2, <4>1
    <3>2. CASE node \in way
      <4>1. PICK n \in 0 .. d : node = NodeOf(segs, n)
        BY <3>2
      <4>2. Len(node) = n
        BY <1>7, <4>1
      <4>3. Prefix(node, k) \in way
        <5>. HIDE DEF way
        <5>. QED BY <1>7, <4>1, <4>2
      <4>. QED BY <1>2, <4>3
    <3>. QED BY <1>2, <3>1, <3>2
  <2>4. ASSUME NEW node \in DOMAIN new
        PROVE  new[node] = [x \in Methods |-> new[node][x]]
    <3>1. CASE ok /\ node = target
      <4>1. new[node] = [Handlers(t, node) EXCEPT ![m] = h]
        BY <1>2, <3>1
      <4>. QED BY <1>8, <4>1
    <3>2. CASE ~(ok /\ node = target)
      BY <1>2, <1>8, <3>2
    <3>. QED BY <3>1, <3>2
  <2>. QED BY <2>1, <2>2, <2>3, <2>4 DEF IsTree
<1>. HIDE DEF way, target
<1>11. ASSUME NEW node, NEW x \in Methods
       PROVE  /\ node \in DOMAIN t => Handlers(t, node)[x] = t[node][x]
              /\ node \notin DOMAIN t => Handlers(t, node)[x] = NoHandler
  BY DEF Handlers, Empty
<1>12. Registered(new, AddRoute(routes, t, m, uri, h))
  <2>1. ASSUME NEW r \in routes, ~(ok /\ r.method = m /\ r.node = target)
        PROVE  /\ r.method \in Methods /\ r.node \in DOMAIN new
               /\ r.handler = new[r.node][r.method] /\ r.handler # NoHandler
    <3>1. /\ r.method \in Methods /\ r.node \in DOMAIN t
          /\ r.handler = t[r.node][r.method] /\ r.handler # NoHandler
      BY DEF Registered
    <3>2. r.node \in DOMAIN new
      BY <1>2, <3>1
    <3>3. new[r.node][r.method] = t[r.node][r.method]
      BY <1>9, <1>11, <2>1, <3>1, <3>2
    <3>. QED BY <3>1, <3>2, <3>3
  <2>2. ASSUME NEW node \in DOMAIN new, NEW x \in Methods, new[node][x] # NoHandler,
               ~(ok /\ node = target /\ x = m)
        PROVE  \E r \in routes : r.method = x /\ r.node = node
    <3>1. Handlers(t, node)[x] # NoHandler
      BY <1>9, <2>2
    <3>2. node \in DOMAIN t /\ t[node][x] # NoHandler
      BY <1>11, <3>1
    <3>. QED BY <3>2 DEF Registered
  <2>3. CASE ~ok
    <3>1. AddRoute(routes, t, m, uri, h) = routes
      BY <1>4, <2>3
    <3>. QED BY <2>1, <2>2, <2>3, <3>1 DEF Registered
  <2>4. CASE ok
    <3>. DEFINE kept == {q \in routes : q.method # m \/ q.node # target}
                r0 == [method |-> m, node |-> target, handler |-> h]
                all == AddRoute(routes, t, m, uri, h)
    <3>1. all = kept \cup {r0}
      BY <1>4, <2>4
    <3>2. new[target][m] = h /\ target \in DOMAIN new
      BY <1>6, <1>9, <2>4
    <3>3. r0.method = m /\ r0.node = target /\ r0.handler = h
      OBVIOUS
    <3>. HIDE DEF r0
    <3>4. \A r \in kept : /\ r.method \in Methods /\ r.node \in DOMAIN new
                          /\ r.handler = new[r.node][r.method] /\ r.handler # NoHandler
      BY <2>1
    <3>5. ASSUME NEW node \in DOMAIN new, NEW x \in Methods, new[node][x] # NoHandler
          PROVE  \E r \in kept \cup {r0} : r.method = x /\ r.node = node
      <4>1. CASE node = target /\ x = m
        BY <3>3, <4>1
      <4>2. CASE ~(node = target /\ x = m)
        <5>1. PICK r \in routes : r.method = x /\ r.node = node
          BY <2>2, <3>5, <4>2
        <5>. QED BY <4>2, <5>1
      <4>. QED BY <4>1, <4>2
    <3>. HIDE DEF kept, all
    <3>6. \A r \in all : /\ r.method \in Methods /\ r.node \in DOMAIN new
                         /\ r.handler = new[r.node][r.method] /\ r.handler # NoHandler
      BY <3>1, <3>2, <3>3, <3>4
    <3>7. \A node \in DOMAIN new, x \in Methods :
            new[node][x] # NoHandler => \E r \in all : r.method = x /\ r.node = node
      BY <3>1, <3>5
    <3>. QED BY <3>6, <3>7 DEF Registered, all
  <2>. QED BY <2>3, <2>4
<1>. QED BY <1>10, <1>12 DEF new
-----------------------------------------------------------------------------
(***************************************************************************)
(* The inductive invariant.                                                *)
(***************************************************************************)

\* After n options an option's field has its default, or the last number given
\* for it, narrowed to the width of the field.
Given(args, n, opt) == {i \in 1 .. n : args[i].opt = opt}

FieldOk(args, n, opt, value, default, width) ==
    /\ Given(args, n, opt) = {} => value = default
    /\ \A i \in Given(args, n, opt) :
         (\A j \in Given(args, n, opt) : j <= i) => value = args[i].number % width

\* And TLS is on until --h2c has been seen.
TlsOk(args, n, use_tls) ==
    \/ use_tls = TRUE /\ Given(args, n, "h2c") = {}
    \/ use_tls = FALSE /\ Given(args, n, "h2c") # {}

Seen == IF pc = "options" THEN done ELSE Len(program.args)

Fields == {"help", "use_tls", "port", "num_threads", "key", "cert"}

OptionsInv ==
    /\ program \in Programs
    /\ pc = "options" => done \in 0 .. Len(program.args)
    /\ config = [x \in Fields |-> config[x]]
    /\ config.num_threads \in Nat /\ config.port \in Nat
    /\ FieldOk(program.args, Seen, "thread", config.num_threads, 1, ThreadValues)
    /\ FieldOk(program.args, Seen, "port", config.port, DefaultPort, PortValues)
    /\ TlsOk(program.args, Seen, config.use_tls)

\* The port; a socket that is descriptor 0 was not bound to it.
SockInv ==
    /\ pc \in {"options", "routes", "socket"} => listening = -1
    /\ pc = "listen" => \/ server_sock \in {-1, 0} /\ listening = -1
                        \/ server_sock = 3 /\ listening = config.port
    /\ pc \in {"epoll", "table", "reserve", "workers", "threads", "serving"} =>
         server_sock = 0 \/ (server_sock = 3 /\ listening = config.port)

\* LoadBalancer::reset.
TableInv ==
    /\ pc = "crashed" => config.num_threads = 0
    /\ pc \in {"reserve", "workers", "threads", "serving"} =>
         /\ config.num_threads > 0
         /\ indirect_table = [i \in 0 .. TableSize - 1 |-> i % config.num_threads]

\* Workers where they were constructed.
Unmoved == {x \in [at : Nat \X Nat, bound : Nat \X Nat, queue : {round_to_pow2(QueueSize)}] :
              x.bound = x.at}

\* The vector has room for all workers before the first is constructed.
WorkersInv ==
    /\ storage \in Nat /\ threads \in Nat
    /\ workers \in Seq(Unmoved)
    /\ pc \notin {"workers", "threads", "serving", "terminated"} =>
         workers = <<>> /\ threads = 0
    /\ pc = "workers" => capacity = config.num_threads /\ Len(workers) <= config.num_threads
                         /\ threads = 0
    /\ pc \in {"threads", "serving"} => Len(workers) = config.num_threads
    /\ pc = "threads" => threads <= config.num_threads
    /\ pc = "serving" => threads = config.num_threads

\* The workers' threads look at use_tls when it no longer changes.
Contexts == {"unset", "ended", "none", "null", "ctx"}

ContextOk(ctx, use_tls) ==
    /\ ctx = "none" => use_tls = FALSE
    /\ ctx \in {"null", "ctx"} => use_tls = TRUE

SslInv ==
    /\ ssl_ctx \in Seq(Contexts)
    /\ pc \notin {"threads", "serving", "terminated"} => ssl_ctx = <<>>
    /\ \A i \in 1 .. Len(ssl_ctx) : ContextOk(ssl_ctx[i], config.use_tls)

\* All the segments there are.
RouteUris == UNION {{p.routes[i].uri : i \in DOMAIN p.routes} : p \in Programs}
Segments == {Param} \cup UNION {{uri[i] : i \in DOMAIN uri} : uri \in Uris \cup RouteUris}

\* The handlers in the tree are the accepted routes.
RouterInv ==
    /\ pc = "routes" => done \in 0 .. Len(program.routes)
    /\ IsTree(tree, Segments)
    /\ Registered(tree, accepted)

IInv == OptionsInv /\ SockInv /\ TableInv /\ WorkersInv /\ SslInv /\ RouterInv

\* One more option: of this name, or of another.
LEMMA FieldStep ==
    ASSUME NEW args, NEW n \in Nat, NEW opt, NEW value, NEW default, NEW width, NEW new,
           FieldOk(args, n, opt, value, default, width),
           new = IF args[n + 1].opt = opt THEN args[n + 1].number % width ELSE value
    PROVE  FieldOk(args, n + 1, opt, new, default, width)
<1>1. CASE args[n + 1].opt = opt
  <2>1. n + 1 \in Given(args, n + 1, opt)
    BY <1>1 DEF Given
  <2>2. ASSUME NEW i \in Given(args, n + 1, opt), \A j \in Given(args, n + 1, opt) : j <= i
        PROVE  i = n + 1
    BY <2>1, <2>2 DEF Given
  <2>. QED BY <1>1, <2>1, <2>2 DEF FieldOk
<1>2. CASE args[n + 1].opt # opt
  <2>1. Given(args, n + 1, opt) = Given(args, n, opt)
    BY <1>2 DEF Given
  <2>. QED BY <1>2, <2>1 DEF FieldOk
<1>. QED BY <1>1, <1>2

\* One more option, for TLS.
LEMMA TlsStep ==
    ASSUME NEW args, NEW n \in Nat, NEW value, NEW new, TlsOk(args, n, value),
           new = IF args[n + 1].opt = "h2c" THEN FALSE ELSE value
    PROVE  TlsOk(args, n + 1, new)
<1>1. CASE args[n + 1].opt = "h2c"
  <2>1. n + 1 \in Given(args, n + 1, "h2c")
    BY <1>1 DEF Given
  <2>. QED BY <1>1, <2>1 DEF TlsOk
<1>2. CASE args[n + 1].opt # "h2c"
  <2>1. Given(args, n + 1, "h2c") = Given(args, n, "h2c")
    BY <1>2 DEF Given
  <2>. QED BY <1>2, <2>1 DEF TlsOk
<1>. QED BY <1>1, <1>2

\* The command lines are sequences of options with numbers.
LEMMA Arguments ==
    ASSUME NEW p \in Programs
    PROVE  /\ Len(p.args) \in Nat /\ DOMAIN p.args = 1 .. Len(p.args)
           /\ \A i \in 1 .. Len(p.args) : p.args[i].number \in Int
<1>. DEFINE S == {p.args[i] : i \in DOMAIN p.args}
<1>1. p.args \in Seq(S) /\ \A i \in DOMAIN p.args : p.args[i].number \in Int
  BY StartupAssumption
<1>. HIDE DEF S
<1>. QED BY <1>1

\* At first there are the defaults.
LEMMA InitIInv ==
    Init => IInv
<1>. SUFFICES ASSUME Init PROVE IInv
  OBVIOUS
<1>1. OptionsInv
  <2>1. program \in Programs /\ done = 0 /\ pc = "options"
    BY DEF Init
  <2>2. 0 \in 0 .. Len(program.args)
    BY <2>1, Arguments
  <2>3. /\ config = [x \in Fields |-> config[x]]
        /\ config.num_threads = 1 /\ config.port = DefaultPort
    BY DEF Init, Fields
  <2>4. DefaultPort \in Nat
    <3>1. PortValues \in Nat \ {0} /\ 443 \in Int
      BY StartupAssumption
    <3>. QED BY <3>1, Remainder DEF DefaultPort
  <2>5. /\ Given(program.args, Seen, "thread") = {} /\ Given(program.args, Seen, "port") = {}
        /\ Given(program.args, Seen, "h2c") = {}
    BY <2>1 DEF Given, Seen
  <2>6. config.use_tls = TRUE
    BY DEF Init
  <2>7. TlsOk(program.args, Seen, config.use_tls)
    BY <2>5, <2>6 DEF TlsOk
  <2>. QED BY <2>1, <2>2, <2>3, <2>4, <2>5, <2>7 DEF OptionsInv, FieldOk
<1>2. SockInv /\ TableInv
  BY DEF Init, SockInv, TableInv
<1>3. WorkersInv
  BY DEF Init, WorkersInv
<1>5. SslInv
  BY DEF Init, SslInv
<1>4. RouterInv
  <2>1. /\ tree = [node \in {<<>>} |-> [m \in Methods |-> NoHandler]] /\ accepted = {}
        /\ pc = "options"
    BY DEF Init, NewRouter, Empty
  <2>2. DOMAIN tree = {<<>>} /\ \A m \in Methods : tree[<<>>][m] = NoHandler
    BY <2>1
  <2>3. \A k \in 0 .. Len(<<>>) : Prefix(<<>>, k) = <<>>
    BY DEF Prefix
  <2>4. tree[<<>>] = [m \in Methods |-> tree[<<>>][m]]
    BY <2>1
  <2>5. IsTree(tree, Segments)
    BY <2>2, <2>3, <2>4 DEF IsTree
  <2>6. Registered(tree, accepted)
    BY <2>1, <2>2 DEF Registered
  <2>. QED BY <2>1, <2>5, <2>6 DEF RouterInv
<1>. QED BY <1>1, <1>2, <1>3, <1>4, <1>5 DEF IInv

\* getopt_long's loop.
LEMMA Option ==
    ASSUME IInv, parse_command_line
    PROVE  OptionsInv'
<1>. DEFINE args == program.args
            n == done
            o == args[n + 1]
<1>1. /\ program \in Programs /\ program' = program /\ done' = n + 1 /\ pc = "options"
      /\ pc' = pc /\ n < Len(args) /\ n \in 0 .. Len(args)
      /\ config = [x \in Fields |-> config[x]]
      /\ config.num_threads \in Nat /\ config.port \in Nat
      /\ FieldOk(args, n, "thread", config.num_threads, 1, ThreadValues)
      /\ FieldOk(args, n, "port", config.port, DefaultPort, PortValues)
      /\ TlsOk(args, n, config.use_tls)
  BY DEF parse_command_line, IInv, OptionsInv, Seen
<1>2. Len(args) \in Nat /\ \A i \in 1 .. Len(args) : args[i].number \in Int
  BY <1>1, Arguments
<1>3. n + 1 \in 1 .. Len(args) /\ n \in Nat
  BY <1>1, <1>2
<1>4. o.number \in Int
  BY <1>2, <1>3
<1>5. config' =
        CASE o.opt = "port" -> [config EXCEPT !.port = o.number % PortValues]
          [] o.opt = "thread" -> [config EXCEPT !.num_threads = o.number % ThreadValues]
          [] o.opt = "key" -> [config EXCEPT !.key = o.path]
          [] o.opt = "cert" -> [config EXCEPT !.cert = o.path]
          [] o.opt = "h2c" -> [config EXCEPT !.use_tls = FALSE]
          [] o.opt = "help" -> [config EXCEPT !.help = TRUE]
          [] OTHER -> config
  BY DEF parse_command_line
<1>6. o.number % PortValues \in Nat /\ o.number % ThreadValues \in Nat
  <2>1. PortValues \in Nat \ {0} /\ ThreadValues \in Nat \ {0}
    BY StartupAssumption
  <2>2. PICK k \in Int : k = o.number
    BY <1>4
  <2>3. k % PortValues \in 0 .. PortValues - 1 /\ k % ThreadValues \in 0 .. ThreadValues - 1
    BY <2>1, Remainder
  <2>. QED BY <2>1, <2>2, <2>3
<1>. HIDE DEF o
<1>7. /\ config' = [x \in Fields |-> config'[x]]
      /\ config'.num_threads = IF o.opt = "thread" THEN o.number % ThreadValues
                               ELSE config.num_threads
      /\ config'.port = IF o.opt = "port" THEN o.number % PortValues ELSE config.port
      /\ config'.use_tls = IF o.opt = "h2c" THEN FALSE ELSE config.use_tls
  <2>1. CASE o.opt = "port"
    <3>1. config' = [config EXCEPT !.port = o.number % PortValues]
      BY <1>5, <2>1
    <3>. QED BY <1>1, <2>1, <3>1 DEF Fields
  <2>2. CASE o.opt = "thread"
    <3>1. config' = [config EXCEPT !.num_threads = o.number % ThreadValues]
      BY <1>5, <2>2
    <3>. QED BY <1>1, <2>2, <3>1 DEF Fields
  <2>3. CASE o.opt = "key"
    <3>1. config' = [config EXCEPT !.key = o.path]
      BY <1>5, <2>3
    <3>. QED BY <1>1, <2>3, <3>1 DEF Fields
  <2>4. CASE o.opt = "cert"
    <3>1. config' = [config EXCEPT !.cert = o.path]
      BY <1>5, <2>4
    <3>. QED BY <1>1, <2>4, <3>1 DEF Fields
  <2>5. CASE o.opt = "h2c"
    <3>1. config' = [config EXCEPT !.use_tls = FALSE]
      BY <1>5, <2>5
    <3>. QED BY <1>1, <2>5, <3>1 DEF Fields
  <2>6. CASE o.opt = "help"
    <3>1. config' = [config EXCEPT !.help = TRUE]
      BY <1>5, <2>6
    <3>. QED BY <1>1, <2>6, <3>1 DEF Fields
  <2>7. CASE o.opt \notin {"port", "thread", "key", "cert", "h2c", "help"}
    <3>1. config' = config
      BY <1>5, <2>7
    <3>. QED BY <1>1, <2>7, <3>1 DEF Fields
  <2>. QED BY <2>1, <2>2, <2>3, <2>4, <2>5, <2>6, <2>7
<1>8. FieldOk(args, n + 1, "thread", config'.num_threads, 1, ThreadValues)
  BY <1>1, <1>3, <1>7, FieldStep DEF o
<1>9. FieldOk(args, n + 1, "port", config'.port, DefaultPort, PortValues)
  BY <1>1, <1>3, <1>7, FieldStep DEF o
<1>13. TlsOk(args, n + 1, config'.use_tls)
  BY <1>1, <1>3, <1>7, TlsStep DEF o
<1>10. Seen' = n + 1
  BY <1>1 DEF Seen
<1>11. config'.num_threads \in Nat /\ config'.port \in Nat
  BY <1>1, <1>6, <1>7
<1>12. n + 1 \in 0 .. Len(args)
  BY <1>2, <1>3
<1>. QED BY <1>1, <1>7, <1>8, <1>9, <1>10, <1>11, <1>12, <1>13 DEF OptionsInv

\* The options stay as they were parsed.
LEMMA NextOptions ==
    ASSUME IInv, Next
    PROVE  OptionsInv'
<1>1. OptionsInv
  BY DEF IInv
<1>11. CASE parse_command_line
  BY <1>11, Option
<1>12. CASE OptionsParsed
  BY <1>1, <1>12 DEF OptionsParsed, OptionsInv, Seen, Goto
<1>13. CASE add_handler
  BY <1>1, <1>13 DEF add_handler, OptionsInv, Seen
<1>14. CASE listen_and_serve
  BY <1>1, <1>14 DEF listen_and_serve, OptionsInv, Seen, Goto
<1>15. CASE create_listening_socket
  BY <1>1, <1>15 DEF create_listening_socket, OptionsInv, Seen, Goto
<1>16. CASE Listen
  BY <1>1, <1>16 DEF Listen, OptionsInv, Seen, Goto
<1>17. CASE create_epoll
  BY <1>1, <1>17 DEF create_epoll, OptionsInv, Seen, Goto
<1>18. CASE reset
  BY <1>1, <1>18 DEF reset, OptionsInv, Seen, Goto
<1>19. CASE reserve
  BY <1>1, <1>19 DEF reserve, OptionsInv, Seen, Goto
<1>20. CASE emplace_back
  BY <1>1, <1>20 DEF emplace_back, OptionsInv, Seen
<1>21. CASE WorkersMade
  BY <1>1, <1>21 DEF WorkersMade, OptionsInv, Seen, Goto
<1>22. CASE StartThread
  BY <1>1, <1>22 DEF StartThread, OptionsInv, Seen, Goto
<1>23. CASE Serve
  BY <1>1, <1>23 DEF Serve, OptionsInv, Seen, Goto
<1>24. CASE \E i \in DOMAIN ssl_ctx : RunWorker(i)
  BY <1>1, <1>24 DEF RunWorker, OptionsInv, Seen
<1>. QED BY <1>11, <1>12, <1>13, <1>14, <1>15, <1>16, <1>17, <1>18, <1>19, <1>20, <1>21,
            <1>22, <1>23, <1>24 DEF Next

\* The port stays the one that was bound.
LEMMA NextSock ==
    ASSUME IInv, Next
    PROVE  SockInv'
<1>1. SockInv /\ OptionsInv
  BY DEF IInv
<1>2. config.port \in Nat
  BY <1>1 DEF OptionsInv
<1>11. CASE parse_command_line
  BY <1>1, <1>2, <1>11 DEF parse_command_line, SockInv, sockVars
<1>12. CASE OptionsParsed
  BY <1>1, <1>2, <1>12 DEF OptionsParsed, SockInv, sockVars, Goto
<1>13. CASE add_handler
  BY <1>1, <1>2, <1>13 DEF add_handler, SockInv, sockVars
<1>14. CASE listen_and_serve
  BY <1>1, <1>2, <1>14 DEF listen_and_serve, SockInv, sockVars, Goto
<1>15. CASE create_listening_socket
  BY <1>1, <1>2, <1>15 DEF create_listening_socket, SockInv, sockVars, Goto
<1>16. CASE Listen
  BY <1>1, <1>2, <1>16 DEF Listen, SockInv, sockVars, Goto
<1>17. CASE create_epoll
  BY <1>1, <1>2, <1>17 DEF create_epoll, SockInv, sockVars, Goto
<1>18. CASE reset
  BY <1>1, <1>2, <1>18 DEF reset, SockInv, sockVars, Goto
<1>19. CASE reserve
  BY <1>1, <1>2, <1>19 DEF reserve, SockInv, sockVars, Goto
<1>20. CASE emplace_back
  BY <1>1, <1>2, <1>20 DEF emplace_back, SockInv, sockVars
<1>21. CASE WorkersMade
  BY <1>1, <1>2, <1>21 DEF WorkersMade, SockInv, sockVars, Goto
<1>22. CASE StartThread
  BY <1>1, <1>2, <1>22 DEF StartThread, SockInv, sockVars, Goto
<1>23. CASE Serve
  BY <1>1, <1>2, <1>23 DEF Serve, SockInv, sockVars, Goto
<1>24. CASE \E i \in DOMAIN ssl_ctx : RunWorker(i)
  BY <1>1, <1>2, <1>24 DEF RunWorker, SockInv, sockVars
<1>. QED BY <1>11, <1>12, <1>13, <1>14, <1>15, <1>16, <1>17, <1>18, <1>19, <1>20, <1>21,
            <1>22, <1>23, <1>24 DEF Next

\* The table stays the one that was made for the workers.
LEMMA NextTable ==
    ASSUME IInv, Next
    PROVE  TableInv'
<1>1. TableInv /\ OptionsInv
  BY DEF IInv
<1>2. config.num_threads \in Nat
  BY <1>1 DEF OptionsInv
<1>11. CASE parse_command_line
  BY <1>1, <1>11 DEF parse_command_line, TableInv, workerVars
<1>12. CASE OptionsParsed
  BY <1>1, <1>12 DEF OptionsParsed, TableInv, workerVars, Goto
<1>13. CASE add_handler
  BY <1>1, <1>13 DEF add_handler, TableInv, workerVars
<1>14. CASE listen_and_serve
  BY <1>1, <1>14 DEF listen_and_serve, TableInv, workerVars, Goto
<1>15. CASE create_listening_socket
  BY <1>1, <1>15 DEF create_listening_socket, TableInv, workerVars, Goto
<1>16. CASE Listen
  BY <1>1, <1>16 DEF Listen, TableInv, workerVars, Goto
<1>17. CASE create_epoll
  BY <1>1, <1>17 DEF create_epoll, TableInv, workerVars, Goto
<1>18. CASE reset
  <2>1. CASE config.num_threads = 0
    BY <1>1, <1>18, <2>1 DEF reset, TableInv, Goto
  <2>2. CASE config.num_threads # 0
    <3>1. config.num_threads > 0 /\ config' = config /\ pc' = "reserve"
      BY <1>2, <1>18, <2>2 DEF reset, Goto
    <3>2. indirect_table' = [i \in 0 .. TableSize - 1 |-> i % config.num_threads]
      BY <1>18, <2>2 DEF reset
    <3>. QED BY <3>1, <3>2 DEF TableInv
  <2>. QED BY <2>1, <2>2
<1>19. CASE reserve
  BY <1>1, <1>19 DEF reserve, TableInv, workerVars, Goto
<1>20. CASE emplace_back
  BY <1>1, <1>20 DEF emplace_back, TableInv, workerVars
<1>21. CASE WorkersMade
  BY <1>1, <1>21 DEF WorkersMade, TableInv, workerVars, Goto
<1>22. CASE StartThread
  BY <1>1, <1>22 DEF StartThread, TableInv, workerVars, Goto
<1>23. CASE Serve
  BY <1>1, <1>23 DEF Serve, TableInv, workerVars, Goto
<1>24. CASE \E i \in DOMAIN ssl_ctx : RunWorker(i)
  BY <1>1, <1>24 DEF RunWorker, TableInv, workerVars
<1>. QED BY <1>11, <1>12, <1>13, <1>14, <1>15, <1>16, <1>17, <1>18, <1>19, <1>20, <1>21,
            <1>22, <1>23, <1>24 DEF Next

\* No worker moves: the vector is large enough.
LEMMA NextWorkers ==
    ASSUME IInv, Next
    PROVE  WorkersInv'
<1>1. WorkersInv /\ OptionsInv
  BY DEF IInv
<1>2. config.num_threads \in Nat
  BY <1>1 DEF OptionsInv
<1>11. CASE parse_command_line
  BY <1>1, <1>2, <1>11 DEF parse_command_line, WorkersInv, workerVars
<1>12. CASE OptionsParsed
  BY <1>1, <1>2, <1>12 DEF OptionsParsed, WorkersInv, workerVars, Goto
<1>13. CASE add_handler
  BY <1>1, <1>2, <1>13 DEF add_handler, WorkersInv, workerVars
<1>14. CASE listen_and_serve
  BY <1>1, <1>2, <1>14 DEF listen_and_serve, WorkersInv, workerVars, Goto
<1>15. CASE create_listening_socket
  BY <1>1, <1>2, <1>15 DEF create_listening_socket, WorkersInv, workerVars, Goto
<1>16. CASE Listen
  BY <1>1, <1>2, <1>16 DEF Listen, WorkersInv, workerVars, Goto
<1>17. CASE create_epoll
  BY <1>1, <1>2, <1>17 DEF create_epoll, WorkersInv, workerVars, Goto
<1>18. CASE reset
  BY <1>1, <1>2, <1>18 DEF reset, WorkersInv, workerVars, Goto
<1>19. CASE reserve
  BY <1>1, <1>2, <1>19 DEF reserve, WorkersInv, workerVars, Goto
<1>20. CASE emplace_back
  <2>. DEFINE n == Len(workers)
              x == NewWorker(<<storage, n + 1>>)
  <2>1. /\ workers \in Seq(Unmoved) /\ capacity = config.num_threads /\ storage \in Nat
        /\ n < config.num_threads /\ threads = 0 /\ pc = "workers" /\ n \in Nat
    BY <1>1, <1>20 DEF WorkersInv, emplace_back
  <2>2. n # capacity
    BY <1>2, <2>1
  <2>3. /\ workers' = Append([i \in DOMAIN workers |-> workers[i]], x)
        /\ storage' = storage /\ capacity' = capacity /\ threads' = threads
        /\ config' = config /\ pc' = pc
    BY <1>20, <2>2 DEF emplace_back
  <2>4. [i \in DOMAIN workers |-> workers[i]] = workers
    BY <2>1
  <2>5. x \in Unmoved
    <3>1. PICK at \in Nat \X Nat : at = <<storage, n + 1>>
      <4>1. n + 1 \in Nat
        BY <2>1
      <4>. QED BY <2>1, <4>1
    <3>2. NewWorker(at) \in Unmoved
      BY DEF NewWorker, Unmoved
    <3>. QED BY <3>1, <3>2
  <2>. HIDE DEF x
  <2>6. workers' = Append(workers, x)
    BY <2>3, <2>4
  <2>7. workers' \in Seq(Unmoved) /\ Len(workers') = n + 1
    BY <2>1, <2>5, <2>6
  <2>8. n + 1 <= config.num_threads
    BY <1>2, <2>1
  <2>. QED BY <2>1, <2>3, <2>7, <2>8 DEF WorkersInv
<1>21. CASE WorkersMade
  BY <1>1, <1>2, <1>21 DEF WorkersMade, WorkersInv, workerVars, Goto
<1>22. CASE StartThread
  BY <1>1, <1>2, <1>22 DEF StartThread, WorkersInv, workerVars, Goto
<1>23. CASE Serve
  BY <1>1, <1>2, <1>23 DEF Serve, WorkersInv, workerVars, Goto
<1>24. CASE \E i \in DOMAIN ssl_ctx : RunWorker(i)
  BY <1>1, <1>2, <1>24 DEF RunWorker, WorkersInv, workerVars
<1>. QED BY <1>11, <1>12, <1>13, <1>14, <1>15, <1>16, <1>17, <1>18, <1>19, <1>20, <1>21,
            <1>22, <1>23, <1>24 DEF Next

\* A worker's context agrees with use_tls.
LEMMA NextSsl ==
    ASSUME IInv, Next
    PROVE  SslInv'
<1>1. SslInv /\ OptionsInv
  BY DEF IInv
<1>11. CASE parse_command_line
  <2>1. pc = "options" /\ pc' = pc /\ ssl_ctx' = ssl_ctx
    BY <1>11 DEF parse_command_line, workerVars
  <2>2. ssl_ctx = <<>> /\ ssl_ctx \in Seq(Contexts)
    BY <1>1, <2>1 DEF SslInv
  <2>3. 1 .. Len(ssl_ctx') = {}
    BY <2>1, <2>2
  <2>. QED BY <2>1, <2>2, <2>3 DEF SslInv
<1>12. CASE OptionsParsed
  BY <1>1, <1>12 DEF OptionsParsed, SslInv, workerVars, Goto
<1>13. CASE add_handler
  BY <1>1, <1>13 DEF add_handler, SslInv, workerVars
<1>14. CASE listen_and_serve
  BY <1>1, <1>14 DEF listen_and_serve, SslInv, workerVars, Goto
<1>15. CASE create_listening_socket
  BY <1>1, <1>15 DEF create_listening_socket, SslInv, workerVars, Goto
<1>16. CASE Listen
  BY <1>1, <1>16 DEF Listen, SslInv, workerVars, Goto
<1>17. CASE create_epoll
  BY <1>1, <1>17 DEF create_epoll, SslInv, workerVars, Goto
<1>18. CASE reset
  BY <1>1, <1>18 DEF reset, SslInv, workerVars, Goto
<1>19. CASE reserve
  BY <1>1, <1>19 DEF reserve, SslInv, workerVars, Goto
<1>20. CASE emplace_back
  BY <1>1, <1>20 DEF emplace_back, SslInv, workerVars
<1>21. CASE WorkersMade
  BY <1>1, <1>21 DEF WorkersMade, SslInv, workerVars, Goto
<1>22. CASE StartThread
  <2>1. /\ pc = "threads" /\ config' = config /\ pc' \in {"threads", "terminated"}
        /\ ssl_ctx' = Append(ssl_ctx, "unset") \/ ssl_ctx' = ssl_ctx
    BY <1>22 DEF StartThread, Goto
  <2>2. ssl_ctx \in Seq(Contexts) /\ "unset" \in Contexts
    BY <1>1 DEF SslInv, Contexts
  <2>3. CASE ssl_ctx' = Append(ssl_ctx, "unset")
    <3>1. ssl_ctx' \in Seq(Contexts) /\ Len(ssl_ctx') = Len(ssl_ctx) + 1
      BY <2>2, <2>3
    <3>2. ASSUME NEW i \in 1 .. Len(ssl_ctx')
          PROVE  ContextOk(ssl_ctx'[i], config'.use_tls)
      <4>1. CASE i = Len(ssl_ctx) + 1
        <5>1. ssl_ctx'[i] = "unset"
          BY <2>2, <2>3, <4>1
        <5>. QED BY <5>1 DEF ContextOk
      <4>2. CASE i # Len(ssl_ctx) + 1
        <5>1. i \in 1 .. Len(ssl_ctx) /\ ssl_ctx'[i] = ssl_ctx[i]
          BY <2>2, <2>3, <3>1, <4>2
        <5>. QED BY <1>1, <2>1, <5>1 DEF SslInv
      <4>. QED BY <4>1, <4>2
    <3>. QED BY <2>1, <3>1, <3>2 DEF SslInv
  <2>4. CASE ssl_ctx' = ssl_ctx
    BY <1>1, <2>1, <2>4 DEF SslInv
  <2>. QED BY <2>1, <2>3, <2>4
<1>23. CASE Serve
  BY <1>1, <1>23 DEF Serve, SslInv, workerVars, Goto
<1>24. ASSUME NEW i \in DOMAIN ssl_ctx, RunWorker(i) PROVE SslInv'
  <2>1. PICK ctx \in {"ended"} \cup (IF config.use_tls THEN create_ssl_ctx ELSE {"none"}) :
          ssl_ctx' = [ssl_ctx EXCEPT ![i] = ctx]
    BY <1>24 DEF RunWorker
  <2>2. config' = config /\ pc' = pc
    BY <1>24 DEF RunWorker
  <2>3. config.use_tls \in {TRUE, FALSE}
    BY <1>1 DEF OptionsInv, TlsOk
  <2>4. ctx \in Contexts /\ ContextOk(ctx, config.use_tls)
    <3>1. CASE config.use_tls = TRUE
      BY <2>1, <3>1 DEF create_ssl_ctx, Contexts, ContextOk
    <3>2. CASE config.use_tls = FALSE
      BY <2>1, <3>2 DEF Contexts, ContextOk
    <3>. QED BY <2>3, <3>1, <3>2
  <2>5. ssl_ctx \in Seq(Contexts) /\ i \in 1 .. Len(ssl_ctx)
    BY <1>1 DEF SslInv
  <2>6. ssl_ctx' \in Seq(Contexts) /\ Len(ssl_ctx') = Len(ssl_ctx)
    BY <2>1, <2>4, <2>5
  <2>7. ASSUME NEW j \in 1 .. Len(ssl_ctx)
        PROVE  ContextOk(ssl_ctx'[j], config'.use_tls)
    <3>1. ssl_ctx'[j] = IF j = i THEN ctx ELSE ssl_ctx[j]
      BY <2>1, <2>5
    <3>2. ContextOk(ssl_ctx[j], config.use_tls)
      BY <1>1 DEF SslInv
    <3>. QED BY <2>2, <2>4, <3>1, <3>2
  <2>8. ssl_ctx # <<>>
    BY <2>5
  <2>. QED BY <1>1, <2>2, <2>6, <2>7, <2>8 DEF SslInv
<1>. QED BY <1>11, <1>12, <1>13, <1>14, <1>15, <1>16, <1>17, <1>18, <1>19, <1>20, <1>21,
            <1>22, <1>23, <1>24 DEF Next

\* Uris are sequences of these segments.
LEMMA UriText ==
    ASSUME NEW uri \in Uris \cup RouteUris, IsText(uri)
    PROVE  uri \in Seq(Segments \ {Param})
<1>. DEFINE S == {uri[i] : i \in DOMAIN uri}
<1>1. uri \in Seq(S \ {Param})
  BY DEF IsText
<1>2. S \subseteq Segments
  BY DEF Segments
<1>. HIDE DEF S
<1>. QED BY <1>1, <1>2

\* A route to register.
LEMMA RouteIs ==
    ASSUME NEW p \in Programs, NEW i \in 1 .. Len(p.routes)
    PROVE  /\ p.routes[i].method \in Methods /\ p.routes[i].handler # NoHandler
           /\ p.routes[i].uri \in Seq(Segments \ {Param})
<1>. DEFINE S == {p.routes[j] : j \in DOMAIN p.routes}
<1>1. p.routes \in Seq(S)
  BY RoutesAssumption
<1>. HIDE DEF S
<1>2. i \in DOMAIN p.routes
  BY <1>1
<1>3. /\ p.routes[i].method \in Methods /\ p.routes[i].handler # NoHandler
      /\ IsText(p.routes[i].uri)
  BY <1>2, RoutesAssumption
<1>4. p.routes[i].uri \in RouteUris
  BY <1>2 DEF RouteUris
<1>. QED BY <1>3, <1>4, UriText

\* Registering keeps the tree and the accepted routes together.
LEMMA NextRouter ==
    ASSUME IInv, Next
    PROVE  RouterInv'
<1>1. RouterInv /\ program \in Programs
  BY DEF IInv, OptionsInv
<1>2. Len(program.routes) \in Nat
  <2>. DEFINE S == {program.routes[j] : j \in DOMAIN program.routes}
  <2>1. program.routes \in Seq(S)
    BY <1>1, RoutesAssumption
  <2>. HIDE DEF S
  <2>. QED BY <2>1
<1>11. CASE parse_command_line
  BY <1>1, <1>11 DEF parse_command_line, RouterInv, routeVars
<1>12. CASE OptionsParsed
  <2>1. program' = program /\ done' = 0 /\ UNCHANGED routeVars
    BY <1>12 DEF OptionsParsed
  <2>. QED BY <1>1, <1>2, <2>1 DEF RouterInv, routeVars
<1>13. CASE add_handler
  <2>. DEFINE r == program.routes[done + 1]
  <2>1. /\ pc = "routes" /\ done < Len(program.routes) /\ done' = done + 1
        /\ pc' = pc /\ program' = program
        /\ tree' = add(tree, r.method, r.uri, r.handler)
        /\ accepted' = AddRoute(accepted, tree, r.method, r.uri, r.handler)
    BY <1>13 DEF add_handler, AddRoute
  <2>2. done \in 0 .. Len(program.routes)
    BY <1>1, <2>1 DEF RouterInv
  <2>3. done + 1 \in 1 .. Len(program.routes) /\ done + 1 \in 0 .. Len(program.routes)
    BY <1>2, <2>1, <2>2
  <2>4. r.method \in Methods /\ r.handler # NoHandler /\ r.uri \in Seq(Segments \ {Param})
    BY <1>1, <2>3, RouteIs
  <2>5. Param \in Segments /\ IsTree(tree, Segments) /\ Registered(tree, accepted)
    BY <1>1 DEF RouterInv, Segments
  <2>. HIDE DEF r
  <2>6. IsTree(tree', Segments) /\ Registered(tree', accepted')
    BY <2>1, <2>4, <2>5, AddKeeps
  <2>. QED BY <2>1, <2>3, <2>6 DEF RouterInv
<1>14. CASE listen_and_serve
  BY <1>1, <1>14 DEF listen_and_serve, RouterInv, routeVars, Goto
<1>15. CASE create_listening_socket
  BY <1>1, <1>15 DEF create_listening_socket, RouterInv, routeVars, Goto
<1>16. CASE Listen
  BY <1>1, <1>16 DEF Listen, RouterInv, routeVars, Goto
<1>17. CASE create_epoll
  BY <1>1, <1>17 DEF create_epoll, RouterInv, routeVars, Goto
<1>18. CASE reset
  BY <1>1, <1>18 DEF reset, RouterInv, routeVars, Goto
<1>19. CASE reserve
  BY <1>1, <1>19 DEF reserve, RouterInv, routeVars, Goto
<1>20. CASE emplace_back
  BY <1>1, <1>20 DEF emplace_back, RouterInv, routeVars
<1>21. CASE WorkersMade
  BY <1>1, <1>21 DEF WorkersMade, RouterInv, routeVars, Goto
<1>22. CASE StartThread
  BY <1>1, <1>22 DEF StartThread, RouterInv, routeVars, Goto
<1>23. CASE Serve
  BY <1>1, <1>23 DEF Serve, RouterInv, routeVars, Goto
<1>24. CASE \E i \in DOMAIN ssl_ctx : RunWorker(i)
  BY <1>1, <1>24 DEF RunWorker, RouterInv, routeVars
<1>. QED BY <1>11, <1>12, <1>13, <1>14, <1>15, <1>16, <1>17, <1>18, <1>19, <1>20, <1>21,
            <1>22, <1>23, <1>24 DEF Next

\* Every step keeps the invariant.
LEMMA NextIInv ==
    IInv /\ [Next]_vars => IInv'
<1>. SUFFICES ASSUME IInv, [Next]_vars PROVE IInv'
  OBVIOUS
<1>1. CASE Next
  BY <1>1, NextOptions, NextSock, NextTable, NextWorkers, NextSsl, NextRouter
     DEF IInv
<1>2. CASE UNCHANGED vars
  BY <1>2 DEF vars, routeVars, sockVars, workerVars, IInv, OptionsInv, Seen, SockInv, TableInv,
              WorkersInv, SslInv, RouterInv
<1>. QED BY <1>1, <1>2
-----------------------------------------------------------------------------
(***************************************************************************)
(* The theorems.                                                           *)
(***************************************************************************)

\* The inductive invariant holds in every state.
THEOREM Invariance == Spec => []IInv
<1>. QED BY InitIInv, NextIInv, PTL DEF Spec

\* For any number of workers no callback is bound to a Worker that has moved, and
\* for any size the queue has the nearest power of two, of at least two slots.
THEOREM WorkersStaySound == Spec => []WorkersAreSound
<1>1. IInv => WorkersAreSound
  <2>. SUFFICES ASSUME IInv, NEW i \in DOMAIN workers
                PROVE  LET w == workers[i]
                           Distance(p) == IF p <= QueueSize THEN QueueSize - p
                                          ELSE p - QueueSize IN
                       /\ w.bound = w.at
                       /\ w.queue \in Power2 \ {1}
                       /\ \A p \in Power2 : Distance(w.queue) <= Distance(p)
    BY DEF WorkersAreSound
  <2>1. workers \in Seq(Unmoved)
    BY DEF IInv, WorkersInv
  <2>2. workers[i] \in Unmoved
    BY <2>1
  <2>3. workers[i].bound = workers[i].at /\ workers[i].queue = round_to_pow2(QueueSize)
    BY <2>2 DEF Unmoved
  <2>. QED BY <2>3, RoundIsNearest
<1>. QED BY <1>1, Invariance, PTL

\* The number asked for is the default, or the last given for the option.
LEMMA AskedIs ==
    ASSUME program \in Programs, NEW opt, NEW value, NEW default, NEW width,
           FieldOk(program.args, Len(program.args), opt, value, default, width)
    PROVE  \/ value = default /\ Asked({opt}, default) = default
           \/ value = Asked({opt}, default) % width /\ Asked({opt}, default) \in Int
<1>. DEFINE args == program.args
            n == Len(args)
            given == {i \in DOMAIN args : args[i].opt \in {opt}}
<1>1. n \in Nat /\ DOMAIN args = 1 .. n /\ \A i \in 1 .. n : args[i].number \in Int
  BY Arguments
<1>2. given = Given(args, n, opt) /\ given \subseteq 1 .. n
  BY <1>1 DEF Given
<1>3. CASE given = {}
  BY <1>2, <1>3 DEF FieldOk, Asked
<1>4. CASE given # {}
  <2>. DEFINE last == CHOOSE i \in given : \A j \in given : j <= i
  <2>1. \E i \in given : \A j \in given : j <= i
    <3>. HIDE DEF given, n
    <3>. QED BY <1>1, <1>2, <1>4, Greatest
  <2>2. last \in given /\ \A j \in given : j <= last
    BY <2>1
  <2>3. Asked({opt}, default) = args[last].number
    BY <1>4 DEF Asked
  <2>. HIDE DEF last, given
  <2>4. value = args[last].number % width
    BY <1>2, <2>2 DEF FieldOk
  <2>. QED BY <1>1, <1>2, <2>2, <2>3, <2>4
<1>. QED BY <1>3, <1>4

\* A server that serves has the number of workers and threads and the port that
\* were asked for by the options getopt_long knows, and a table that names its
\* workers, for every command line whose numbers fit their fields; a worker is
\* without TLS exactly when --h2c was given; LoadBalancer::reset divides by zero
\* only for a number of threads that is 0 in the field's width.
THEOREM ServerIsAsAsked == Spec => []StartsAsAsked
<1>1. IInv => StartsAsAsked
  <2>. SUFFICES ASSUME IInv PROVE StartsAsAsked
    OBVIOUS
  <2>. DEFINE T == Asked({"thread"}, 1)
              P == Asked({"port"}, DefaultPort)
              n == config.num_threads
  <2>1. OptionsInv /\ SockInv /\ TableInv /\ WorkersInv
    BY DEF IInv
  <2>2. n \in Nat /\ config.port \in Nat /\ program \in Programs
    BY <2>1 DEF OptionsInv
  <2>3. {PortValues, ThreadValues, TableSize} \subseteq Nat \ {0}
    BY StartupAssumption
  <2>4. pc # "options" => (n = 1 /\ T = 1) \/ (n = T % ThreadValues /\ T \in Int)
    BY <2>1, <2>2, AskedIs DEF OptionsInv, Seen
  <2>5. pc # "options" => \/ config.port = DefaultPort /\ P = DefaultPort
                          \/ config.port = P % PortValues /\ P \in Int
    BY <2>1, <2>2, AskedIs DEF OptionsInv, Seen
  <2>. HIDE DEF T, P, n
  <2>6. pc = "crashed" => T % ThreadValues = 0
    BY <2>1, <2>4 DEF TableInv, n
  <2>7. ASSUME pc = "serving", T \in 1 .. ThreadValues - 1
        PROVE  Len(workers) = T /\ threads = T
    <3>1. n = T
      <4>1. T \in Int /\ 0 <= T /\ T < ThreadValues /\ ThreadValues \in Nat \ {0}
        BY <2>3, <2>7
      <4>2. T % ThreadValues = T
        BY <4>1, Remainder
      <4>. QED BY <2>4, <2>7, <4>2
    <3>. QED BY <2>1, <2>7, <3>1 DEF WorkersInv, n
  <2>8. ASSUME pc = "serving", P \in 1 .. PortValues - 1, server_sock # 0
        PROVE  listening = P
    <3>1. config.port = P
      <4>1. P \in Int /\ 0 <= P /\ P < PortValues /\ PortValues \in Nat \ {0}
        BY <2>3, <2>8
      <4>2. P % PortValues = P
        BY <4>1, Remainder
      <4>. QED BY <2>5, <2>8, <4>2
    <3>. QED BY <2>1, <2>8, <3>1 DEF SockInv
  <2>9. ASSUME pc = "serving"
        PROVE  /\ n \in Nat \ {0} /\ DOMAIN workers = 1 .. n
               /\ DOMAIN indirect_table = 0 .. TableSize - 1
               /\ \A i \in 0 .. TableSize - 1 : indirect_table[i] = i % n
    <3>1. workers \in Seq(Unmoved) /\ Len(workers) = n
      BY <2>1, <2>9 DEF WorkersInv, n
    <3>2. n > 0 /\ indirect_table = [i \in 0 .. TableSize - 1 |-> i % n]
      BY <2>1, <2>9 DEF TableInv, n
    <3>. QED BY <2>2, <3>1, <3>2
  <2>10. ASSUME pc = "serving", NEW i \in DOMAIN indirect_table
         PROVE  indirect_table[i] + 1 \in DOMAIN workers
    <3>1. i \in Int /\ i \in 0 .. TableSize - 1
      BY <2>3, <2>9, <2>10
    <3>2. i % n \in 0 .. n - 1
      BY <2>9, <2>10, <3>1, Remainder
    <3>. QED BY <2>9, <2>10, <3>1, <3>2
  <2>11. ASSUME pc = "serving", NEW i \in DOMAIN workers
         PROVE  \E j \in DOMAIN indirect_table : indirect_table[j] + 1 = i \/ i > TableSize
    <3>1. i \in 1 .. n /\ n \in Nat \ {0} /\ TableSize \in Nat \ {0}
      BY <2>3, <2>9, <2>11
    <3>2. CASE i > TableSize
      <4>1. 0 \in DOMAIN indirect_table
        BY <2>9, <2>11, <3>1
      <4>. QED BY <3>2, <4>1
    <3>3. CASE i <= TableSize
      <4>1. i - 1 \in Int /\ 0 <= i - 1 /\ i - 1 < n /\ i - 1 \in 0 .. TableSize - 1
        BY <3>1, <3>3
      <4>2. (i - 1) % n = i - 1
        BY <3>1, <4>1, Remainder
      <4>3. indirect_table[i - 1] + 1 = i /\ i - 1 \in DOMAIN indirect_table
        <5>1. i - 1 \in DOMAIN indirect_table /\ indirect_table[i - 1] = (i - 1) % n
          BY <2>9, <2>11, <4>1
        <5>. QED BY <3>1, <4>2, <5>1
      <4>. QED BY <4>3
    <3>. QED BY <3>1, <3>2, <3>3
  <2>12. ASSUME NEW i \in DOMAIN ssl_ctx
         PROVE  /\ ssl_ctx[i] = "none" => IsGiven({"h2c"})
                /\ ssl_ctx[i] \in {"null", "ctx"} => ~IsGiven({"h2c"})
    <3>1. SslInv
      BY DEF IInv
    <3>2. i \in 1 .. Len(ssl_ctx) /\ ssl_ctx # <<>>
      BY <2>12, <3>1 DEF SslInv
    <3>3. pc # "options"
      BY <3>1, <3>2 DEF SslInv
    <3>4. TlsOk(program.args, Len(program.args), config.use_tls)
      BY <2>1, <3>3 DEF OptionsInv, Seen
    <3>5. IsGiven({"h2c"}) <=> Given(program.args, Len(program.args), "h2c") # {}
      <4>1. DOMAIN program.args = 1 .. Len(program.args)
        BY <2>2, Arguments
      <4>. QED BY <4>1 DEF IsGiven, Given
    <3>6. ContextOk(ssl_ctx[i], config.use_tls)
      BY <3>1, <3>2 DEF SslInv
    <3>. QED BY <3>4, <3>5, <3>6 DEF ContextOk, TlsOk
  <2>. QED BY <2>6, <2>7, <2>8, <2>10, <2>11, <2>12 DEF StartsAsAsked, T, P
<1>. QED BY <1>1, Invariance, PTL

\* Router::resolve finds the best of the accepted routes, "exact > parameter"
\* from left to right, for any routes registered in any order and any uri: the
\* nodes that a refused add leaves behind, and those without a handler for the
\* method, hide nothing.
THEOREM ResolveFindsBestMatch == Spec => []ResolveIsBestMatch
<1>1. IInv => ResolveIsBestMatch
  <2>. SUFFICES ASSUME IInv, NEW m \in Methods, NEW uri \in Uris
                PROVE  resolve(tree, m, uri) = BestMatch(accepted, m, uri)
    BY DEF ResolveIsBestMatch
  <2>1. IsTree(tree, Segments) /\ Registered(tree, accepted) /\ Param \in Segments
    BY DEF IInv, RouterInv, Segments
  <2>2. uri \in Seq(Segments \ {Param})
    BY RoutesAssumption, UriText
  <2>. QED BY <2>1, <2>2, ResolveIsBest
<1>. QED BY <1>1, Invariance, PTL
=============================================================================
