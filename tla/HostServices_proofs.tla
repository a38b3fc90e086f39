------------------------ MODULE HostServices_proofs -------------------------
(***************************************************************************)
(* That every variable has its type, that the host runs one capture and    *)
(* one sweep at a time, no more shells than there are places and one       *)
(* nightly update a day but for restarts in its hour, and that the figures *)
(* on the dashboard are true, as far as HostServices says, whatever the    *)
(* constants: for each of these components an invariant that its steps     *)
(* keep.  The names below are those of its variables (HostServices gives   *)
(* them by number).                                                        *)
(***************************************************************************)
EXTENDS WhatIsKept_proofs, WellFoundedInduction

-----------------------------------------------------------------------------
(* Sums over finite sets: what the sums of the community modules are.      *)
(* Some natural numbers have a least one.                                  *)
LEMMA HasLeast ==
  ASSUME NEW set \in SUBSET Nat, set # {}
  PROVE  \E x \in set : \A y \in set : x <= y
<1> DEFINE less == OpToRel(<, Nat)
<1>1. \A x, y \in Nat : <<y, x>> \in less <=> y < x
  BY DEF OpToRel
<1>2. IsWellFoundedOn(less, Nat)
  BY NatLessThanWellFounded
<1> HIDE DEF less
<1>3. PICK x \in set : \A y \in set : ~(<<y, x>> \in less)
  BY <1>2, WFMin
<1>4. \A y \in set : y \in Nat /\ ~(y < x)
  BY <1>1, <1>3
<1> QED  BY <1>4

\* Some element of a set, the one that a sum takes first.
First(set) == CHOOSE x \in set : TRUE

(* What is true of a set when it is true of its proper subsets is true of  *)
(* every subset of a finite set.                                           *)
LEMMA AllSubsets ==
  ASSUME NEW dom, IsFiniteSet(dom), NEW good \in SUBSET SUBSET dom,
         \A set \in SUBSET dom :
           (\A some \in SUBSET set : some # set => some \in good) => set \in good
  PROVE  \A set \in SUBSET dom : set \in good
<1> SUFFICES ASSUME NEW bad \in SUBSET dom, bad \notin good PROVE FALSE
  OBVIOUS
<1> DEFINE sizes == {n \in Nat : \E set \in SUBSET dom : set \notin good /\ Cardinality(set) = n}
<1>1. \A set \in SUBSET dom : IsFiniteSet(set) /\ Cardinality(set) \in Nat
  BY FS_Subset, FS_CardinalityType
<1>2. Cardinality(bad) \in sizes
  BY <1>1
<1>3. PICK n \in sizes : \A m \in sizes : n <= m
  BY <1>2, HasLeast
<1>4. PICK set \in SUBSET dom : set \notin good /\ Cardinality(set) = n
  BY <1>3
<1>5. ASSUME NEW some \in SUBSET set, some # set
      PROVE  some \in good
  <2>1. some \in SUBSET dom /\ IsFiniteSet(set)
    BY <1>1, <1>4
  <2>2. Cardinality(some) <= n /\ Cardinality(some) # n
    BY <1>4, <1>5, <2>1, FS_Subset
  <2>3. Cardinality(some) \in Nat /\ n \in Nat
    BY <1>1, <2>1
  <2>4. some \notin good => Cardinality(some) \in sizes
    BY <2>1, <2>3
  <2> HIDE DEF sizes
  <2> QED  BY <1>3, <2>2, <2>3, <2>4
<1> QED  BY <1>4, <1>5

(* ... and so is what is true of the empty set, and of a set when it is    *)
(* true without its first element.                                         *)
LEMMA OneByOne ==
  ASSUME NEW dom, IsFiniteSet(dom), NEW good \in SUBSET SUBSET dom, {} \in good,
         \A set \in SUBSET dom : set # {} /\ set \ {First(set)} \in good => set \in good
  PROVE  \A set \in SUBSET dom : set \in good
<1>1. ASSUME NEW set \in SUBSET dom, \A some \in SUBSET set : some # set => some \in good
      PROVE  set \in good
  <2>1. CASE set = {}
    BY <2>1
  <2>2. CASE set # {}
    <3>1. First(set) \in set
      BY <2>2 DEF First
    <3>2. set \ {First(set)} \in SUBSET set /\ set \ {First(set)} # set
      BY <3>1
    <3> QED  BY <1>1, <2>2, <3>2
  <2> QED  BY <2>1, <2>2
<1> QED  BY <1>1, AllSubsets

\* The sums of the values of f over the subsets of dom.
Sums(f, dom, sum) ==
  sum = [set \in SUBSET dom |->
           IF set = {} THEN 0 ELSE f[First(set)] + sum[set \ {First(set)}]]

(* A sum is of the values alone.                                           *)
LEMMA SumsAgree ==
  ASSUME NEW f, NEW g, NEW fDom, NEW gDom, NEW fSum, NEW gSum,
         Sums(f, fDom, fSum), Sums(g, gDom, gSum),
         NEW dom, dom \subseteq fDom, dom \subseteq gDom, IsFiniteSet(dom),
         \A x \in dom : f[x] = g[x]
  PROVE  \A set \in SUBSET dom : fSum[set] = gSum[set]
<1> DEFINE good == {set \in SUBSET dom : fSum[set] = gSum[set]}
<1>1. {} \in good
  BY DEF Sums
<1>2. ASSUME NEW set \in SUBSET dom, set # {}, set \ {First(set)} \in good
      PROVE  set \in good
  <2>1. First(set) \in dom
    BY <1>2 DEF First
  <2>2. /\ fSum[set] = f[First(set)] + fSum[set \ {First(set)}]
        /\ gSum[set] = g[First(set)] + gSum[set \ {First(set)}]
    BY <1>2 DEF Sums
  <2> QED  BY <1>2, <2>1, <2>2
<1> HIDE DEF good
<1>3. good \in SUBSET SUBSET dom
  BY DEF good
<1>4. \A set \in SUBSET dom : set \in good
  BY <1>1, <1>2, <1>3, OneByOne
<1> QED  BY <1>4 DEF good

(* There are such sums.                                                    *)
LEMMA SumsExist ==
  ASSUME NEW f, NEW dom, IsFiniteSet(dom)
  PROVE  \E sum : Sums(f, dom, sum)
<1> DEFINE good == {set \in SUBSET dom : \E sum : Sums(f, set, sum)}
<1>1. ASSUME NEW set \in SUBSET dom, \A some \in SUBSET set : some # set => some \in good
      PROVE  set \in good
  <2> DEFINE of(some) == CHOOSE sum : Sums(f, some, sum)
             rest(some) == some \ {First(some)}
             sum == [some \in SUBSET set |->
                       IF some = {} THEN 0 ELSE f[First(some)] + of(rest(some))[rest(some)]]
  <2>1. \A some \in SUBSET set : some # {} => First(some) \in some
    BY DEF First
  <2>2. \A some \in SUBSET set : some # set => Sums(f, some, of(some))
    BY <1>1
  <2>3. ASSUME NEW some \in SUBSET set, some # {}
        PROVE  sum[rest(some)] = of(rest(some))[rest(some)]
    <3>1. rest(some) \in SUBSET set /\ rest(some) # set
      BY <2>1, <2>3
    <3>2. Sums(f, rest(some), of(rest(some)))
      BY <2>2, <3>1
    <3> DEFINE r == rest(some)
    <3> HIDE DEF rest, of
    <3>3. CASE r = {}
      <4>1. sum[r] = 0
        BY <3>1, <3>3
      <4>2. of(r)[r] = 0
        BY <3>2, <3>3 DEF Sums
      <4> QED  BY <4>1, <4>2
    <3>4. CASE r # {}
      <4>1. rest(r) \in SUBSET r /\ rest(r) # r /\ rest(r) \in SUBSET set /\ rest(r) # set
        BY <2>1, <3>1, <3>4 DEF rest
      <4>2. Sums(f, rest(r), of(rest(r)))
        BY <2>2, <4>1
      <4>3. sum[r] = f[First(r)] + of(rest(r))[rest(r)]
        BY <3>1, <3>4
      <4>4. of(r)[r] = f[First(r)] + of(r)[rest(r)]
        BY <3>2, <3>4 DEF Sums, rest
      <4>5. IsFiniteSet(rest(r)) /\ rest(r) \subseteq rest(r)
        BY <4>1, FS_Subset
      <4>6. of(r)[rest(r)] = of(rest(r))[rest(r)]
        BY <3>2, <4>1, <4>2, <4>5, SumsAgree
      <4> QED  BY <4>3, <4>4, <4>6
    <3> QED  BY <3>3, <3>4
  <2> HIDE DEF of
  <2>4. Sums(f, set, sum)
    <3>1. ASSUME NEW some \in SUBSET set
          PROVE  sum[some] = IF some = {} THEN 0 ELSE f[First(some)] + sum[rest(some)]
      <4>1. CASE some = {}
        BY <4>1
      <4>2. CASE some # {}
        <5>1. sum[some] = f[First(some)] + of(rest(some))[rest(some)]
          BY <4>2
        <5> HIDE DEF sum
        <5> QED  BY <2>3, <4>2, <5>1
      <4> QED  BY <4>1, <4>2
    <3>2. sum = [some \in SUBSET set |-> sum[some]]
      OBVIOUS
    <3> HIDE DEF sum
    <3>3. sum = [some \in SUBSET set |->
                   IF some = {} THEN 0 ELSE f[First(some)] + sum[rest(some)]]
      BY <3>1, <3>2
    <3> QED  BY <3>3 DEF Sums
  <2> QED  BY <2>4
<1> HIDE DEF good
<1>2. good \in SUBSET SUBSET dom
  BY DEF good
<1>3. dom \in good
  BY <1>1, <1>2, AllSubsets
<1> QED  BY <1>3 DEF good

\* The sum of the values that f has on a set.
SumOn(f, set) == (CHOOSE sum : Sums(f, set, sum))[set]

(* The sum on a set is the value of its first element and the sum on the   *)
(* others.                                                                 *)
LEMMA SumFirst ==
  ASSUME NEW f, NEW set, IsFiniteSet(set)
  PROVE  /\ set = {} => SumOn(f, set) = 0
         /\ set # {} => SumOn(f, set) = f[First(set)] + SumOn(f, set \ {First(set)})
<1> DEFINE of(some) == CHOOSE sum : Sums(f, some, sum)
           rest == set \ {First(set)}
<1>1. IsFiniteSet(rest)
  BY FS_Subset
<1>2. Sums(f, set, of(set)) /\ Sums(f, rest, of(rest))
  BY <1>1, SumsExist
<1>3. SumOn(f, set) = of(set)[set] /\ SumOn(f, rest) = of(rest)[rest]
  BY DEF SumOn
<1> HIDE DEF of
<1>4. of(set)[rest] = of(rest)[rest]
  BY <1>1, <1>2, SumsAgree
<1>5. /\ set = {} => of(set)[set] = 0
      /\ set # {} => of(set)[set] = f[First(set)] + of(set)[rest]
  BY <1>2 DEF Sums
<1> QED  BY <1>3, <1>4, <1>5

(* Equal values have equal sums.                                           *)
LEMMA SumSame ==
  ASSUME NEW f, NEW g, NEW set, IsFiniteSet(set), \A x \in set : f[x] = g[x]
  PROVE  SumOn(f, set) = SumOn(g, set)
<1> DEFINE of(h) == CHOOSE sum : Sums(h, set, sum)
<1>1. Sums(f, set, of(f)) /\ Sums(g, set, of(g))
  BY SumsExist
<1> HIDE DEF of
<1>2. of(f)[set] = of(g)[set]
  BY <1>1, SumsAgree
<1> QED  BY <1>2 DEF SumOn, of

(* A sum of integers is one, and of naturals too.                          *)
LEMMA SumType ==
  ASSUME NEW f, NEW dom, IsFiniteSet(dom), \A x \in dom : f[x] \in Int
  PROVE  /\ SumOn(f, dom) \in Int
         /\ (\A x \in dom : f[x] \in Nat) => SumOn(f, dom) \in Nat
<1> DEFINE good == {set \in SUBSET dom :
                      /\ SumOn(f, set) \in Int
                      /\ (\A x \in set : f[x] \in Nat) => SumOn(f, set) \in Nat}
<1>1. {} \in good
  <2>1. \A k : SumOn(k, {}) = 0
    BY SumFirst, FS_EmptySet
  <2> QED  BY <2>1
<1>2. ASSUME NEW set \in SUBSET dom, set # {}, set \ {First(set)} \in good
      PROVE  set \in good
  <2> DEFINE rest == set \ {First(set)}
  <2>1. First(set) \in set /\ First(set) \in dom
    BY <1>2 DEF First
  <2>2. SumOn(f, set) = f[First(set)] + SumOn(f, rest)
    BY <1>2, SumFirst, FS_Subset
  <2>3. /\ SumOn(f, rest) \in Int /\ f[First(set)] \in Int
        /\ (\A x \in rest : f[x] \in Nat) => SumOn(f, rest) \in Nat
    BY <1>2, <2>1
  <2>4. (\A x \in set : f[x] \in Nat) => SumOn(f, set) \in Nat
    <3> SUFFICES ASSUME \A x \in set : f[x] \in Nat PROVE SumOn(f, set) \in Nat
      OBVIOUS
    <3>1. f[First(set)] \in Nat /\ SumOn(f, rest) \in Nat
      BY <2>1, <2>3
    <3> QED  BY <2>2, <3>1
  <2>5. SumOn(f, set) \in Int
    BY <2>2, <2>3
  <2> QED  BY <2>4, <2>5
<1> HIDE DEF good
<1>3. good \in SUBSET SUBSET dom
  BY DEF good
<1>4. dom \in good
  BY <1>1, <1>2, <1>3, OneByOne
<1> QED  BY <1>4 DEF good

(* Any element may be the one that is added last.                          *)
LEMMA SumWithout ==
  ASSUME NEW f, NEW dom, IsFiniteSet(dom), \A x \in dom : f[x] \in Int, NEW any \in dom
  PROVE  SumOn(f, dom) = f[any] + SumOn(f, dom \ {any})
<1> DEFINE good == {set \in SUBSET dom :
                      \A x \in set : SumOn(f, set) = f[x] + SumOn(f, set \ {x})}
<1>1. ASSUME NEW set \in SUBSET dom, \A some \in SUBSET set : some # set => some \in good,
             NEW x \in set
      PROVE  SumOn(f, set) = f[x] + SumOn(f, set \ {x})
  <2> DEFINE a == First(set)
             both == set \ {a, x}
  <2>1. a \in set
    BY <1>1 DEF First
  <2>2. IsFiniteSet(set) /\ IsFiniteSet(both) /\ both \subseteq dom
    BY FS_Subset
  <2>3. SumOn(f, set) = f[a] + SumOn(f, set \ {a})
    BY <2>1, <2>2, SumFirst
  <2>4. CASE a = x
    BY <2>3, <2>4
  <2>5. CASE a # x
    <3> HIDE DEF a
    <3>1. set \ {a} \in good /\ set \ {x} \in good
      BY <1>1, <2>1
    <3>2. /\ SumOn(f, set \ {a}) = f[x] + SumOn(f, (set \ {a}) \ {x})
          /\ SumOn(f, set \ {x}) = f[a] + SumOn(f, (set \ {x}) \ {a})
      BY <2>1, <2>5, <3>1
    <3>3. (set \ {a}) \ {x} = both /\ (set \ {x}) \ {a} = both
      OBVIOUS
    <3>4. f[a] \in Int /\ f[x] \in Int /\ SumOn(f, both) \in Int
      <4>1. \A y \in both : f[y] \in Int
        BY <2>2
      <4> QED  BY <2>1, <2>2, <4>1, SumType
    <3> DEFINE u == SumOn(f, both)
    <3>5. SumOn(f, set \ {a}) = f[x] + u /\ SumOn(f, set \ {x}) = f[a] + u /\ u \in Int
      BY <3>2, <3>3, <3>4
    <3> HIDE DEF u
    <3>6. SumOn(f, set) = f[a] + (f[x] + u)
      BY <2>3, <3>5
    <3>7. f[a] + (f[x] + u) = f[x] + (f[a] + u)
      BY <3>4, <3>5
    <3> QED  BY <3>5, <3>6, <3>7
  <2> QED  BY <2>4, <2>5
<1>2. \A set \in SUBSET dom :
        (\A some \in SUBSET set : some # set => some \in good) => set \in good
  BY <1>1
<1> HIDE DEF good
<1>3. good \in SUBSET SUBSET dom
  BY DEF good
<1>4. dom \in good
  BY <1>2, <1>3, AllSubsets
<1> QED  BY <1>4 DEF good

(* Sums are added value by value.                                          *)
LEMMA SumPlus ==
  ASSUME NEW f, NEW g, NEW h, NEW dom, IsFiniteSet(dom),
         \A x \in dom : f[x] \in Int /\ g[x] \in Int /\ h[x] = f[x] + g[x]
  PROVE  SumOn(h, dom) = SumOn(f, dom) + SumOn(g, dom)
<1> DEFINE good == {set \in SUBSET dom : SumOn(h, set) = SumOn(f, set) + SumOn(g, set)}
<1>1. {} \in good
  <2>1. \A k : SumOn(k, {}) = 0
    BY SumFirst, FS_EmptySet
  <2> QED  BY <2>1
<1>2. ASSUME NEW set \in SUBSET dom, set # {}, set \ {First(set)} \in good
      PROVE  set \in good
  <2> DEFINE a == First(set)
             rest == set \ {a}
  <2>1. a \in dom
    BY <1>2 DEF First
  <2>2. IsFiniteSet(set) /\ IsFiniteSet(rest) /\ rest \subseteq dom
    BY FS_Subset
  <2>3. /\ SumOn(f, set) = f[a] + SumOn(f, rest)
        /\ SumOn(g, set) = g[a] + SumOn(g, rest)
        /\ SumOn(h, set) = h[a] + SumOn(h, rest)
    BY <1>2, <2>2, SumFirst
  <2>4. SumOn(f, rest) \in Int /\ SumOn(g, rest) \in Int
    <3>1. \A x \in rest : f[x] \in Int /\ g[x] \in Int
      BY <2>2
    <3> QED  BY <2>2, <3>1, SumType
  <2>5. SumOn(h, rest) = SumOn(f, rest) + SumOn(g, rest)
    BY <1>2
  <2>6. f[a] \in Int /\ g[a] \in Int /\ h[a] = f[a] + g[a]
    BY <2>1
  <2> HIDE DEF a, rest
  <2> QED  BY <2>3, <2>4, <2>5, <2>6
<1> HIDE DEF good
<1>3. good \in SUBSET SUBSET dom
  BY DEF good
<1>4. dom \in good
  BY <1>1, <1>2, <1>3, OneByOne
<1> QED  BY <1>4 DEF good

(* Zeros add nothing.                                                      *)
LEMMA SumPadded ==
  ASSUME NEW f, NEW dom, IsFiniteSet(dom), NEW part \in SUBSET dom, \A x \in part : f[x] \in Int
  PROVE  SumOn([x \in dom |-> IF x \in part THEN f[x] ELSE 0], dom) = SumOn(f, part)
<1> DEFINE g == [x \in dom |-> IF x \in part THEN f[x] ELSE 0]
           good == {set \in SUBSET dom : SumOn(g, set) = SumOn(f, set \cap part)}
<1>1. {} \in good
  <2>1. {} \cap part = {}
    OBVIOUS
  <2> QED  BY <2>1, SumFirst, FS_EmptySet
<1>2. ASSUME NEW set \in SUBSET dom, set # {}, set \ {First(set)} \in good
      PROVE  set \in good
  <2> DEFINE a == First(set)
             rest == set \ {a}
  <2>1. a \in set /\ a \in dom
    BY <1>2 DEF First
  <2>2. IsFiniteSet(set) /\ IsFiniteSet(set \cap part) /\ IsFiniteSet(rest \cap part)
    BY FS_Subset
  <2>3. SumOn(g, set) = g[a] + SumOn(g, rest)
    BY <1>2, <2>2, SumFirst
  <2>4. SumOn(g, rest) = SumOn(f, rest \cap part)
    BY <1>2
  <2>5. SumOn(f, rest \cap part) \in Int
    BY <2>2, SumType
  <2>6. CASE a \in part
    <3>1. SumOn(f, set \cap part) = f[a] + SumOn(f, (set \cap part) \ {a})
      BY <2>1, <2>2, <2>6, SumWithout
    <3>2. (set \cap part) \ {a} = rest \cap part /\ g[a] = f[a]
      BY <2>1, <2>6
    <3> HIDE DEF g, a, rest
    <3>3. SumOn(g, set) = SumOn(f, set \cap part)
      BY <2>3, <2>4, <3>1, <3>2
    <3> QED  BY <3>3
  <2>7. CASE a \notin part
    <3>1. rest \cap part = set \cap part /\ g[a] = 0
      BY <2>1, <2>7
    <3> HIDE DEF g, a, rest
    <3>2. SumOn(g, rest) \in Int /\ SumOn(g, set) = 0 + SumOn(g, rest)
      BY <2>3, <2>4, <2>5, <3>1
    <3>3. SumOn(g, set) = SumOn(g, rest)
      BY <3>2
    <3> QED  BY <2>4, <3>1, <3>3
  <2> QED  BY <2>6, <2>7
<1> HIDE DEF good
<1>3. good \in SUBSET SUBSET dom
  BY DEF good
<1>4. dom \in good
  BY <1>1, <1>2, <1>3, OneByOne
<1>5. dom \cap part = part
  OBVIOUS
<1> QED  BY <1>4, <1>5 DEF good

(* A part of naturals has no larger sum.                                   *)
LEMMA SumOfPart ==
  ASSUME NEW f, NEW dom, IsFiniteSet(dom), NEW part \in SUBSET dom, \A x \in dom : f[x] \in Nat
  PROVE  SumOn(f, part) \in Nat /\ SumOn(f, dom) \in Nat /\ SumOn(f, part) <= SumOn(f, dom)
<1> DEFINE g == [x \in dom |-> IF x \in part THEN f[x] ELSE 0]
           h == [x \in dom |-> IF x \in dom \ part THEN f[x] ELSE 0]
<1>1. IsFiniteSet(part) /\ IsFiniteSet(dom \ part)
  BY FS_Subset
<1>2. SumOn(g, dom) = SumOn(f, part) /\ SumOn(h, dom) = SumOn(f, dom \ part)
  BY SumPadded
<1>3. \A x \in dom : g[x] \in Int /\ h[x] \in Int /\ f[x] = g[x] + h[x]
  OBVIOUS
<1> HIDE DEF g, h
<1>4. SumOn(f, dom) = SumOn(g, dom) + SumOn(h, dom)
  BY <1>3, SumPlus
<1>5. SumOn(f, part) \in Nat /\ SumOn(f, dom \ part) \in Nat /\ SumOn(f, dom) \in Nat
  <2>1. /\ \A x \in part : f[x] \in Int /\ f[x] \in Nat
        /\ \A x \in dom \ part : f[x] \in Int /\ f[x] \in Nat
        /\ \A x \in dom : f[x] \in Int /\ f[x] \in Nat
    OBVIOUS
  <2> QED  BY <1>1, <2>1, SumType
<1> QED  BY <1>2, <1>4, <1>5

-----------------------------------------------------------------------------
(* The terminals (terminal.py).                                            *)
termActive == v1
termLock == v2
termStuck == v3
termAt == v4
termShell == v5
termPid == v6
termHelper == v7
termReading == v8
termViewer == v9
termMissed == v10
termRestarts == v11
USE DEF termActive, termLock, termStuck, termAt, termShell, termPid, termHelper,
        termReading, termViewer, termMissed, termRestarts

(* The component counts as this module does.                               *)
LEMMA TerminalFinite == \A set : T!IsFiniteSet(set) = IsFiniteSet(set)
  BY DEF IsFiniteSet, T!IsFiniteSet

(* ... and its sets have as many elements.                                 *)
LEMMA TerminalCount == \A set : T!Cardinality(set) = Cardinality(set)
  BY TerminalFinite DEF Cardinality, T!Cardinality

(* The sessions that have a place can be counted.                          *)
LEMMA TerminalPlacedIsFinite == IsFiniteSet(T!Placed) /\ Cardinality(T!Placed) \in Nat
<1>1. IsFiniteSet(T!Placed)
  BY TerminalAssumption, TerminalFinite, FS_Subset DEF T!Placed, T!TerminalSane
<1> QED  BY <1>1, FS_CardinalityType

(* A place is taken on arrival and given back in the finally of serve.     *)
LEMMA TerminalPlaceTaken ==
  ASSUME T!Inductive, NEW s \in Sessions, s \notin T!Placed, T!Placed' = T!Placed \cup {s},
         termActive' = termActive + 1
  PROVE  T!PlacesCounted'
  BY TerminalPlacedIsFinite, FS_AddElement, TerminalCount DEF T!Inductive, T!PlacesCounted

(* ... and the counter is right again after the finally.                   *)
LEMMA TerminalPlaceGivenBack ==
  ASSUME T!Inductive, NEW s \in Sessions, s \in T!Placed, T!Placed' = T!Placed \ {s},
         termActive' = termActive - 1
  PROVE  T!PlacesCounted' /\ termActive' >= 0
<1>1. Cardinality(T!Placed) # 0
  BY TerminalPlacedIsFinite, FS_EmptySet
<1> QED  BY <1>1, TerminalPlacedIsFinite, FS_RemoveElement, TerminalCount DEF T!Inductive,
                  T!PlacesCounted

(* A step that moves no session into or out of a place.                    *)
LEMMA TerminalPlaceKept ==
  ASSUME T!Inductive, T!Placed' = T!Placed, termActive' = termActive
  PROVE  T!PlacesCounted'
  BY DEF T!Inductive, T!PlacesCounted

(* Where a session goes, it is, and the others stay where they are.        *)
LEMMA TerminalGoneTo ==
  ASSUME T!TypeOK, NEW s \in Sessions,
         NEW pc \in T!Stages, T!Goto(s, pc)
  PROVE  /\ termAt' \in [Sessions -> T!Stages]
         /\ pc \in {"opening", "open", "release"} => T!Placed' = T!Placed \cup {s}
         /\ pc \notin {"opening", "open", "release"} => T!Placed' = T!Placed \ {s}
<1>1. /\ termAt' \in [Sessions -> T!Stages]
      /\ \A x \in Sessions : termAt'[x] = IF x = s THEN pc ELSE termAt[x]
  BY DEF T!TypeOK, T!Goto
<1> QED  BY <1>1 DEF T!Placed

(* A viewer arrives, and is refused if no place is left.                   *)
LEMMA TerminalArriveKeeps ==
  ASSUME T!Inductive, NEW s \in Sessions, T!Arrive(s)
  PROVE  T!Inductive'
<1> USE TerminalAssumption DEF T!TerminalSane, T!Inductive
<1>1. CASE T!Blocks
  BY <1>1 DEF T!Arrive, T!Blocks, T!shellVars, T!TypeOK, T!PlacesCounted, T!Placed
<1>2. CASE ~T!Locked(s)
  <2>1. /\ termViewer' = [termViewer EXCEPT ![s] = "here"] /\ termAt[s] = "none"
        /\ s \notin T!Placed
        /\ UNCHANGED <<termStuck, termShell, termPid, termReading, termMissed, termHelper,
             termRestarts>>
    BY <1>2 DEF T!Arrive, T!shellVars, T!Placed
  <2>2. CASE ~T!Full /\ termActive' = termActive + 1 /\ T!Goto(s, "opening") /\ UNCHANGED termLock
    <3>1. T!PlacesCounted' /\ termAt' \in [Sessions -> T!Stages]
      BY <2>1, <2>2, TerminalGoneTo, TerminalPlaceTaken DEF T!Stages
    <3>2. termActive' \in 0..MaxSessions
      BY <2>2 DEF T!Full, T!TypeOK
    <3> QED  BY <2>1, <2>2, <3>1, <3>2 DEF T!TypeOK
  <2>3. CASE T!Goto(s, "gone") /\ UNCHANGED <<termActive, termLock>>
    <3>1. T!PlacesCounted' /\ termAt' \in [Sessions -> T!Stages]
      BY <2>1, <2>3, TerminalGoneTo, TerminalPlaceKept DEF T!Stages
    <3> QED  BY <2>1, <2>3, <3>1 DEF T!TypeOK
  <2>4. CASE termLock' = s /\ T!Goto(s, "refusing") /\ UNCHANGED termActive
    <3>1. T!PlacesCounted' /\ termAt' \in [Sessions -> T!Stages]
      BY <2>1, <2>4, TerminalGoneTo, TerminalPlaceKept DEF T!Stages
    <3> QED  BY <2>1, <2>4, <3>1 DEF T!TypeOK
  <2> QED  BY <1>2, <2>2, <2>3, <2>4 DEF T!Arrive
<1> QED  BY <1>1, <1>2 DEF T!Arrive

(* The end of serve, which gives the place back.                           *)
LEMMA TerminalReleaseKeeps ==
  ASSUME T!Inductive, NEW s \in Sessions, T!FreePlace(s)
  PROVE  T!Inductive'
<1> USE TerminalAssumption DEF T!TerminalSane, T!Inductive
<1>1. CASE T!Blocks
  BY <1>1 DEF T!FreePlace, T!Blocks, T!shellVars, T!TypeOK, T!PlacesCounted, T!Placed
<1>2. CASE ~T!Locked(s)
  <2>1. /\ termAt[s] = "release" /\ s \in T!Placed /\ termActive' = termActive - 1
        /\ T!Goto(s, "gone") \/ T!Goto(s, "hangup")
        /\ UNCHANGED <<termLock, termStuck, termShell, termPid, termReading, termMissed,
             termHelper, termViewer, termRestarts>>
    BY <1>2 DEF T!FreePlace, T!Freed, T!shellVars, T!Placed
  <2>2. /\ T!PlacesCounted' /\ termActive' >= 0
        /\ termAt' \in [Sessions -> T!Stages]
    BY <2>1, TerminalGoneTo, TerminalPlaceGivenBack DEF T!Stages
  <2>3. termActive' \in 0..MaxSessions
    BY <2>1, <2>2 DEF T!TypeOK
  <2> QED  BY <2>1, <2>2, <2>3 DEF T!TypeOK
<1> QED  BY <1>1, <1>2 DEF T!FreePlace

(* The other steps of a session, its shell and its tab leave the places.   *)
LEMMA TerminalSessionKeeps ==
  ASSUME T!Inductive, NEW s \in Sessions,
         \/ T!ReadPid(s) \/ T!Exit(s) \/ T!Leave(s) \/ T!Refused(s) \/ T!StartHelper(s)
         \/ T!Open(s) \/ T!OpenFails(s) \/ T!PumpEnds(s) \/ T!HangUp(s) \/ T!Shutdown(s)
  PROVE  T!Inductive'
<1> USE DEF T!Inductive, T!shellVars
<1>1. CASE T!ReadPid(s) \/ T!Exit(s) \/ T!Leave(s) \/ T!StartHelper(s)
  <2>1. T!PlacesCounted'
    BY <1>1 DEF T!ReadPid, T!Exit, T!Leave, T!StartHelper, T!PlacesCounted, T!Placed
  <2> QED  BY <1>1, <2>1 DEF T!ReadPid, T!Exit, T!Leave, T!StartHelper, T!TypeOK
<1>2. CASE T!Refused(s)
  <2>1. T!PlacesCounted' /\ termAt' \in [Sessions -> T!Stages]
    BY <1>2, TerminalGoneTo, TerminalPlaceKept DEF T!Stages, T!Refused, T!Placed
  <2> QED  BY <1>2, <2>1 DEF T!Refused, T!TypeOK
<1>3. CASE T!Open(s)
  <2>1. T!PlacesCounted' /\ termAt' \in [Sessions -> T!Stages]
    BY <1>3, TerminalGoneTo, TerminalPlaceKept DEF T!Stages, T!Open, T!Placed
  <2> QED  BY <1>3, <2>1 DEF T!Open, T!TypeOK
<1>4. CASE T!OpenFails(s)
  <2>1. T!PlacesCounted' /\ termAt' \in [Sessions -> T!Stages]
    BY <1>4, TerminalGoneTo, TerminalPlaceKept DEF T!Stages, T!OpenFails, T!Placed
  <2> QED  BY <1>4, <2>1 DEF T!OpenFails, T!RemoveHelper, T!After, T!TypeOK
<1>5. CASE T!PumpEnds(s)
  <2>1. T!PlacesCounted' /\ termAt' \in [Sessions -> T!Stages]
    BY <1>5, TerminalGoneTo, TerminalPlaceKept DEF T!Stages, T!PumpEnds, T!Placed
  <2> QED  BY <1>5, <2>1 DEF T!PumpEnds, T!TypeOK
<1>6. CASE T!HangUp(s)
  <2>1. T!PlacesCounted' /\ termAt' \in [Sessions -> T!Stages]
    BY <1>6, TerminalGoneTo, TerminalPlaceKept DEF T!Stages, T!HangUp, T!Placed
  <2> QED  BY <1>6, <2>1 DEF T!HangUp, T!TypeOK
<1>7. CASE T!Shutdown(s)
  <2>1. T!PlacesCounted' /\ termAt' \in [Sessions -> T!Stages]
    BY <1>7, TerminalGoneTo, TerminalPlaceKept DEF T!Stages, T!Shutdown, T!Placed
  <2> QED  BY <1>7, <2>1 DEF T!Shutdown, T!RemoveHelper, T!After, T!Awake, T!TypeOK
<1> QED  BY <1>1, <1>2, <1>3, <1>4, <1>5, <1>6, <1>7

(* The agent restarts, and its counter with it.                            *)
LEMMA TerminalRestartKeeps ==
  ASSUME T!Inductive, T!AgentRestart
  PROVE  T!Inductive'
<1>1. T!Placed' = {} /\ termActive' = 0
  BY DEF T!AgentRestart, T!Placed
<1>2. T!PlacesCounted'
  BY <1>1, FS_EmptySet, TerminalCount DEF T!PlacesCounted
<1>3. T!TypeOK'
  <2> USE TerminalAssumption DEF T!Inductive, T!TypeOK, T!AgentRestart, T!TerminalSane
  <2>1. termAt' \in [Sessions -> T!Stages]
    BY DEF T!Stages
  <2>2. termReading' \in [Sessions -> BOOLEAN] /\ termMissed' \in [Sessions -> BOOLEAN]
    OBVIOUS
  <2>3. termHelper' \in [Sessions -> {"none", "there", "removed", "left"}]
    OBVIOUS
  <2>4. termActive' \in 0..MaxSessions /\ termRestarts' \in 0..MaxRestarts
    OBVIOUS
  <2> QED  BY <2>1, <2>2, <2>3, <2>4
<1> QED  BY <1>2, <1>3 DEF T!Inductive

(* At the start no session has a place.                                    *)
LEMMA TerminalInit == T!Init => T!Inductive
<1> SUFFICES ASSUME T!Init PROVE T!Inductive
  OBVIOUS
<1>1. T!Placed = {} /\ termActive = 0
  BY DEF T!Init, T!Placed
<1>2. T!PlacesCounted
  BY <1>1, FS_EmptySet, TerminalCount DEF T!PlacesCounted
<1>3. T!TypeOK
  <2> USE TerminalAssumption DEF T!TerminalSane, T!Init, T!TypeOK
  <2>1. termAt \in [Sessions -> T!Stages]
    BY DEF T!Stages
  <2>2. termActive \in 0..MaxSessions /\ termRestarts \in 0..MaxRestarts
        /\ termLock \in Sessions \cup {T!None}
    OBVIOUS
  <2>3. /\ termShell \in [Sessions -> {"none", "running", "ended"}]
        /\ termHelper \in [Sessions -> {"none", "there", "removed", "left"}]
        /\ termViewer \in [Sessions -> {"none", "here", "gone"}]
    OBVIOUS
  <2>4. /\ termPid \in [Sessions -> BOOLEAN] /\ termReading \in [Sessions -> BOOLEAN]
        /\ termMissed \in [Sessions -> BOOLEAN] /\ termStuck \in BOOLEAN
    OBVIOUS
  <2> QED  BY <2>1, <2>2, <2>3, <2>4
<1> QED  BY <1>2, <1>3 DEF T!Inductive

(* No step breaks it.                                                      *)
LEMMA TerminalStep == T!Inductive /\ [T!Next]_T!terminalVars => T!Inductive'
<1> SUFFICES ASSUME T!Inductive, [T!Next]_T!terminalVars PROVE T!Inductive'
  OBVIOUS
<1>1. CASE T!Next
  BY <1>1, TerminalArriveKeeps, TerminalReleaseKeeps, TerminalSessionKeeps,
           TerminalRestartKeeps DEF T!Next, T!Serve
<1>2. CASE UNCHANGED T!terminalVars
  BY <1>2 DEF T!terminalVars, T!Inductive, T!TypeOK, T!PlacesCounted, T!Placed
<1> QED  BY <1>1, <1>2

(* There are no more shells than places.                                   *)
LEMMA TerminalHolds == T!Inductive => T!PlacesCounted
  BY DEF T!Inductive

(* ... and so it is as long as this component is the one at work.          *)
LEMMA TerminalRuns == Spec => [](which = "terminal" => T!Inductive)
<1>1. Init => (which = "terminal" => T!Inductive)
  BY TerminalInit DEF Init
<1>2. (which = "terminal" => T!Inductive) /\ [Next]_vars
      => (which = "terminal" => T!Inductive)'
  <2> SUFFICES ASSUME which = "terminal" => T!Inductive, [Next]_vars, which' = "terminal"
               PROVE  T!Inductive'
    OBVIOUS
  <2>1. which = "terminal" /\ (T!Next \/ UNCHANGED T!terminalVars)
    BY OneAtWork DEF vars, T!terminalVars
  <2> QED  BY <2>1, TerminalStep
<1> QED  BY <1>1, <1>2, PTL DEF Spec

-----------------------------------------------------------------------------
(* The clock of the image updates (updates.loop).                          *)
clockTime == v1
clockBack == v2
clockPc == v3
clockLastCheck == v4
clockLastAutoDay == v5
clockWake == v6
clockStale == v7
clockNightly == v8
clockWakes == v9
clockFailures == v10
clockBoots == v11
clockRestarted == v12
USE DEF clockTime, clockBack, clockPc, clockLastCheck, clockLastAutoDay, clockWake,
        clockStale, clockNightly, clockWakes, clockFailures, clockBoots, clockRestarted

(* Division by the length of an hour or a day.                             *)
LEMMA ClockDivision ==
  ASSUME NEW t \in Nat, NEW d \in Nat \ {0}
  PROVE  /\ t \div d \in Nat /\ t % d \in 0..(d - 1)
         /\ t = d * (t \div d) + (t % d)
  OBVIOUS

(* The next multiple of a length is at least that length away.             *)
LEMMA ClockMultiples ==
  ASSUME NEW d \in Nat \ {0}, NEW m \in Int, NEW n \in Int, m < n
  PROVE  d * m + d <= d * n
<1>1. PICK k \in Nat : n = m + 1 + k
  <2>1. n - m - 1 \in Nat /\ n = m + 1 + (n - m - 1)
    OBVIOUS
  <2> QED  BY <2>1
<1>2. d * n = d * m + d + d * k
  BY <1>1
<1>3. d * k \in Nat
  OBVIOUS
<1>4. d * m \in Int
  OBVIOUS
<1> QED  BY <1>2, <1>3, <1>4

(* Later is not an earlier day.                                            *)
LEMMA ClockDivisionGrows ==
  ASSUME NEW d \in Nat \ {0}, NEW s \in Nat, NEW t \in Nat, s <= t
  PROVE  s \div d <= t \div d
<1> DEFINE m == s \div d
           n == t \div d
<1>1. /\ m \in Nat /\ n \in Nat /\ d * m \in Nat /\ d * n \in Nat
      /\ d * m <= s /\ t < d * n + d
  BY ClockDivision
<1>2. SUFFICES ASSUME n < m PROVE FALSE
  BY <1>1
<1> HIDE DEF m, n
<1>3. d * n + d <= d * m
  BY <1>1, <1>2, ClockMultiples
<1> QED  BY <1>1, <1>3

(* Today and the time of day, within their bounds.                         *)
LEMMA ClockCalendar ==
  ASSUME B!TypeOK, clockBack <= clockTime
  PROVE  /\ B!Today \in 0..B!LastDay /\ B!TimeOfDay \in 0..(DayLength - 1)
         /\ clockTime - clockBack = DayLength * B!Today + B!TimeOfDay
<1> USE ClockAssumption DEF B!ClockSane
<1>1. clockTime - clockBack \in Nat /\ clockTime - clockBack <= ClockEnd /\ ClockEnd \in Nat
  BY DEF B!TypeOK
<1>2. B!Today <= B!LastDay
  BY <1>1, ClockDivisionGrows DEF B!Today, B!LastDay
<1>3. B!LastDay \in Nat
  BY <1>1, ClockDivision DEF B!LastDay
<1> DEFINE t == clockTime - clockBack
<1>4. /\ t \div DayLength \in Nat /\ t % DayLength \in 0..(DayLength - 1)
      /\ t = DayLength * (t \div DayLength) + (t % DayLength)
  <2>1. t \in Nat /\ DayLength \in Nat \ {0}
    BY <1>1
  <2> HIDE DEF t
  <2> QED  BY <2>1, ClockDivision
<1> QED  BY <1>2, <1>3, <1>4 DEF B!Today, B!TimeOfDay

(* When the nightly update is due, the day of the last one is over, and it *)
(* is the night of today.                                                  *)
LEMMA ClockDueIsLater ==
  ASSUME B!TypeOK, B!HourCame, B!Due
  PROVE  clockLastAutoDay < B!Today /\ B!Night(B!Today)
<1> USE ClockAssumption DEF B!ClockSane
<1> DEFINE h == B!HourOf(At)
<1>1. /\ h \in Nat /\ HourLength * h \in Nat /\ HourLength * h <= At
      /\ B!HourOf(B!TimeOfDay) = h /\ At <= B!TimeOfDay
  <2>1. At \in Nat /\ HourLength \in Nat \ {0}
    OBVIOUS
  <2>2. h \in Nat /\ At % HourLength \in Nat /\ At = HourLength * h + (At % HourLength)
    BY <2>1, ClockDivision DEF B!HourOf
  <2> HIDE DEF h
  <2>3. HourLength * h \in Nat
    BY <2>1, <2>2
  <2> QED  BY <2>1, <2>2, <2>3 DEF B!Due, h
<1>2. /\ B!Today \in 0..B!LastDay /\ B!TimeOfDay \in 0..(DayLength - 1)
      /\ clockTime - clockBack = DayLength * B!Today + B!TimeOfDay
      /\ DayLength * B!Today \in Nat /\ clockTime \in Nat /\ clockBack \in {0, HourLength}
      /\ B!LastDay \in Nat
  <2>1. /\ B!Today \in 0..B!LastDay /\ B!TimeOfDay \in 0..(DayLength - 1)
        /\ clockTime - clockBack = DayLength * B!Today + B!TimeOfDay
    BY ClockCalendar DEF B!HourCame
  <2>2. B!LastDay \in Nat
    BY ClockDivision DEF B!LastDay
  <2>3. DayLength * B!Today \in Nat
    BY <2>1, <2>2
  <2> QED  BY <2>1, <2>2, <2>3 DEF B!TypeOK
<1> HIDE DEF h
<1>3. B!Night(B!Today)
  <2>1. B!Today * DayLength = DayLength * B!Today /\ h * HourLength = HourLength * h
    BY <1>1, <1>2
  <2>2. B!TimeOfDay < HourLength * h + HourLength
    <3>1. B!TimeOfDay \in Nat /\ HourLength \in Nat \ {0}
      BY <1>2
    <3>2. B!TimeOfDay % HourLength \in 0..(HourLength - 1)
          /\ B!TimeOfDay = HourLength * (B!TimeOfDay \div HourLength) + (B!TimeOfDay % HourLength)
      BY <3>1, ClockDivision
    <3>3. B!TimeOfDay \div HourLength = h
      BY <1>1 DEF B!HourOf
    <3> QED  BY <1>1, <3>1, <3>2, <3>3
  <2>3. clockTime >= B!Today * DayLength + h * HourLength
        /\ clockTime < B!Today * DayLength + h * HourLength + 2 * HourLength
    BY <1>1, <1>2, <2>1, <2>2
  <2> QED  BY <1>1, <1>2, <2>3 DEF B!Night, B!NightOver, B!NightBegins, h
<1>4. ASSUME B!Today < clockLastAutoDay PROVE FALSE
  <2>1. clockLastAutoDay \in Nat /\ clockLastAutoDay # B!Never
    BY <1>2, <1>4 DEF B!TypeOK, B!Never
  <2>2. DayLength * B!Today + DayLength <= DayLength * clockLastAutoDay
    BY <1>2, <1>4, <2>1, ClockMultiples
  <2>3. DayLength * clockLastAutoDay \in Nat
    BY <2>1
  <2>4. clockTime >= DayLength * clockLastAutoDay + HourLength * h
    <3>1. clockLastAutoDay * DayLength = DayLength * clockLastAutoDay
          /\ h * HourLength = HourLength * h
      BY <1>1, <2>1
    <3> QED  BY <2>1, <3>1 DEF B!HourCame, B!NightBegins, h
  <2>5. B!TimeOfDay >= DayLength + HourLength * h - HourLength
    BY <1>1, <1>2, <2>2, <2>3, <2>4
  <2>6. h = 0
    <3>1. SUFFICES ASSUME 0 < h PROVE FALSE
      BY <1>1
    <3>2. HourLength * 0 + HourLength <= HourLength * h
      BY <1>1, <3>1, ClockMultiples
    <3> QED  BY <1>1, <1>2, <2>5, <3>2
  <2>7. B!TimeOfDay \div HourLength = 0 /\ B!TimeOfDay \in Nat
    BY <1>1, <1>2, <2>6 DEF B!HourOf
  <2>8. B!TimeOfDay < HourLength
    BY <2>7, ClockDivision
  <2> QED  BY <1>2, <2>5, <2>6, <2>8
<1>5. clockLastAutoDay # B!Today /\ clockLastAutoDay \in Int
  BY DEF B!Due, B!TypeOK, B!Never
<1> QED  BY <1>2, <1>3, <1>4, <1>5 DEF h

(* A nightly update is started on a day that has had none.                 *)
LEMMA ClockKeeps ==
  ASSUME B!Inductive, B!Clock
  PROVE  B!Inductive'
<1> USE ClockAssumption DEF B!ClockSane, B!Inductive
<1>1. UNCHANGED <<clockTime, clockBack, clockLastCheck, clockWake, clockStale, clockNightly,
      clockRestarted, clockWakes, clockFailures, clockBoots>>
  BY DEF B!Clock
<1>2. CASE clockPc' = "nightly" /\ B!Due /\ clockLastAutoDay' = B!Today
  <2>1. clockLastAutoDay < B!Today /\ B!Night(B!Today) /\ B!Today \in 0..B!LastDay
        /\ clockLastAutoDay \in Int
    BY <1>2, ClockDueIsLater, ClockCalendar DEF B!HourCame, B!TypeOK, B!Never
  <2>2. B!TypeOK'
    BY <1>1, <1>2, <2>1 DEF B!TypeOK
  <2>3. B!WakeComes' /\ B!HourCame'
    <3>1. clockTime >= B!NightBegins(B!Today)
      BY <2>1 DEF B!Night
    <3>2. B!NightBegins(clockLastAutoDay)' = B!NightBegins(B!Today)
      BY <1>2 DEF B!NightBegins, B!HourOf
    <3> QED  BY <1>1, <1>2, <3>1, <3>2 DEF B!WakeComes, B!HourCame, B!Clock
  <2>4. B!DaysUsed'
    <3>1. DOMAIN clockNightly = 0..B!LastDay /\ B!LastDay \in Nat
      <4>1. B!LastDay \in Nat
        BY ClockDivision DEF B!LastDay
      <4> QED  BY <4>1 DEF B!TypeOK
    <3> SUFFICES ASSUME NEW d \in 0..B!LastDay
                 PROVE  /\ clockNightly[d] <= 1 + clockRestarted[d]
                        /\ clockNightly[d] > 0 => clockTime >= B!NightBegins(d)
                        /\ B!UsedUp(d) => d <= B!Today \/ B!NightOver(d)
                        /\ B!UsedUp(d) => d # B!Today
      BY <1>1, <1>2, <3>1 DEF B!DaysUsed, B!UsedUp, B!NightOver, B!NightBegins, B!HourOf
    <3>2. B!UsedUp(d) => d <= clockLastAutoDay \/ B!NightOver(d)
      BY <3>1 DEF B!DaysUsed
    <3>3. ~B!NightOver(B!Today)
      BY <2>1 DEF B!Night
    <3> QED  BY <2>1, <3>1, <3>2, <3>3 DEF B!DaysUsed
  <2> QED  BY <2>2, <2>3, <2>4
<1>3. CASE clockPc' = "waiting" /\ clockLastAutoDay' = clockLastAutoDay
  <2>1. B!TypeOK' /\ B!WakeComes' /\ B!HourCame' /\ B!DaysUsed'
    BY <1>1, <1>3 DEF B!TypeOK, B!WakeComes, B!HourCame, B!DaysUsed, B!UsedUp, B!NightOver,
             B!NightBegins,
                      B!HourOf, B!Clock
  <2> QED  BY <2>1
<1> QED  BY <1>2, <1>3 DEF B!Clock

(* Starting it uses its day up.                                            *)
LEMMA ClockStartKeeps ==
  ASSUME B!Inductive, B!StartNightly
  PROVE  B!Inductive'
<1> USE DEF B!Inductive
<1>1. PICK starts \in {0, 1} :
           clockNightly' = [clockNightly EXCEPT ![clockLastAutoDay] = @ + starts]
  BY DEF B!StartNightly
<1>2. /\ UNCHANGED <<clockTime, clockBack, clockLastCheck, clockLastAutoDay, clockWake,
           clockStale, clockRestarted, clockWakes, clockFailures,
                     clockBoots>>
      /\ clockPc = "nightly" /\ clockPc' = "waiting"
  BY DEF B!StartNightly
<1>3. clockNightly \in [0..B!LastDay -> Nat]
  BY DEF B!TypeOK
<1>4. \A d \in 0..B!LastDay : clockNightly'[d] = IF d = clockLastAutoDay
      THEN clockNightly[d] + starts ELSE clockNightly[d]
  BY <1>1, <1>3
<1>5. clockNightly' \in [0..B!LastDay -> Nat]
  <2>1. starts \in Nat /\ DOMAIN clockNightly' = 0..B!LastDay
    BY <1>1, <1>3
  <2>2. \A d \in 0..B!LastDay : clockNightly'[d] \in Nat
    BY <1>3, <1>4, <2>1
  <2>3. clockNightly' = [d \in 0..B!LastDay |-> clockNightly'[d]]
    BY <1>1, <1>3
  <2> QED  BY <2>2, <2>3
<1>6. B!TypeOK'
  BY <1>2, <1>5 DEF B!TypeOK
<1>7. B!DaysUsed'
  <2> SUFFICES ASSUME NEW d \in 0..B!LastDay
               PROVE  /\ clockNightly'[d] <= 1 + clockRestarted[d]
                      /\ clockNightly'[d] > 0 => clockTime >= B!NightBegins(d)
                      /\ clockNightly'[d] = 1 + clockRestarted[d] => d <= clockLastAutoDay
                           \/ B!NightOver(d)
    BY <1>2, <1>5 DEF B!DaysUsed, B!UsedUp, B!NightOver, B!NightBegins, B!HourOf
  <2>1. clockRestarted[d] \in Nat /\ clockNightly[d] \in Nat
    BY <1>3 DEF B!TypeOK
  <2>2. /\ clockNightly[d] <= 1 + clockRestarted[d]
        /\ clockNightly[d] > 0 => clockTime >= B!NightBegins(d)
        /\ B!UsedUp(d) => d <= clockLastAutoDay \/ B!NightOver(d)
        /\ B!UsedUp(d) => d # clockLastAutoDay
    BY <1>2, <1>3 DEF B!DaysUsed
  <2>3. CASE d = clockLastAutoDay
    <3>1. d # B!Never
      BY <2>3 DEF B!Never, B!TypeOK
    <3>2. clockTime >= B!NightBegins(d)
      BY <2>3, <3>1 DEF B!HourCame
    <3>3. clockNightly[d] # 1 + clockRestarted[d] /\ clockNightly'[d] = clockNightly[d] + starts
      BY <1>4, <2>2, <2>3 DEF B!UsedUp
    <3> QED  BY <1>1, <2>1, <2>2, <2>3, <3>2, <3>3
  <2>4. CASE d # clockLastAutoDay
    <3>1. clockNightly'[d] = clockNightly[d]
      BY <1>4, <2>4
    <3> QED  BY <2>1, <2>2, <3>1 DEF B!UsedUp
  <2> QED  BY <2>3, <2>4
<1> QED  BY <1>2, <1>6, <1>7 DEF B!WakeComes, B!HourCame, B!NightBegins, B!HourOf

(* The hour of every day is some moment.                                   *)
LEMMA ClockNightIsTime == \A d \in 0..B!LastDay : B!NightBegins(d) \in Nat
<1> USE ClockAssumption DEF B!ClockSane
<1> SUFFICES ASSUME NEW d \in 0..B!LastDay PROVE B!NightBegins(d) \in Nat
  OBVIOUS
<1>1. B!HourOf(At) \in Nat /\ B!LastDay \in Nat
  BY ClockDivision DEF B!HourOf, B!LastDay
<1>2. d \in Nat
  BY <1>1
<1>3. d * DayLength \in Nat /\ B!HourOf(At) * HourLength \in Nat
  BY <1>1, <1>2
<1> QED  BY <1>3 DEF B!NightBegins

(* The other steps of the loop, of time, of wakes and of the agent.  A     *)
(* turn that finds the wake forgets it and begins a check at once          *)
(* (updates.py:512-515).                                                   *)
LEMMA ClockOthersKeep ==
  ASSUME B!Inductive,
         B!Pass \/ B!PutBack \/ B!Wake \/ B!AgentRestart \/ B!Top \/ B!Checked \/ B!CheckFails
         \/ B!Wait
  PROVE  B!Inductive'
<1> USE ClockAssumption DEF B!ClockSane, B!Inductive, B!Never
<1>1. CASE B!Pass
  <2>1. \A d \in 0..B!LastDay : B!NightBegins(d) \in Nat /\ B!NightBegins(d)' = B!NightBegins(d)
    <3>1. \A d \in 0..B!LastDay : B!NightBegins(d) \in Nat
      BY ClockNightIsTime
    <3> QED  BY <3>1 DEF B!NightBegins, B!HourOf
  <2>2. /\ UNCHANGED <<clockBack, clockPc, clockLastCheck, clockLastAutoDay, clockWake,
             clockStale, clockNightly, clockRestarted, clockWakes,
                       clockFailures, clockBoots>>
        /\ clockTime' = clockTime + 1 /\ clockTime \in Int /\ HourLength \in Int
        /\ clockTime < ClockEnd
    BY <1>1 DEF B!Pass, B!TypeOK
  <2>3. B!TypeOK' /\ B!WakeComes'
    BY <2>2 DEF B!TypeOK, B!WakeComes
  <2>4. B!HourCame'
    <3>1. clockLastAutoDay # B!Never => clockLastAutoDay \in 0..B!LastDay
      BY DEF B!TypeOK
    <3>2. clockLastAutoDay # B!Never
          => B!NightBegins(clockLastAutoDay)' = B!NightBegins(clockLastAutoDay)
      BY <2>2 DEF B!NightBegins, B!HourOf
    <3> HIDE DEF B!Never
    <3> QED  BY <2>1, <2>2, <3>1, <3>2 DEF B!HourCame, B!TypeOK
  <2>5. B!DaysUsed'
    <3>1. DOMAIN clockNightly = 0..B!LastDay
      BY DEF B!TypeOK
    <3>2. \A d \in 0..B!LastDay : /\ B!NightOver(d) => B!NightOver(d)'
                                  /\ clockTime >= B!NightBegins(d)
                                       => clockTime' >= B!NightBegins(d)'
      BY <2>1, <2>2 DEF B!NightOver
    <3> QED  BY <2>2, <3>1, <3>2 DEF B!DaysUsed, B!UsedUp
  <2> QED  BY <2>3, <2>4, <2>5
<1>2. CASE B!PutBack
  BY <1>2 DEF B!PutBack, B!TypeOK, B!WakeComes, B!HourCame, B!DaysUsed, B!UsedUp, B!NightOver,
         B!NightBegins, B!HourOf
<1>3. CASE B!Wake
  BY <1>3 DEF B!Wake, B!TypeOK, B!WakeComes, B!HourCame, B!DaysUsed, B!UsedUp, B!NightOver,
         B!NightBegins, B!HourOf
<1>4. CASE B!AgentRestart
  <2>1. clockRestarted' \in [0..B!LastDay -> Nat] /\ clockBoots' \in 0..MaxBoots
    <3>1. \A d \in 0..B!LastDay : clockRestarted[d] \in Nat
      BY DEF B!TypeOK
    <3> QED  BY <1>4, <3>1 DEF B!AgentRestart, B!TypeOK
  <2>2. B!TypeOK'
    BY <1>4, <2>1 DEF B!AgentRestart, B!TypeOK
  <2>3. B!WakeComes' /\ B!HourCame'
    BY <1>4 DEF B!AgentRestart, B!WakeComes, B!HourCame
  <2>4. B!DaysUsed'
    <3> SUFFICES ASSUME NEW d \in 0..B!LastDay
                 PROVE  /\ clockNightly[d] <= 1 + clockRestarted'[d]
                        /\ clockNightly[d] > 0 => clockTime >= B!NightBegins(d)
                        /\ clockNightly[d] = 1 + clockRestarted'[d] => B!NightOver(d)
      BY <1>4 DEF B!AgentRestart, B!TypeOK, B!DaysUsed, B!UsedUp, B!NightOver, B!NightBegins,
                B!HourOf
    <3>1. /\ clockRestarted[d] \in Nat /\ clockNightly[d] \in Nat
          /\ clockRestarted'[d] = IF B!Night(d) THEN clockRestarted[d] + 1 ELSE clockRestarted[d]
      BY <1>4 DEF B!AgentRestart, B!TypeOK
    <3>2. /\ clockNightly[d] <= 1 + clockRestarted[d]
          /\ clockNightly[d] > 0 => clockTime >= B!NightBegins(d)
      BY DEF B!DaysUsed, B!TypeOK
    <3> HIDE DEF B!Never
    <3>3. CASE B!Night(d)
      BY <3>1, <3>2, <3>3
    <3>4. CASE ~B!Night(d)
      BY <3>1, <3>2, <3>4 DEF B!Night
    <3> QED  BY <3>3, <3>4
  <2> QED  BY <2>2, <2>3, <2>4
<1>5. CASE B!Top
  BY <1>5 DEF B!Top, B!CheckDue, B!TypeOK, B!WakeComes, B!HourCame, B!DaysUsed, B!UsedUp,
            B!NightOver,
         B!NightBegins, B!HourOf
<1>6. CASE B!Checked
  BY <1>6 DEF B!Checked, B!AfterCheck, B!TypeOK, B!WakeComes, B!HourCame, B!DaysUsed, B!UsedUp,
            B!NightOver,
         B!NightBegins, B!HourOf
<1>7. CASE B!CheckFails
  BY <1>7 DEF B!CheckFails, B!TypeOK, B!WakeComes, B!HourCame, B!DaysUsed, B!UsedUp, B!NightOver,
         B!NightBegins, B!HourOf
<1>8. CASE B!Wait
  BY <1>8 DEF B!Wait, B!TypeOK, B!WakeComes, B!HourCame, B!DaysUsed, B!UsedUp, B!NightOver,
         B!NightBegins, B!HourOf
<1> QED  BY <1>1, <1>2, <1>3, <1>4, <1>5, <1>6, <1>7, <1>8

(* At the start the loop has checked nothing.                              *)
LEMMA ClockInit == B!Init => B!Inductive
<1> USE ClockAssumption DEF B!ClockSane, B!Never
<1>1. B!LastDay \in Nat
  BY ClockDivision DEF B!LastDay
<1>2. B!Init => clockNightly \in [0..B!LastDay -> Nat] /\ clockRestarted \in [0..B!LastDay -> Nat]
  BY DEF B!Init
<1>3. B!Init => B!TypeOK
  <2> SUFFICES ASSUME B!Init PROVE B!TypeOK
    OBVIOUS
  <2>1. /\ clockTime \in 0..ClockEnd /\ clockBack \in {0, HourLength}
        /\ clockLastCheck \in {B!Never} \cup 0..ClockEnd
        /\ clockLastAutoDay \in {B!Never} \cup 0..B!LastDay
    BY DEF B!Init
  <2>2. clockWakes \in 0..MaxWakes /\ clockFailures \in 0..MaxFailures
        /\ clockBoots \in 0..MaxBoots
    BY DEF B!Init
  <2> QED  BY <1>2, <2>1, <2>2 DEF B!Init, B!TypeOK
<1>4. B!Init => B!WakeComes /\ B!HourCame /\ B!DaysUsed
  BY <1>1 DEF B!Init, B!WakeComes, B!HourCame, B!DaysUsed, B!UsedUp
<1> QED  BY <1>3, <1>4 DEF B!Inductive

(* No step of the loop, of time or of those who wake it breaks it.         *)
LEMMA ClockStep == B!Inductive /\ [B!Next]_B!clockVars => B!Inductive'
<1> SUFFICES ASSUME B!Inductive, [B!Next]_B!clockVars PROVE B!Inductive'
  OBVIOUS
<1>1. CASE B!Next
  BY <1>1, ClockKeeps, ClockStartKeeps, ClockOthersKeep DEF B!Next
<1>2. CASE UNCHANGED B!clockVars
  BY <1>2 DEF B!clockVars, B!Inductive, B!TypeOK, B!WakeComes, B!HourCame, B!DaysUsed, B!UsedUp,
            B!NightOver, B!NightBegins,
              B!HourOf
<1> QED  BY <1>1, <1>2

(* One nightly update a day, restarts within its hour apart, and no wake   *)
(* is lost.                                                                *)
LEMMA ClockHolds == B!Inductive => B!NightlyOnce /\ B!WakeKept
  BY DEF B!Inductive, B!DaysUsed, B!WakeComes, B!NightlyOnce, B!WakeKept, B!CheckDue

(* ... and so it is as long as this component is the one at work.          *)
LEMMA ClockRuns == Spec => [](which = "clock" => B!Inductive)
<1>1. Init => (which = "clock" => B!Inductive)
  BY ClockInit DEF Init
<1>2. (which = "clock" => B!Inductive) /\ [Next]_vars => (which = "clock" => B!Inductive)'
  <2> SUFFICES ASSUME which = "clock" => B!Inductive, [Next]_vars, which' = "clock"
               PROVE  B!Inductive'
    OBVIOUS
  <2>1. which = "clock" /\ (B!Next \/ UNCHANGED B!clockVars)
    BY OneAtWork DEF vars, B!clockVars
  <2> QED  BY <2>1, ClockStep
<1> QED  BY <1>1, <1>2, PTL DEF Spec

-----------------------------------------------------------------------------
(* The links to web pages (web_links.py).                                  *)
linkNow == v1
linkStarts == v2
linkServes == v3
linkLately == v4
linkListed == v5
linkDue == v6
linkAnswers == v7
linkAt == v8
linkCache == v9
USE DEF linkNow, linkStarts, linkServes, linkLately, linkListed, linkDue, linkAnswers,
        linkAt, linkCache

(* The component counts as this module does.                               *)
LEMMA LinksFinite == \A set : G!IsFiniteSet(set) = IsFiniteSet(set)
  BY DEF IsFiniteSet, G!IsFiniteSet

(* ... and its sets have as many elements.                                 *)
LEMMA LinksCount == \A set : G!Cardinality(set) = Cardinality(set)
  BY LinksFinite DEF Cardinality, G!Cardinality

(* A list of the answers of the first ports has as many as there are ports *)
(* in it, and its choice is a port or none.                                *)
LEMMA LinksChooseIs ==
  ASSUME NEW p \in {0} \cup Ports, NEW ports \in [1..p -> G!Kinds]
  PROVE  G!Choose(ports).known \in BOOLEAN /\ G!Choose(ports).web \in {0} \cup Ports
<1>1. p \in Nat /\ 1..p \subseteq Ports /\ Ports \subseteq Nat
  <2>1. Cardinality(Ports) \in Nat /\ Ports = 1..Cardinality(Ports)
    BY LinksAssumption, LinksFinite, LinksCount, FS_CardinalityType DEF G!LinksSane
  <2> QED  BY <2>1
<1>2. G!Webs(ports) \subseteq Ports
  BY <1>1 DEF G!Webs
<1>3. CASE G!Webs(ports) = {}
  BY <1>3 DEF G!Choose
<1>4. CASE G!Webs(ports) # {}
  <2>1. \E x \in G!Webs(ports) : \A y \in G!Webs(ports) : x <= y
    BY <1>1, <1>2, <1>4, HasLeast
  <2>2. G!Best(ports) \in G!Webs(ports)
    BY <2>1 DEF G!Best
  <2> QED  BY <1>2, <1>4, <2>2 DEF G!Choose
<1> QED  BY <1>3, <1>4

(* A start gets a number that no listing and no entry has yet.             *)
LEMMA LinksStartKeeps ==
  ASSUME G!Inductive, NEW c \in Containers, G!StartContainer(c)
  PROVE  G!Inductive'
<1> USE DEF G!Inductive, G!StartContainer
<1>1. /\ linkStarts' = [linkStarts EXCEPT ![c] = linkLately[c] + 1]
      /\ linkLately' = [linkLately EXCEPT ![c] = linkLately[c] + 1]
  OBVIOUS
<1>2. \A d \in Containers :
      /\ d = c => linkStarts'[d] = linkLately[d] + 1 /\ linkLately'[d] = linkLately[d] + 1
      /\ d # c => linkStarts'[d] = linkStarts[d] /\ linkLately'[d] = linkLately[d]
  BY <1>1 DEF G!Numbered
<1>3. G!Numbered'
  BY <1>1, <1>2 DEF G!Numbered
<1>4. G!AnswersOfListed'
  BY <1>2 DEF G!Numbered, G!AnswersOfListed
<1>5. G!EntriesOfSig'
  BY <1>2 DEF G!Numbered, G!EntriesOfSig
<1>6. G!ListedOrDue'
  BY DEF G!ListedOrDue
<1>7. linkLately[c] + 1 \in 0..MaxStarts
  BY LinksAssumption DEF G!LinksSane, G!TypeOK
<1>8. G!TypeOK'
  <2>1. UNCHANGED <<linkNow, linkAt, linkListed, linkDue, linkAnswers, linkCache>>
    OBVIOUS
  <2>2. linkStarts' \in [Containers -> 0..MaxStarts]
        /\ linkLately' \in [Containers -> 0..MaxStarts]
    BY <1>1, <1>7 DEF G!TypeOK
  <2>3. linkServes' \in [Containers -> [Ports -> G!Kinds]]
    <3>1. [p \in Ports |-> "closed"] \in [Ports -> G!Kinds]
      BY DEF G!Kinds
    <3> QED  BY <3>1 DEF G!TypeOK
  <2> QED  BY <2>1, <2>2, <2>3 DEF G!TypeOK
<1> QED  BY <1>3, <1>4, <1>5, <1>6, <1>8

(* A container that has stopped has number 0, which no entry has.          *)
LEMMA LinksStopKeeps ==
  ASSUME G!Inductive, NEW c \in Containers, G!StopContainer(c)
  PROVE  G!Inductive'
<1> USE DEF G!Inductive, G!StopContainer
<1>1. \A d \in Containers : linkStarts'[d] = IF d = c THEN 0 ELSE linkStarts[d]
  BY DEF G!Numbered
<1>2. G!Numbered'
  BY <1>1 DEF G!Numbered
<1>3. G!AnswersOfListed'
  BY <1>1 DEF G!Numbered, G!AnswersOfListed
<1>4. G!EntriesOfSig'
  BY <1>1 DEF G!Numbered, G!EntriesOfSig
<1>5. 0 \in 0..MaxStarts
  BY LinksAssumption DEF G!LinksSane
<1>6. G!TypeOK' /\ G!ListedOrDue'
  BY <1>5 DEF G!TypeOK, G!Kinds, G!ListedOrDue
<1> QED  BY <1>2, <1>3, <1>4, <1>6

(* A refresh lists the starts as they are and begins without answers.      *)
LEMMA LinksListKeeps ==
  ASSUME G!Inductive, G!List
  PROVE  G!Inductive'
<1>1. PICK live \in SUBSET {c \in Containers : linkStarts[c] > 0} :
        /\ linkListed' = [c \in live |-> linkStarts[c]]
        /\ linkCache' = G!Kept(live)
        /\ linkDue' = {c \in live : G!IsDue(c)}
  BY DEF G!List
<1>2. linkAnswers' = G!Empty /\ UNCHANGED <<linkStarts, linkLately>>
  BY DEF G!List
<1>3. G!Numbered'
  BY <1>1, <1>2 DEF G!Inductive, G!Numbered, G!Kept, G!Empty
<1>4. G!AnswersOfListed'
  BY <1>2 DEF G!AnswersOfListed, G!Empty
<1>5. G!EntriesOfSig'
  BY <1>1, <1>2 DEF G!Inductive, G!EntriesOfSig, G!Kept
<1>6. G!TypeOK'
  <2>1. linkAt' = linkNow /\ linkNow \in G!Asleep..LinksEnd /\ UNCHANGED <<linkNow, linkServes>>
    BY DEF G!List, G!Inductive, G!TypeOK, G!Asleep
  <2>2. DOMAIN linkListed' \subseteq Containers /\ linkDue' \subseteq DOMAIN linkListed'
        /\ DOMAIN linkAnswers' = {}
    BY <1>1, <1>2 DEF G!Empty
  <2>3. \A c \in DOMAIN linkCache' : c \in DOMAIN linkCache /\ linkCache'[c] = linkCache[c]
    BY <1>1 DEF G!Kept
  <2> QED  BY <1>2, <2>1, <2>2, <2>3 DEF G!Inductive, G!TypeOK
<1>7. G!ListedOrDue'
  <2>1. \A c \in DOMAIN linkListed' \ linkDue' : c \in DOMAIN linkCache
        /\ linkCache[c].sig = linkStarts[c]
    BY <1>1 DEF G!IsDue
  <2>2. linkAt' = linkNow /\ linkNow # G!Asleep
    BY DEF G!List, G!Inductive, G!TypeOK, G!Asleep
  <2> QED  BY <1>1, <2>1, <2>2 DEF G!ListedOrDue, G!Kept
<1> QED  BY <1>3, <1>4, <1>5, <1>6, <1>7 DEF G!Inductive

(* The first probe of a container fixes the start its answers are of.      *)
LEMMA LinksProbeKeeps ==
  ASSUME G!Inductive, NEW c \in Containers, G!Probe(c)
  PROVE  G!Inductive'
<1>1. /\ c \in linkDue
      /\ DOMAIN linkAnswers' = DOMAIN linkAnswers \cup {c}
      /\ linkAnswers'[c].since = G!Answered(c).since
      /\ \A d \in DOMAIN linkAnswers : d # c => linkAnswers'[d] = linkAnswers[d]
      /\ UNCHANGED <<linkStarts, linkLately, linkListed, linkDue, linkCache>>
  BY DEF G!Probe
<1>2. G!Numbered' /\ G!EntriesOfSig'
  BY <1>1 DEF G!Inductive, G!Numbered, G!EntriesOfSig
<1>3. G!AnswersOfListed'
  BY <1>1 DEF G!Inductive, G!AnswersOfListed, G!Answered
<1>4. G!ListedOrDue'
  BY <1>1 DEF G!Inductive, G!ListedOrDue, G!Probe
<1>5. G!TypeOK'
  <2>1. UNCHANGED <<linkNow, linkStarts, linkServes, linkLately, linkListed, linkDue, linkAt,
        linkCache>>
    BY DEF G!Probe
  <2>2. \A d \in DOMAIN linkAnswers' : \E p \in {0} \cup Ports : linkAnswers'[d].ports
        \in [1..p -> G!Kinds]
    <3> DEFINE old == G!Answered(c).ports
               port == Cardinality(DOMAIN old) + 1
               ports == [p \in 1..port |-> IF p = port THEN linkServes[c][p] ELSE old[p]]
    <3>1. linkAnswers'[c].ports = ports /\ port \in Ports
      BY LinksCount DEF G!Probe
    <3>2. PICK k \in {0} \cup Ports : old \in [1..k -> G!Kinds]
      <4>1. CASE c \in DOMAIN linkAnswers
        <5>1. old = linkAnswers[c].ports
          BY <4>1 DEF G!Answered
        <5>2. PICK k \in {0} \cup Ports : linkAnswers[c].ports \in [1..k -> G!Kinds]
          BY <4>1 DEF G!Inductive, G!TypeOK
        <5> QED  BY <5>1, <5>2
      <4>2. CASE c \notin DOMAIN linkAnswers
        <5>1. old = <<>>
          BY <4>2 DEF G!Answered
        <5>2. <<>> \in [1..0 -> G!Kinds]
          OBVIOUS
        <5> QED  BY <5>1, <5>2
      <4> QED  BY <4>1, <4>2
    <3>3. k \in Nat
      BY LinksAssumption, LinksFinite, LinksCount, FS_CardinalityType DEF G!LinksSane
    <3>4. port = k + 1
      <4>1. DOMAIN old = 1..k
        BY <3>2
      <4>2. Cardinality(1..k) = k
        BY <3>3, FS_Interval
      <4> QED  BY <4>1, <4>2
    <3>5. \A p \in Ports : linkServes[c][p] \in G!Kinds
      BY DEF G!Inductive, G!TypeOK
    <3> HIDE DEF old, port
    <3>6. ports \in [1..port -> G!Kinds]
      <4>1. \A p \in 1..port : p # port => p \in 1..k
        BY <3>3, <3>4
      <4> QED  BY <3>1, <3>2, <3>5, <4>1
    <3> HIDE DEF ports
    <3> QED  BY <1>1, <3>1, <3>6 DEF G!Inductive, G!TypeOK
  <2> QED  BY <1>1, <2>1, <2>2 DEF G!Inductive, G!TypeOK
<1> QED  BY <1>2, <1>3, <1>4, <1>5 DEF G!Inductive

(* An entry gets the signature that was listed: if that is still the       *)
(* present start, so is the start its answers are of.                      *)
LEMMA LinksKeepKeeps ==
  ASSUME G!Inductive, NEW c \in linkDue, NEW found, G!Keep(c, found),
         found.known \in BOOLEAN, found.web \in {0} \cup Ports
  PROVE  G!Inductive'
<1>1. /\ DOMAIN linkCache' = DOMAIN linkCache \cup {c}
      /\ linkCache'[c] = G!Entry(c, found, G!Answered(c).since)
      /\ \A d \in DOMAIN linkCache : d # c => linkCache'[d] = linkCache[d]
      /\ linkDue' = linkDue \ {c}
      /\ linkAnswers' = [d \in DOMAIN linkAnswers \ {c} |-> linkAnswers[d]]
      /\ UNCHANGED <<linkStarts, linkLately, linkListed>>
  BY DEF G!Keep
<1>2. linkCache'[c].sig = linkListed[c] /\ linkCache'[c].since = G!Answered(c).since
  BY <1>1 DEF G!Entry, G!Signature
<1>3. G!Numbered'
  BY <1>1 DEF G!Inductive, G!Numbered
<1>4. G!AnswersOfListed'
  BY <1>1 DEF G!Inductive, G!AnswersOfListed
<1>5. linkStarts[c] = linkListed[c] => G!Answered(c).since = linkListed[c]
  BY DEF G!Inductive, G!AnswersOfListed, G!Answered
<1>6. G!EntriesOfSig'
  BY <1>1, <1>2, <1>5 DEF G!Inductive, G!Numbered, G!EntriesOfSig
<1>7. G!ListedOrDue'
  <2>1. linkAt # G!Asleep
    BY DEF G!Inductive, G!ListedOrDue
  <2>2. linkAt' = linkAt
    BY DEF G!Keep
  <2> QED  BY <1>1, <1>2, <2>1, <2>2 DEF G!Inductive, G!ListedOrDue
<1>8. linkCache'[c].known \in BOOLEAN
  BY <1>1 DEF G!Entry
<1>9. /\ linkCache'[c].web \in {0} \cup Ports /\ linkCache'[c].sig \in 1..MaxStarts
      /\ linkCache'[c].at \in 0..LinksEnd
  <2>1. c \in DOMAIN linkListed /\ c \in Containers /\ linkListed[c] \in 1..linkLately[c]
        /\ linkLately[c] \in 0..MaxStarts
    BY DEF G!Inductive, G!TypeOK, G!Numbered
  <2>2. linkListed[c] \in 1..MaxStarts
    BY <2>1, LinksAssumption DEF G!LinksSane
  <2>3. linkAt # G!Asleep
    BY DEF G!Inductive, G!ListedOrDue
  <2>4. linkAt \in 0..LinksEnd
    BY <2>3, LinksAssumption DEF G!Inductive, G!TypeOK, G!LinksSane, G!Asleep
  <2> QED  BY <1>1, <2>2, <2>4 DEF G!Entry, G!Signature
<1>10. G!TypeOK'
  <2>1. UNCHANGED <<linkNow, linkStarts, linkServes, linkLately, linkListed, linkAt>>
    BY DEF G!Keep
  <2>2. \A d \in DOMAIN linkCache' :
        /\ linkCache'[d].known \in BOOLEAN /\ linkCache'[d].web \in {0} \cup Ports
        /\ linkCache'[d].sig \in 1..MaxStarts /\ linkCache'[d].at \in 0..LinksEnd
    <3> SUFFICES ASSUME NEW d \in DOMAIN linkCache'
                 PROVE  /\ linkCache'[d].known \in BOOLEAN /\ linkCache'[d].web \in {0} \cup Ports
                        /\ linkCache'[d].sig \in 1..MaxStarts /\ linkCache'[d].at \in 0..LinksEnd
      OBVIOUS
    <3>1. CASE d = c
      BY <1>8, <1>9, <3>1
    <3>2. CASE d # c
      <4>1. d \in DOMAIN linkCache /\ linkCache'[d] = linkCache[d]
        BY <1>1, <3>2
      <4> QED  BY <4>1 DEF G!Inductive, G!TypeOK
    <3> QED  BY <3>1, <3>2
  <2>3. DOMAIN linkAnswers' \subseteq linkDue' /\ linkDue' \subseteq DOMAIN linkListed'
    BY <1>1 DEF G!Inductive, G!TypeOK
  <2>4. \A d \in DOMAIN linkAnswers' : linkAnswers'[d] = linkAnswers[d]
        /\ d \in DOMAIN linkAnswers
    BY <1>1
  <2> QED  BY <2>1, <2>2, <2>3, <2>4 DEF G!Inductive, G!TypeOK
<1> QED  BY <1>3, <1>4, <1>6, <1>7, <1>10 DEF G!Inductive

(* At the start nothing is listed.                                         *)
LEMMA LinksInit == G!Init => G!Inductive
<1> SUFFICES ASSUME G!Init PROVE G!Inductive
  OBVIOUS
<1>1. 0 \in 0..MaxStarts /\ 0 \in 0..LinksEnd /\ -1 \in -1..LinksEnd
  BY LinksAssumption DEF G!LinksSane
<1>2. G!TypeOK
  BY <1>1 DEF G!Init, G!TypeOK, G!Empty, G!Kinds, G!Asleep
<1> QED  BY <1>2 DEF G!Init, G!Empty, G!Inductive, G!Numbered, G!AnswersOfListed, G!EntriesOfSig,
                   G!ListedOrDue

(* No step breaks it.                                                      *)
LEMMA LinksStep == G!Inductive /\ [G!Next]_G!webVars => G!Inductive'
<1> SUFFICES ASSUME G!Inductive, [G!Next]_G!webVars PROVE G!Inductive'
  OBVIOUS
<1>1. CASE \E c \in Containers : G!StartContainer(c) \/ G!StopContainer(c)
  BY <1>1, LinksStartKeeps, LinksStopKeeps
<1>2. CASE G!List
  BY <1>2, LinksListKeeps
<1>3. CASE \E c \in Containers : G!Probe(c)
  BY <1>3, LinksProbeKeeps
<1>4. CASE \E c \in Containers : G!Work(c) \/ G!WorkFails(c)
  <2>1. PICK c \in Containers : G!Work(c) \/ G!WorkFails(c)
    BY <1>4
  <2>2. CASE G!Work(c)
    <3>1. /\ c \in linkDue /\ c \in DOMAIN linkAnswers
          /\ G!Keep(c, G!Choose(linkAnswers[c].ports))
      BY <2>2 DEF G!Work
    <3>2. PICK p \in {0} \cup Ports : linkAnswers[c].ports \in [1..p -> G!Kinds]
      BY <3>1 DEF G!Inductive, G!TypeOK
    <3> QED  BY <3>1, <3>2, LinksChooseIs, LinksKeepKeeps
  <2>3. CASE G!WorkFails(c)
    <3> DEFINE none == [known |-> FALSE, web |-> 0]
    <3>1. c \in linkDue /\ G!Keep(c, none) /\ none.known \in BOOLEAN
          /\ none.web \in {0} \cup Ports
      BY <2>3 DEF G!WorkFails
    <3> HIDE DEF none
    <3> QED  BY <3>1, LinksKeepKeeps
  <2> QED  BY <2>1, <2>2, <2>3
<1>5. CASE G!Pass \/ G!Sleep \/ UNCHANGED G!webVars
  <2>1. /\ UNCHANGED <<linkStarts, linkServes, linkLately, linkListed, linkDue, linkAnswers,
             linkCache>>
        /\ linkNow' \in 0..LinksEnd /\ linkAt' \in G!Asleep..LinksEnd
        /\ linkAt' = G!Asleep => linkDue = {}
    BY <1>5, LinksAssumption
       DEF G!Pass, G!Sleep, G!webVars, G!Inductive, G!TypeOK, G!LinksSane, G!ListedOrDue, G!Asleep
  <2> QED  BY <2>1 DEF G!Inductive, G!TypeOK, G!Numbered, G!AnswersOfListed, G!EntriesOfSig,
                     G!ListedOrDue
<1>6. CASE \E c \in Containers, p \in Ports : G!ComesUp(c, p)
  <2>1. UNCHANGED <<linkNow, linkStarts, linkLately, linkListed, linkDue, linkAnswers, linkAt,
        linkCache>>
    BY <1>6 DEF G!ComesUp
  <2>2. linkServes' \in [Containers -> [Ports -> G!Kinds]]
    BY <1>6 DEF G!ComesUp, G!Inductive, G!TypeOK, G!Kinds
  <2> QED  BY <2>1, <2>2
           DEF G!Inductive, G!TypeOK, G!Numbered, G!AnswersOfListed, G!EntriesOfSig, G!ListedOrDue
<1> QED  BY <1>1, <1>2, <1>3, <1>4, <1>5, <1>6 DEF G!Next

(* The answers that are kept are of the present start.                     *)
LEMMA LinksHolds == G!Inductive => G!TypeOK /\ G!LinksOfThisStart /\ G!RefreshComplete
  BY DEF G!Inductive, G!EntriesOfSig, G!LinksOfThisStart, G!ListedOrDue, G!RefreshComplete

(* ... and so it is as long as this component is the one at work.          *)
LEMMA LinksRuns == Spec => [](which = "links" => G!Inductive)
<1>1. Init => (which = "links" => G!Inductive)
  BY LinksInit DEF Init
<1>2. (which = "links" => G!Inductive) /\ [Next]_vars => (which = "links" => G!Inductive)'
  <2> SUFFICES ASSUME which = "links" => G!Inductive, [Next]_vars, which' = "links"
               PROVE  G!Inductive'
    OBVIOUS
  <2>1. which = "links" /\ (G!Next \/ UNCHANGED G!webVars)
    BY OneAtWork DEF vars, G!webVars
  <2> QED  BY <2>1, LinksStep
<1> QED  BY <1>1, <1>2, PTL DEF Spec

-----------------------------------------------------------------------------
(* The rates of the containers (main.py).                                  *)
cacheStatus == v1
cacheWork == v2
cachePreviousIo == v3
cachePreviousCpu == v4
cacheToRead == v5
cacheSampled == v6
cacheRows == v7
cacheRound == v8
cacheShown == v9
cacheSinceIo == v10
cacheSinceCpu == v11
cacheBlind == v12
USE DEF cacheStatus, cacheWork, cachePreviousIo, cachePreviousCpu, cacheToRead,
        cacheSampled, cacheRows, cacheRound, cacheShown, cacheSinceIo, cacheSinceCpu,
        cacheBlind

(* A counter is an amount.                                                 *)
LEMMA CacheCounterIs ==
  ASSUME A!TypeOK, NEW c \in Containers
  PROVE  A!Counter(c) \in A!Amounts /\ MostWork \in Nat
  BY CacheAssumption DEF A!CacheSane, A!TypeOK, A!Counter, A!Amounts

(* What a container does moves its counter and the history only.           *)
LEMMA CacheWorkKeeps ==
  ASSUME A!Inductive, NEW c \in Containers,
         \/ A!Starts(c) \/ A!Stops(c) \/ A!Pauses(c) \/ A!Unpauses(c) \/ A!Goes(c) \/ A!Works(c)
  PROVE  A!Inductive'
<1> USE DEF A!Inductive
<1>1. /\ UNCHANGED <<cachePreviousIo, cachePreviousCpu, cacheToRead, cacheSampled, cacheRows,
           cacheRound, cacheShown, cacheBlind>>
      /\ MostWork \in Nat
  BY CacheAssumption
     DEF A!CacheSane, A!Starts, A!Stops, A!Pauses, A!Unpauses, A!Goes, A!Works, A!Turn,
     A!previousVars, A!workerVars,
         A!historyVars
<1>2. CASE A!Works(c)
  <2>1. /\ cacheStatus' = cacheStatus /\ cacheWork' = [cacheWork EXCEPT ![c] = cacheWork[c] + 1]
        /\ cacheSinceIo' = [cacheSinceIo EXCEPT ![c] = IF cachePreviousIo[c] = A!Unseen THEN 0
                                                       ELSE A!OneMore(cacheSinceIo[c])]
        /\ cacheSinceCpu' = [cacheSinceCpu EXCEPT ![c] = IF cachePreviousCpu[c] = A!Unseen THEN 0
                                                         ELSE A!OneMore(cacheSinceCpu[c])]
        /\ cacheStatus[c] = "running" /\ cacheWork[c] < MostWork
    BY <1>2 DEF A!Works
  <2>2. A!TypeOK'
    <3>1. \A n \in A!Amounts : A!OneMore(n) \in A!Amounts
      BY <1>1 DEF A!OneMore, A!Amounts
    <3>2. cacheWork[c] + 1 \in A!Amounts /\ 0 \in A!Amounts
      BY <1>1, <2>1 DEF A!TypeOK, A!Amounts
    <3>3. cacheWork' \in [Containers -> A!Amounts]
      BY <2>1, <3>2 DEF A!TypeOK
    <3>4. cacheSinceIo' \in [Containers -> A!Amounts]
          /\ cacheSinceCpu' \in [Containers -> A!Amounts]
      BY <2>1, <3>1, <3>2 DEF A!TypeOK
    <3> QED  BY <1>1, <2>1, <3>3, <3>4 DEF A!TypeOK
  <2>3. ASSUME NEW d \in Containers
        PROVE  /\ A!Grown(cachePreviousIo, cacheSinceIo, d)
                    => A!Grown(cachePreviousIo, cacheSinceIo, d)'
               /\ A!Grown(cachePreviousCpu, cacheSinceCpu, d)
                    => A!Grown(cachePreviousCpu, cacheSinceCpu, d)'
    <3>1. CASE d # c
      <4>1. cacheSinceIo'[d] = cacheSinceIo[d] /\ cacheSinceCpu'[d] = cacheSinceCpu[d]
            /\ A!Counter(d)' = A!Counter(d)
        BY <2>1, <3>1 DEF A!TypeOK, A!Counter
      <4> QED  BY <1>1, <4>1 DEF A!Grown
    <3>2. CASE d = c
      <4>1. /\ A!Counter(c) = cacheWork[c] /\ A!Counter(c)' = cacheWork[c] + 1
            /\ cachePreviousIo[c] # A!Unseen => cacheSinceIo'[c] = A!OneMore(cacheSinceIo[c])
            /\ cachePreviousCpu[c] # A!Unseen => cacheSinceCpu'[c] = A!OneMore(cacheSinceCpu[c])
        BY <2>1 DEF A!Counter, A!TypeOK
      <4>2. /\ cacheWork[c] \in 0..(MostWork - 1) /\ cacheSinceIo[c] \in 0..MostWork
            /\ cacheSinceCpu[c] \in 0..MostWork
            /\ cachePreviousIo[c] \in -1..MostWork /\ cachePreviousCpu[c] \in -1..MostWork
        BY <1>1, <2>1 DEF A!TypeOK, A!Amounts, A!Unseen
      <4>3. ASSUME cachePreviousIo[c] # A!Unseen,
                   cacheWork[c] - cachePreviousIo[c] =< cacheSinceIo[c]
            PROVE  cacheWork[c] + 1 - cachePreviousIo[c] =< A!OneMore(cacheSinceIo[c])
        BY <1>1, <4>2, <4>3 DEF A!OneMore, A!Unseen
      <4>4. ASSUME cachePreviousCpu[c] # A!Unseen,
                   cacheWork[c] - cachePreviousCpu[c] =< cacheSinceCpu[c]
            PROVE  cacheWork[c] + 1 - cachePreviousCpu[c] =< A!OneMore(cacheSinceCpu[c])
        BY <1>1, <4>2, <4>4 DEF A!OneMore, A!Unseen
      <4>5. A!Grown(cachePreviousIo, cacheSinceIo, c)
            => A!Grown(cachePreviousIo, cacheSinceIo, c)'
        BY <1>1, <4>1, <4>2, <4>3 DEF A!Grown
      <4>6. A!Grown(cachePreviousCpu, cacheSinceCpu, c)
            => A!Grown(cachePreviousCpu, cacheSinceCpu, c)'
        BY <1>1, <4>1, <4>2, <4>4 DEF A!Grown
      <4> QED  BY <3>2, <4>5, <4>6
    <3> QED  BY <3>1, <3>2
  <2> QED  BY <1>1, <2>2, <2>3 DEF A!RatesSane
<1>3. CASE A!Starts(c) \/ A!Stops(c) \/ A!Pauses(c) \/ A!Unpauses(c) \/ A!Goes(c)
  <2>1. /\ cacheSinceIo' = cacheSinceIo /\ cacheSinceCpu' = cacheSinceCpu
        /\ \E to \in {"running", "paused", "exited", "removed"} :
             /\ cacheStatus' = [cacheStatus EXCEPT ![c] = to]
             /\ \/ cacheWork' = [cacheWork EXCEPT ![c] = 0]
                \/ cacheWork' = cacheWork /\ (to \in {"running", "paused"} =>
                                      cacheStatus[c] \in {"running", "paused"})
    BY <1>3 DEF A!Starts, A!Stops, A!Pauses, A!Unpauses, A!Goes, A!Turn, A!historyVars
  <2>2. A!TypeOK'
    BY <1>1, <2>1 DEF A!TypeOK, A!Amounts
  <2>3. ASSUME NEW d \in Containers PROVE A!Counter(d)' \in {A!Counter(d), 0}
    BY <2>1 DEF A!Counter, A!TypeOK
  <2>4. ASSUME NEW d \in Containers
        PROVE  /\ A!Grown(cachePreviousIo, cacheSinceIo, d)
                    => A!Grown(cachePreviousIo, cacheSinceIo, d)'
               /\ A!Grown(cachePreviousCpu, cacheSinceCpu, d)
                    => A!Grown(cachePreviousCpu, cacheSinceCpu, d)'
    <3>1. /\ A!Counter(d)' \in {A!Counter(d), 0} /\ A!Counter(d) \in 0..MostWork
          /\ cacheSinceIo[d] \in 0..MostWork /\ cacheSinceCpu[d] \in 0..MostWork
          /\ cachePreviousIo[d] \in -1..MostWork /\ cachePreviousCpu[d] \in -1..MostWork
      BY <2>3, CacheCounterIs DEF A!TypeOK, A!Amounts, A!Unseen
    <3> QED  BY <1>1, <2>1, <3>1 DEF A!Grown, A!Unseen
  <2> QED  BY <1>1, <2>2, <2>4 DEF A!RatesSane
<1> QED  BY <1>2, <1>3

(* The listing, the reload and the publication read no counter.            *)
LEMMA CacheRoundKeeps ==
  ASSUME A!Inductive, A!List \/ A!Reload \/ A!Publish
  PROVE  A!Inductive'
<1> USE DEF A!Inductive
<1>1. UNCHANGED <<cacheStatus, cacheWork, cachePreviousIo, cacheSinceIo, cacheSinceCpu,
      cacheBlind>>
  BY DEF A!List, A!Reload, A!Publish, A!previousVars, A!historyVars
<1>2. \A c \in Containers : A!Counter(c)' = A!Counter(c)
  BY <1>1 DEF A!Counter
<1>3. ASSUME NEW c \in Containers PROVE cachePreviousCpu'[c] \in {cachePreviousCpu[c], A!Unseen}
  BY DEF A!List, A!Reload, A!Publish, A!previousVars, A!TypeOK
<1>4. ASSUME NEW c \in Containers
      PROVE  /\ A!Grown(cachePreviousIo, cacheSinceIo, c)
                  => A!Grown(cachePreviousIo, cacheSinceIo, c)'
             /\ A!Grown(cachePreviousCpu, cacheSinceCpu, c)
                  => A!Grown(cachePreviousCpu, cacheSinceCpu, c)'
  BY <1>1, <1>2, <1>3 DEF A!Grown
<1>5. /\ \/ cacheRows' = cacheRows /\ cacheShown' = cacheShown
         \/ cacheRows' = A!NoRows /\ cacheShown' = cacheRows
      /\ cachePreviousCpu' \in [Containers -> A!Unseen..MostWork]
      /\ cacheToRead' \subseteq Containers
      /\ cacheSampled' = A!Nobody \/ cacheSampled'.of \in Containers
      /\ cacheRound' \in BOOLEAN
  <2>1. CASE A!List
    <3>1. -1 \in -1..MostWork
      BY CacheAssumption DEF A!CacheSane
    <3>2. cachePreviousCpu' \in [Containers -> A!Unseen..MostWork]
      BY <2>1, <3>1 DEF A!List, A!TypeOK, A!Unseen
    <3> QED  BY <2>1, <3>2 DEF A!List, A!TypeOK, A!There
  <2>2. CASE A!Reload
    BY <2>2 DEF A!Reload, A!TypeOK, A!previousVars
  <2>3. CASE A!Publish
    BY <2>3 DEF A!Publish, A!TypeOK, A!previousVars
  <2> QED  BY <2>1, <2>2, <2>3
<1>6. \A c \in DOMAIN cacheRows' : cacheRows'[c] \in A!Rates /\ A!Sane(cacheRows'[c])
  BY <1>5 DEF A!NoRows, A!TypeOK
<1>7. \A c \in DOMAIN cacheShown' : cacheShown'[c] \in A!Rates /\ A!Sane(cacheShown'[c])
  BY <1>5 DEF A!TypeOK, A!RatesSane
<1>8. A!TypeOK'
  BY <1>1, <1>5, <1>6, <1>7 DEF A!TypeOK
<1> QED  BY <1>1, <1>4, <1>6, <1>7, <1>8 DEF A!RatesSane

(* A reading: the row it makes is sane, and the next one will be.          *)
LEMMA CacheReadKeeps ==
  ASSUME A!Inductive, A!ReadCounters \/ A!ReadNothing
  PROVE  A!Inductive'
<1> USE DEF A!Inductive
<1>1. PICK c \in Containers : c = cacheSampled.of
  <2>1. cacheSampled # A!Nobody
    <3>1. cacheSampled = A!Nobody => cacheSampled.status = "exited"
      BY DEF A!Nobody
    <3>2. A!ReadCounters => cacheSampled.status = "running"
      BY DEF A!ReadCounters
    <3> QED  BY <3>1, <3>2 DEF A!ReadNothing
  <2> QED  BY <2>1 DEF A!TypeOK
<1> DEFINE n == IF A!ReadCounters THEN A!Counter(c) ELSE 0
           cpu == IF A!ReadCounters THEN A!Cpu(c, A!Counter(c)) ELSE 0
           unknown == IF A!ReadCounters THEN FALSE ELSE A!Counter(c) # 0
           row == A!Row(c, A!Io(c, n), cpu)
<1>2. /\ UNCHANGED <<cacheStatus, cacheWork, cacheToRead, cacheRound,
           cacheShown>> /\ cacheSampled' = A!Nobody
      /\ cacheRows' = [d \in DOMAIN cacheRows \cup {c} |-> IF d = c THEN row ELSE cacheRows[d]]
      /\ cachePreviousIo' = [cachePreviousIo EXCEPT ![c] = n]
      /\ cacheSinceIo' = [cacheSinceIo EXCEPT ![c] = 0]
      /\ cacheBlind' = [cacheBlind EXCEPT ![c] = unknown]
      /\ \/ /\ A!ReadCounters /\ cachePreviousCpu' = [cachePreviousCpu EXCEPT ![c] = n]
            /\ cacheSinceCpu' = [cacheSinceCpu EXCEPT ![c] = 0]
         \/ UNCHANGED <<cachePreviousCpu, cacheSinceCpu>>
  <2>1. CASE A!ReadCounters
    BY <1>1, <2>1 DEF A!ReadCounters, A!Add, A!Seen
  <2>2. CASE A!ReadNothing /\ ~A!ReadCounters
    BY <1>1, <2>2 DEF A!ReadNothing, A!Add, A!Seen
  <2> QED  BY <2>1, <2>2
<1>3. A!Counter(c) \in A!Amounts /\ MostWork \in Nat /\ n \in A!Amounts /\ n \in {0, A!Counter(c)}
  BY <1>1, CacheCounterIs DEF A!Amounts
<1>4. /\ ~unknown => n = A!Counter(c)
      /\ A!ReadCounters => n = A!Counter(c)
  OBVIOUS
<1>13. unknown \in BOOLEAN
  OBVIOUS
<1>5. /\ cachePreviousIo[c] \in -1..MostWork /\ cachePreviousCpu[c] \in -1..MostWork
      /\ cacheSinceIo[c] \in 0..MostWork /\ cacheSinceCpu[c] \in 0..MostWork
      /\ ~cacheBlind[c] => A!Grown(cachePreviousIo, cacheSinceIo, c)
      /\ A!Grown(cachePreviousCpu, cacheSinceCpu, c)
  BY <1>1 DEF A!TypeOK, A!Amounts, A!Unseen
<1>6. cpu \in 0..MostWork /\ cpu =< cacheSinceCpu[c]
  <2>1. CASE A!ReadCounters
    BY <1>3, <1>5, <2>1 DEF A!Cpu, A!AtLeast0, A!Before, A!Grown, A!Amounts, A!Unseen
  <2>2. CASE ~A!ReadCounters
    BY <1>3, <1>5, <2>2
  <2> QED  BY <2>1, <2>2
<1> HIDE DEF n, unknown, cpu
<1>7. A!Io(c, n) \in 0..MostWork /\ (~cacheBlind[c] => A!Io(c, n) =< cacheSinceIo[c])
  BY <1>3, <1>5 DEF A!Io, A!AtLeast0, A!Grown, A!Amounts, A!Unseen
<1>8. row \in A!Rates /\ A!Sane(row)
  <2> DEFINE done == IF cacheBlind[c] THEN MostWork ELSE cacheSinceIo[c]
  <2>1. done \in 0..MostWork /\ A!Io(c, n) =< done
    <3>1. CASE cacheBlind[c]
      BY <1>3, <1>7, <3>1
    <3>2. CASE ~cacheBlind[c]
      BY <1>5, <1>7, <3>2
    <3> QED  BY <3>1, <3>2
  <2>2. row = [io |-> A!Io(c, n), cpu |-> cpu, doneCpu |-> cacheSinceCpu[c], doneIo |-> done]
    BY DEF A!Row
  <2> HIDE DEF row, done
  <2> QED  BY <1>5, <1>6, <1>7, <2>1, <2>2 DEF A!Rates, A!Amounts, A!Sane
<1> HIDE DEF row
<1>9. \A d \in DOMAIN cacheRows' : cacheRows'[d] \in A!Rates /\ A!Sane(cacheRows'[d])
  BY <1>2, <1>8 DEF A!TypeOK
<1>10. A!TypeOK'
  <2>1. 0 \in A!Amounts /\ n \in A!Unseen..MostWork
    BY <1>3 DEF A!Amounts, A!Unseen
  <2>2. /\ cachePreviousIo' \in [Containers -> A!Unseen..MostWork]
        /\ cacheSinceIo' \in [Containers -> A!Amounts]
    BY <1>2, <2>1 DEF A!TypeOK
  <2>3. cacheBlind' \in [Containers -> BOOLEAN]
    <3>1. cacheBlind \in [Containers -> BOOLEAN]
          /\ cacheBlind' = [cacheBlind EXCEPT ![c] = unknown]
      BY <1>2 DEF A!TypeOK
    <3>2. unknown \in BOOLEAN
      BY <1>13
    <3> QED  BY <3>1, <3>2
  <2>4. /\ cachePreviousCpu' \in [Containers -> A!Unseen..MostWork]
        /\ cacheSinceCpu' \in [Containers -> A!Amounts]
    BY <1>2, <2>1 DEF A!TypeOK
  <2> QED  BY <1>2, <1>9, <2>2, <2>3, <2>4 DEF A!TypeOK
<1>11. \A d \in Containers : A!Counter(d)' = A!Counter(d)
  BY <1>2 DEF A!Counter
<1>12. ASSUME NEW d \in Containers
       PROVE  /\ ~cacheBlind'[d] => A!Grown(cachePreviousIo, cacheSinceIo, d)'
              /\ A!Grown(cachePreviousCpu, cacheSinceCpu, d)'
  <2>1. CASE d # c
    <3>1. /\ cachePreviousIo'[d] = cachePreviousIo[d] /\ cacheSinceIo'[d] = cacheSinceIo[d]
          /\ cachePreviousCpu'[d] = cachePreviousCpu[d] /\ cacheSinceCpu'[d] = cacheSinceCpu[d]
      BY <1>2, <2>1 DEF A!TypeOK
    <3>2. cacheBlind'[d] = cacheBlind[d]
      BY <1>2, <2>1 DEF A!TypeOK
    <3> QED  BY <1>11, <3>1, <3>2 DEF A!Grown
  <2>2. CASE d = c
    <3>1. cachePreviousIo'[c] = n /\ cacheSinceIo'[c] = 0
      BY <1>1, <1>2 DEF A!TypeOK
    <3>2. cacheBlind'[c] = unknown
      BY <1>1, <1>2 DEF A!TypeOK
    <3>3. A!Counter(c)' = A!Counter(c)
      BY <1>11
    <3>6. A!Counter(c) \in Int
      BY <1>3 DEF A!Amounts
    <3>4. ~cacheBlind'[c] => A!Grown(cachePreviousIo, cacheSinceIo, c)'
      <4>1. ASSUME ~cacheBlind'[c] PROVE cachePreviousIo'[c] = A!Counter(c)
        BY <1>4, <3>1, <3>2, <4>1
      <4> QED  BY <3>1, <3>3, <3>6, <4>1 DEF A!Grown
    <3>5. A!Grown(cachePreviousCpu, cacheSinceCpu, c)'
      <4>1. CASE UNCHANGED <<cachePreviousCpu, cacheSinceCpu>>
        <5>1. cachePreviousCpu' = cachePreviousCpu /\ cacheSinceCpu' = cacheSinceCpu
          BY <4>1
        <5> QED  BY <1>5, <3>3, <5>1 DEF A!Grown
      <4>2. CASE A!ReadCounters /\ cachePreviousCpu' = [cachePreviousCpu EXCEPT ![c] = n]
                 /\ cacheSinceCpu' = [cacheSinceCpu EXCEPT ![c] = 0]
        <5>1. cachePreviousCpu'[c] = A!Counter(c) /\ cacheSinceCpu'[c] = 0
          BY <1>1, <1>4, <4>2 DEF A!TypeOK
        <5> QED  BY <3>3, <3>6, <5>1 DEF A!Grown
      <4> QED  BY <1>2, <4>1, <4>2
    <3> QED  BY <2>2, <3>4, <3>5
  <2> QED  BY <2>1, <2>2
<1> QED  BY <1>2, <1>9, <1>10, <1>12 DEF A!RatesSane

(* At the start nothing was read.                                          *)
LEMMA CacheInit == A!Init => A!Inductive
<1> SUFFICES ASSUME A!Init PROVE A!Inductive
  OBVIOUS
<1>1. MostWork \in Nat
  BY CacheAssumption DEF A!CacheSane
<1>2. A!TypeOK
  <2>1. 0 \in A!Amounts /\ -1 \in -1..MostWork
    BY <1>1 DEF A!Amounts
  <2>2. /\ cachePreviousIo \in [Containers -> A!Unseen..MostWork]
        /\ cachePreviousCpu \in [Containers -> A!Unseen..MostWork]
        /\ cacheSinceIo \in [Containers -> A!Amounts]
        /\ cacheSinceCpu \in [Containers -> A!Amounts]
        /\ cacheWork \in [Containers -> A!Amounts]
    BY <2>1 DEF A!Init, A!Unseen, A!Amounts
  <2>3. cacheStatus \in [Containers -> {"new", "running", "paused", "exited", "removed"}]
    BY DEF A!Init
  <2>4. cacheBlind \in [Containers -> BOOLEAN] /\ cacheRound \in BOOLEAN
    BY DEF A!Init
  <2> QED  BY <2>2, <2>3, <2>4 DEF A!Init, A!TypeOK, A!NoRows
<1> QED  BY <1>2 DEF A!Init, A!Inductive, A!RatesSane, A!Grown, A!NoRows

(* No step breaks it.                                                      *)
LEMMA CacheStep == A!Inductive /\ [A!Next]_A!cacheVars => A!Inductive'
<1> SUFFICES ASSUME A!Inductive, [A!Next]_A!cacheVars PROVE A!Inductive'
  OBVIOUS
<1>1. CASE A!Next
  BY <1>1, CacheWorkKeeps, CacheRoundKeeps, CacheReadKeeps DEF A!Next
<1>2. CASE UNCHANGED A!cacheVars
  BY <1>2 DEF A!cacheVars, A!Inductive, A!TypeOK, A!RatesSane, A!Grown, A!Counter
<1> QED  BY <1>1, <1>2

(* A rate is never more than what was done.                                *)
LEMMA CacheHolds == A!Inductive => A!TypeOK /\ A!RatesSane
  BY DEF A!Inductive

(* ... and so it is as long as this component is the one at work.          *)
LEMMA CacheRuns == Spec => [](which = "cache" => A!Inductive)
<1>1. Init => (which = "cache" => A!Inductive)
  BY CacheInit DEF Init
<1>2. (which = "cache" => A!Inductive) /\ [Next]_vars => (which = "cache" => A!Inductive)'
  <2> SUFFICES ASSUME which = "cache" => A!Inductive, [Next]_vars, which' = "cache"
               PROVE  A!Inductive'
    OBVIOUS
  <2>1. which = "cache" /\ (A!Next \/ UNCHANGED A!cacheVars)
    BY OneAtWork DEF vars, A!cacheVars
  <2> QED  BY <2>1, CacheStep
<1> QED  BY <1>1, <1>2, PTL DEF Spec

-----------------------------------------------------------------------------
(* The health of TCP (capture_worker.py).                                  *)
tcpState == v1
tcpHighest == v2
tcpBare == v3
tcpVerdict == v4
USE DEF tcpState, tcpHighest, tcpBare, tcpVerdict

(* The component counts as this module does.                               *)
LEMMA HealthFinite == \A set : K!IsFiniteSet(set) = IsFiniteSet(set)
  BY DEF IsFiniteSet, K!IsFiniteSet

(* ... and its sets have as many elements.                                 *)
LEMMA HealthCount == \A set : K!Cardinality(set) = Cardinality(set)
  BY HealthFinite DEF Cardinality, K!Cardinality

(* Division by a positive number.                                         *)
LEMMA HealthDivision ==
  ASSUME NEW t \in Int, NEW d \in Nat \ {0}
  PROVE  /\ t \div d \in Int /\ t % d \in 0..(d - 1)
         /\ t = d * (t \div d) + (t % d)
  OBVIOUS

(* The next multiple of a number is at least that number away.             *)
LEMMA HealthMultiples ==
  ASSUME NEW d \in Nat \ {0}, NEW m \in Int, NEW n \in Int, m < n
  PROVE  d * m + d <= d * n
<1>1. PICK k \in Nat : n = m + 1 + k
  <2>1. n - m - 1 \in Nat /\ n = m + 1 + (n - m - 1)
    OBVIOUS
  <2> QED  BY <2>1
<1>2. d * n = d * m + d + d * k
  BY <1>1
<1>3. d * k \in Nat
  OBVIOUS
<1>4. d * m \in Int
  OBVIOUS
<1> QED  BY <1>2, <1>3, <1>4

(* There is one quotient, and one remainder.                               *)
LEMMA HealthRemainderIs ==
  ASSUME NEW d \in Nat \ {0}, NEW q \in Int, NEW t \in Int, NEW r \in 0..(d-1), t = d*q + r
  PROVE t % d = r
<1> DEFINE p == t \div d
           u == t % d
<1>1. p \in Int /\ u \in 0..(d-1) /\ t = d*p + u
  BY HealthDivision
<1> HIDE DEF p, u
<1>2. d * p \in Int /\ d * q \in Int
  BY <1>1
<1>3. p = q
  <2>1. ASSUME p < q PROVE FALSE
    BY <1>1, <1>2, <2>1, HealthMultiples
  <2>2. ASSUME q < p PROVE FALSE
    BY <1>1, <1>2, <2>2, HealthMultiples
  <2> QED BY <1>1, <2>1, <2>2
<1>4. u = r
  BY <1>1, <1>2, <1>3
<1> QED BY <1>4 DEF u

(* Two numbers that are less than half of all of them apart are as far     *)
(* apart as what they stand for.                                           *)
LEMMA HealthShorterWay ==
  ASSUME NEW half \in Nat \ {0}, NEW mod, mod = 2 * half,
         NEW x \in Int, NEW y \in Int, x > y - half, x < y + half
  PROVE  (((x % mod) - (y % mod) + half) % mod) - half = x - y
<1> DEFINE a == x \div mod
           b == y \div mod
           u == x % mod
           v == y % mod
<1>0. mod \in Nat \ {0}
  OBVIOUS
<1>1. a \in Int /\ u \in 0..(mod-1) /\ x = mod * a + u /\ b \in Int /\ v \in 0..(mod-1)
      /\ y = mod * b + v
  BY <1>0, HealthDivision
<1> HIDE DEF a, b, u, v
<1>2. mod * (b - a) = mod*b - mod*a /\ b - a \in Int
  BY <1>0, <1>1
<1>3. mod * a \in Int /\ mod * b \in Int
  BY <1>0, <1>1
<1> DEFINE t == u - v + half
           r == x - y + half
<1>4. r \in 0..(mod-1) /\ t \in Int
  BY <1>1, <1>0
<1>5. t = mod*(b-a) + r
  BY <1>1, <1>2, <1>3, <1>0
<1> HIDE DEF t, r
<1>6. t % mod = r
  <2> DEFINE q == b - a
  <2>1. q \in Int /\ t = mod * q + r
    BY <1>2, <1>5
  <2> HIDE DEF q
  <2> QED  BY <1>0, <1>4, <2>1, HealthRemainderIs
<1> QED  BY <1>6 DEF t, r, u, v

(* What the table has of a segment's direction is what was seen of it.     *)
LEMMA HealthEntryIs ==
  ASSUME K!Inductive, NEW s \in K!Segments
  PROVE  /\ K!Entry(s) \in K!Entries
         /\ K!Known(s) \in {K!None} \cup 0..MaxPosition
         /\ K!LastBare(s) \in (Markers \cup {K!NoMarker}) \X (Markers \cup {K!NoMarker})
         /\ K!Entry(s).next = K!Due(K!Known(s)) /\ K!Entry(s).ack = K!LastBare(s)[2]
         /\ K!Entry(s).dups > 0 <=> K!LastBare(s)[1] = K!LastBare(s)[2]
              /\ K!LastBare(s)[2] # K!NoMarker
<1> s.flow \in Flows
  BY DEF K!Segments
<1> USE DEF K!Inductive
<1>1. CASE s.flow \in DOMAIN tcpState
  <2>1. K!Remembered(s.flow) /\ ~K!Cleared(s)
    BY <1>1 DEF K!Cleared
  <2>2. K!Entry(s) = tcpState[s.flow] /\ K!Known(s) = tcpHighest[s.flow]
        /\ K!LastBare(s) = tcpBare[s.flow]
    BY <1>1, <2>1 DEF K!Entry, K!Known, K!LastBare
  <2> QED  BY <1>1, <2>1, <2>2 DEF K!Remembered, K!TypeOK
<1>2. CASE s.flow \notin DOMAIN tcpState
  <2>1. K!Forgotten(s.flow)
    BY <1>2
  <2>2. K!Entry(s) = K!Fresh /\ K!Known(s) = K!None /\ K!LastBare(s) = <<K!NoMarker, K!NoMarker>>
    BY <1>2, <2>1 DEF K!Entry, K!Known, K!LastBare, K!Forgotten
  <2> QED  BY <2>2 DEF K!Fresh, K!Entries, K!Due, K!None
<1> QED  BY <1>1, <1>2

(* How far a segment takes its direction.                                  *)
LEMMA HealthSpanIs ==
  ASSUME NEW s \in K!Segments
  PROVE  /\ K!Span(s) \in Nat /\ s.begin \in Nat /\ K!End(s) = s.begin + K!Span(s)
         /\ s.plen \in 0..2 /\ s.flow \in Flows /\ s.marker \in Markers
  BY HealthAssumption DEF K!Span, K!Segments, K!End, K!HealthSane

(* The comparisons of the code are those of the bytes' positions.          *)
LEMMA HealthCompares ==
  ASSUME K!Inductive, NEW s \in K!Segments, K!Near(s), K!Known(s) # K!None
  PROVE  /\ K!Entry(s).next # K!None
         /\ K!Signed(K!Seq32(s.begin) - K!Entry(s).next) = s.begin - K!Known(s)
         /\ K!Signed(K!Seq32(K!End(s)) - K!Entry(s).next) = K!End(s) - K!Known(s)
<1>1. /\ K!Half \in Nat \ {0} /\ Modulus = 2 * K!Half /\ MaxPosition \in Nat
      /\ Modulus \in Nat \ {0}
  BY HealthAssumption DEF K!HealthSane
<1>2. K!Known(s) \in Nat /\ K!Entry(s).next = K!Seq32(K!Known(s))
  BY <1>1, HealthEntryIs DEF K!Due, K!None
<1>3. /\ s.begin \in Nat /\ K!End(s) = s.begin + K!Span(s) /\ K!Span(s) \in Nat
      /\ s.begin > K!Known(s) - K!Half /\ K!End(s) < K!Known(s) + K!Half
  BY HealthSpanIs DEF K!Near
<1> DEFINE x == s.begin
           y == K!End(s)
           k == K!Known(s)
<1>4. x \in Int /\ y \in Int /\ k \in Int /\ x > k - K!Half /\ x < k + K!Half /\ y > k - K!Half
      /\ y < k + K!Half
  BY <1>1, <1>2, <1>3
<1>5. K!Entry(s).next # K!None
  BY <1>1, <1>2, HealthDivision DEF K!None, K!Seq32
<1> HIDE DEF x, y, k
<1>6. K!Signed(K!Seq32(x) - K!Seq32(k)) = x - k
  BY <1>1, <1>4, HealthShorterWay DEF K!Signed, K!Seq32
<1>7. K!Signed(K!Seq32(y) - K!Seq32(k)) = y - k
  BY <1>1, <1>4, HealthShorterWay DEF K!Signed, K!Seq32
<1>8. K!Entry(s).next = K!Seq32(k)
  BY <1>2 DEF k
<1> QED  BY <1>5, <1>6, <1>7, <1>8 DEF x, y, k

(* The number that is due next stands for the end of what was seen.        *)
LEMMA HealthNextDueIs ==
  ASSUME K!Inductive, NEW s \in K!Segments, K!Near(s)
  PROVE  K!NextDue(s) = K!Due(IF K!Counts(s) /\ K!End(s) > K!Known(s) THEN K!End(s)
         ELSE K!Known(s))
<1> DEFINE end == K!End(s)
<1>1. end \in Nat /\ end = s.begin + K!Span(s) /\ s.begin \in Nat /\ K!Span(s) \in Nat
  BY HealthSpanIs
<1>2. K!Entry(s).next = K!Due(K!Known(s)) /\ K!Known(s) \in {K!None} \cup 0..MaxPosition
  BY HealthEntryIs
<1>3. K!Due(end) = K!Seq32(end)
  BY <1>1 DEF K!Due, K!None
<1>4. CASE ~K!Counts(s)
  BY <1>2, <1>4 DEF K!NextDue
<1>5. CASE K!Counts(s) /\ K!Known(s) = K!None
  <2>1. K!Entry(s).next = K!None /\ end > K!Known(s)
    BY <1>1, <1>2, <1>5 DEF K!Due, K!None
  <2> QED  BY <1>3, <1>5, <2>1 DEF K!NextDue
<1>6. CASE K!Counts(s) /\ K!Known(s) # K!None
  <2>1. /\ K!Entry(s).next # K!None
        /\ K!Signed(K!Seq32(s.begin) - K!Entry(s).next) = s.begin - K!Known(s)
        /\ K!Signed(K!Seq32(end) - K!Entry(s).next) = end - K!Known(s)
    BY <1>6, HealthCompares
  <2>2. K!Span(s) > 0 /\ K!Known(s) \in Int
    BY <1>2, <1>6, HealthAssumption DEF K!Counts, K!HealthSane
  <2> DEFINE ahead == \/ K!Signed(K!Seq32(s.begin) - K!Entry(s).next) >= 0
                      \/ K!Signed(K!Seq32(end) - K!Entry(s).next) > 0
  <2>3. ahead <=> end > K!Known(s)
    BY <1>1, <2>1, <2>2
  <2>4. K!NextDue(s) = IF ahead THEN K!Seq32(end) ELSE K!Entry(s).next
    BY <1>6, <2>1 DEF K!NextDue
  <2> QED  BY <1>2, <1>3, <1>6, <2>3, <2>4
<1> QED  BY <1>4, <1>5, <1>6

(* What a segment deserves by the position that comes next.                *)
HealthOrderDeserved(s) ==
  IF ~K!Counts(s) \/ K!Known(s) = K!None \/ s.begin = K!Known(s) THEN {}
  ELSE IF s.begin > K!Known(s) THEN {"gap"}
  ELSE IF s.begin = K!Known(s) - 1 /\ s.plen < 2 /\ ~("S" \in s.flags \/ "F" \in s.flags) THEN {}
  ELSE {"retransmit"}

(* ... as next_seq, kept modulo 2^32, tells it.                            *)
LEMMA HealthOrderIs ==
  ASSUME K!Inductive, NEW s \in K!Segments, K!Near(s)
  PROVE  K!OrderIssues(s) = HealthOrderDeserved(s)
<1>1. K!Entry(s).next = K!Due(K!Known(s)) /\ K!Known(s) \in {K!None} \cup 0..MaxPosition
  BY HealthEntryIs
<1>2. CASE ~K!Counts(s) \/ K!Known(s) = K!None
  <2>1. ~K!Counts(s) \/ K!Entry(s).next = K!None
    BY <1>1, <1>2 DEF K!Due
  <2> QED  BY <1>2, <2>1 DEF K!OrderIssues, HealthOrderDeserved
<1>3. CASE K!Counts(s) /\ K!Known(s) # K!None
  <2> DEFINE behind == K!Signed(K!Seq32(s.begin) - K!Entry(s).next)
  <2>1. K!Entry(s).next # K!None /\ behind = s.begin - K!Known(s)
    BY <1>3, HealthCompares
  <2>2. s.begin \in Int /\ K!Known(s) \in Int /\ s.plen \in 0..2
    BY <1>1, <1>3, HealthSpanIs, HealthAssumption DEF K!HealthSane
  <2> HIDE DEF behind
  <2>3. K!OrderIssues(s) = IF behind < 0 THEN IF K!KeepAlive(s,
        behind) THEN {} ELSE {"retransmit"}
                           ELSE IF behind > 0 THEN {"gap"} ELSE {}
    BY <1>3, <2>1 DEF K!OrderIssues, behind
  <2>4. K!KeepAlive(s, behind) <=> /\ s.begin = K!Known(s) - 1 /\ s.plen < 2
                                   /\ ~("S" \in s.flags \/ "F" \in s.flags)
    <3>1. s.flags \cap {"S", "F"} = {} <=> ~("S" \in s.flags \/ "F" \in s.flags)
      OBVIOUS
    <3>2. behind = -1 <=> s.begin = K!Known(s) - 1
      BY <2>1, <2>2
    <3>3. s.plen <= 1 <=> s.plen < 2
      BY <2>2
    <3> QED  BY <3>1, <3>2, <3>3 DEF K!KeepAlive
  <2>5. /\ behind < 0 <=> s.begin < K!Known(s)
        /\ behind > 0 <=> s.begin > K!Known(s)
    BY <2>1, <2>2
  <2>6. s.begin < K!Known(s) \/ s.begin > K!Known(s) \/ s.begin = K!Known(s)
    BY <2>2
  <2>7. ~(s.begin < K!Known(s) /\ s.begin > K!Known(s)) /\ ~(s.begin < s.begin)
        /\ ~(s.begin > s.begin)
    BY <2>2
  <2> QED  BY <1>3, <2>3, <2>4, <2>5, <2>6, <2>7 DEF HealthOrderDeserved
<1> QED  BY <1>2, <1>3

(* An acknowledgement is the third of its kind exactly when the last two   *)
(* were equal to it.                                                       *)
LEMMA HealthDupsAre ==
  ASSUME K!Inductive, NEW s \in K!Segments
  PROVE  /\ K!Dups(s) \in 0..2
         /\ K!Bare(s) => /\ K!Dups(s) > 0 <=> K!LastBare(s)[2] = s.marker
                         /\ K!Dups(s) >= 2 <=> K!LastBare(s) = <<s.marker, s.marker>>
         /\ ~K!Bare(s) => K!Dups(s) = K!Entry(s).dups
<1>1. /\ K!Entry(s) \in K!Entries /\ K!Entry(s).ack = K!LastBare(s)[2]
      /\ K!LastBare(s) \in (Markers \cup {K!NoMarker}) \X (Markers \cup {K!NoMarker})
      /\ K!Entry(s).dups > 0 <=> K!LastBare(s)[1] = K!LastBare(s)[2]
           /\ K!LastBare(s)[2] # K!NoMarker
  BY HealthEntryIs
<1>2. K!Entry(s).dups \in 0..2
  BY <1>1 DEF K!Entries
<1>3. s.marker # K!NoMarker
  BY HealthSpanIs, HealthAssumption DEF K!HealthSane
<1>4. CASE ~K!Bare(s)
  BY <1>2, <1>4 DEF K!Dups
<1>5. CASE K!Bare(s) /\ K!Entry(s).ack # s.marker
  <2>1. K!Dups(s) = 0 /\ K!LastBare(s)[2] # s.marker
    BY <1>1, <1>5 DEF K!Dups
  <2>2. K!LastBare(s) # <<s.marker, s.marker>>
    BY <2>1
  <2> QED  BY <1>5, <2>1, <2>2
<1>6. CASE K!Bare(s) /\ K!Entry(s).ack = s.marker
  <2>1. K!Dups(s) = IF K!Entry(s).dups = 2 THEN 2 ELSE K!Entry(s).dups + 1
    BY <1>6 DEF K!Dups
  <2>2. /\ K!Dups(s) \in 0..2 /\ K!Dups(s) > 0
        /\ K!Dups(s) >= 2 <=> K!Entry(s).dups > 0
    BY <1>2, <2>1
  <2>3. K!LastBare(s) = <<s.marker, s.marker>> <=> K!LastBare(s)[1] = K!LastBare(s)[2]
    <3>1. K!LastBare(s) = <<K!LastBare(s)[1], K!LastBare(s)[2]>> /\ K!LastBare(s)[2] = s.marker
      <4>1. \A set : \A pair \in set \X set : pair = <<pair[1], pair[2]>>
        OBVIOUS
      <4>2. K!LastBare(s) \in (Markers \cup {K!NoMarker}) \X (Markers \cup {K!NoMarker})
        BY <1>1
      <4> QED  BY <1>1, <1>6, <4>1, <4>2, Zenon
    <3> QED  BY <3>1
  <2>4. K!Entry(s).dups > 0 <=> K!LastBare(s)[1] = K!LastBare(s)[2]
    BY <1>1, <1>3, <1>6
  <2>5. K!LastBare(s)[2] = s.marker
    BY <1>1, <1>6
  <2> QED  BY <1>6, <2>2, <2>3, <2>4, <2>5, Zenon
<1> QED  BY <1>4, <1>5, <1>6

(* So its flags are the ones it deserves.                                  *)
LEMMA HealthFlagsAre ==
  ASSUME K!Inductive, NEW s \in K!Segments, K!Near(s)
  PROVE  K!Issues(s) \cap K!Judged = K!Deserved(s) /\ K!Deserved(s) \subseteq K!Judged
<1>1. K!OrderIssues(s) = HealthOrderDeserved(s)
      /\ HealthOrderDeserved(s) \subseteq {"gap", "retransmit"}
  BY HealthOrderIs DEF HealthOrderDeserved
<1>2. K!Bare(s) /\ K!Dups(s) >= 2 <=> K!Bare(s) /\ K!LastBare(s) = <<s.marker, s.marker>>
  BY HealthDupsAre
<1> DEFINE third == IF K!Bare(s) /\ K!Dups(s) >= 2 THEN {"dup-ack"} ELSE {}
           other == IF "R" \in s.flags THEN {"reset"}
                    ELSE IF s.marker.win = 0 /\ "S" \notin s.flags THEN {"zero-window"} ELSE {}
<1>3. K!Issues(s) = other \cup K!OrderIssues(s) \cup third
  BY DEF K!Issues
<1>4. K!Deserved(s) = HealthOrderDeserved(s) \cup third
  BY <1>2 DEF K!Deserved, HealthOrderDeserved
<1>5. third \subseteq {"dup-ack"} /\ other \subseteq {"reset", "zero-window"}
  OBVIOUS
<1> HIDE DEF third, other
<1> QED  BY <1>1, <1>3, <1>4, <1>5 DEF K!Judged

(* A segment leaves the table true, and is flagged as what it is.          *)
LEMMA HealthCheckKeeps ==
  ASSUME K!Inductive, NEW s \in K!Segments, K!Check(s)
  PROVE  K!Inductive'
<1> DEFINE end == K!End(s)
           seen == IF K!Counts(s) /\ end > K!Known(s) THEN end ELSE K!Known(s)
           last == IF K!Bare(s) THEN <<K!LastBare(s)[2], s.marker>> ELSE K!LastBare(s)
           entry == [next |-> K!NextDue(s),
           ack |-> IF K!Bare(s) THEN s.marker ELSE K!Entry(s).ack,
                     dups |-> K!Dups(s)]
           flows == DOMAIN K!Table(s) \cup {s.flow}
<1>1. s.flow \in Flows /\ s.marker \in Markers /\ K!Near(s) /\ end \in Nat /\ end <= MaxPosition
  BY HealthSpanIs DEF K!Check
<1>2. /\ seen \in {K!None} \cup 0..MaxPosition
      /\ last \in (Markers \cup {K!NoMarker}) \X (Markers \cup {K!NoMarker})
  <2>1. /\ K!Known(s) \in {K!None} \cup 0..MaxPosition
        /\ K!LastBare(s) \in (Markers \cup {K!NoMarker}) \X (Markers \cup {K!NoMarker})
    BY HealthEntryIs
  <2>2. MaxPosition \in Nat
    BY HealthAssumption DEF K!HealthSane
  <2> QED  BY <1>1, <2>1, <2>2
<1>3. entry.next = K!Due(seen) /\ entry.ack = last[2]
  BY <1>1, HealthNextDueIs, HealthEntryIs
<1>4. entry.dups > 0 <=> last[1] = last[2] /\ last[2] # K!NoMarker
  <2>1. s.marker # K!NoMarker
    BY <1>1, HealthAssumption DEF K!HealthSane
  <2>2. CASE K!Bare(s)
    BY <2>1, <2>2, HealthDupsAre
  <2>3. CASE ~K!Bare(s)
    BY <2>3, HealthDupsAre, HealthEntryIs
  <2> QED  BY <2>2, <2>3
<1>5. entry \in K!Entries
  <2>1. K!Due(seen) \in {K!None} \cup 0..(Modulus - 1)
    <3>1. Modulus \in Nat \ {0} /\ MaxPosition \in Nat
      BY HealthAssumption DEF K!HealthSane
    <3> HIDE DEF seen
    <3> QED  BY <1>2, <3>1, HealthDivision DEF K!Due, K!Seq32
  <2>2. K!Dups(s) \in 0..2
    BY HealthDupsAre
  <2>3. last[2] \in Markers \cup {K!NoMarker}
    BY <1>2
  <2> HIDE DEF seen, last
  <2> QED  BY <1>3, <2>1, <2>2, <2>3 DEF K!Entries
<1>6. /\ tcpState' = [f \in flows |-> IF f = s.flow THEN entry ELSE K!Table(s)[f]]
      /\ tcpHighest' = [f \in Flows |-> IF f = s.flow THEN seen
                                      ELSE IF K!Cleared(s) THEN K!None ELSE tcpHighest[f]]
      /\ tcpBare' = [f \in Flows |-> IF f = s.flow THEN last
                                   ELSE IF K!Cleared(s) THEN <<K!NoMarker,
                                   K!NoMarker>> ELSE tcpBare[f]]
      /\ tcpVerdict' = [flagged |-> K!Issues(s) \cap K!Judged, deserved |-> K!Deserved(s)]
  BY DEF K!Check
<1> HIDE DEF entry, seen, last
<1>7. tcpVerdict' \in [flagged : SUBSET K!Judged, deserved : SUBSET K!Judged] /\ K!FlagsDeserved'
  BY <1>1, <1>6, HealthFlagsAre DEF K!FlagsDeserved
<1>8. /\ K!Cleared(s) => DOMAIN K!Table(s) = {}
      /\ ~K!Cleared(s) => K!Table(s) = tcpState
  BY DEF K!Table
<1>9. DOMAIN tcpState' = flows /\ flows \subseteq Flows
  BY <1>1, <1>6, <1>8 DEF K!Inductive, K!TypeOK
<1>10. IsFiniteSet(flows) /\ Cardinality(flows) <= MaxTracked
  <2>1. MaxTracked \in Nat \ {0}
    BY HealthAssumption DEF K!HealthSane
  <2>2. IsFiniteSet(DOMAIN tcpState) /\ Cardinality(DOMAIN tcpState) <= MaxTracked
    BY HealthFinite, HealthCount DEF K!Inductive, K!TypeOK
  <2>3. CASE K!Cleared(s)
    <3>1. flows = {s.flow}
      BY <1>8, <2>3
    <3>2. IsFiniteSet({s.flow}) /\ Cardinality({s.flow}) = 1
      BY FS_Singleton
    <3> QED  BY <2>1, <3>1, <3>2
  <2>4. CASE ~K!Cleared(s) /\ s.flow \in DOMAIN tcpState
    <3>1. flows = DOMAIN tcpState
      BY <1>8, <2>4
    <3> QED  BY <2>2, <3>1
  <2>5. CASE ~K!Cleared(s) /\ s.flow \notin DOMAIN tcpState
    <3>1. flows = DOMAIN tcpState \cup {s.flow} /\ ~(Cardinality(DOMAIN tcpState) >= MaxTracked)
      BY <1>8, <2>5, HealthCount DEF K!Cleared
    <3>2. /\ IsFiniteSet(flows) /\ Cardinality(flows) = Cardinality(DOMAIN tcpState) + 1
          /\ Cardinality(DOMAIN tcpState) \in Nat
      BY <2>2, <2>5, <3>1, FS_AddElement, FS_CardinalityType
    <3> QED  BY <2>1, <3>1, <3>2
  <2> QED  BY <2>3, <2>4, <2>5
<1>11. \A f \in DOMAIN tcpState' : tcpState'[f] \in K!Entries
  <2> SUFFICES ASSUME NEW f \in flows PROVE tcpState'[f] \in K!Entries
    BY <1>9
  <2>1. CASE f = s.flow
    BY <1>5, <1>6, <2>1
  <2>2. CASE f # s.flow
    <3>1. f \in DOMAIN tcpState /\ tcpState'[f] = tcpState[f]
      BY <1>6, <1>8, <2>2
    <3> QED  BY <3>1 DEF K!Inductive, K!TypeOK
  <2> QED  BY <2>1, <2>2
<1>12. K!TypeOK'
  <2>1. tcpHighest' \in [Flows -> {K!None} \cup 0..MaxPosition]
    BY <1>2, <1>6 DEF K!Inductive, K!TypeOK
  <2>2. tcpBare' \in [Flows -> (Markers \cup {K!NoMarker}) \X (Markers \cup {K!NoMarker})]
    BY <1>2, <1>6 DEF K!Inductive, K!TypeOK
  <2> QED  BY <1>7, <1>9, <1>10, <1>11, <2>1, <2>2, HealthCount DEF K!TypeOK
<1>13. ASSUME NEW f \in Flows
       PROVE  IF f \in DOMAIN tcpState' THEN K!Remembered(f)' ELSE K!Forgotten(f)'
  <2>1. CASE f = s.flow
    <3>1. f \in DOMAIN tcpState' /\ tcpState'[f] = entry /\ tcpHighest'[f] = seen
          /\ tcpBare'[f] = last
      BY <1>6, <2>1
    <3> QED  BY <1>3, <1>4, <3>1 DEF K!Remembered, K!Due, K!Seq32
  <2>2. CASE f # s.flow /\ K!Cleared(s)
    <3>1. f \notin DOMAIN tcpState' /\ tcpHighest'[f] = K!None
          /\ tcpBare'[f] = <<K!NoMarker, K!NoMarker>>
      BY <1>6, <1>8, <1>9, <2>2
    <3> QED  BY <3>1 DEF K!Forgotten
  <2>3. CASE f # s.flow /\ ~K!Cleared(s)
    <3>1. /\ f \in DOMAIN tcpState' <=> f \in DOMAIN tcpState
          /\ tcpHighest'[f] = tcpHighest[f] /\ tcpBare'[f] = tcpBare[f]
          /\ f \in DOMAIN tcpState => tcpState'[f] = tcpState[f]
      BY <1>6, <1>8, <1>9, <2>3
    <3>2. IF f \in DOMAIN tcpState THEN K!Remembered(f) ELSE K!Forgotten(f)
      BY DEF K!Inductive
    <3> QED  BY <3>1, <3>2 DEF K!Remembered, K!Forgotten, K!Due, K!Seq32
  <2> QED  BY <2>1, <2>2, <2>3
<1> QED  BY <1>7, <1>9, <1>10, <1>12, <1>13, HealthFinite DEF K!Inductive

(* At the start nothing has been seen.                                     *)
LEMMA HealthInit == K!Init => K!Inductive
<1> SUFFICES ASSUME K!Init PROVE K!Inductive
  OBVIOUS
<1>1. DOMAIN tcpState = {} /\ IsFiniteSet({}) /\ Cardinality({}) = 0
  BY FS_EmptySet DEF K!Init
<1>2. MaxTracked \in Nat
  BY HealthAssumption DEF K!HealthSane
<1> QED  BY <1>1, <1>2, HealthFinite, HealthCount
         DEF K!Init, K!Inductive, K!TypeOK, K!FlagsDeserved, K!Forgotten, K!None

(* No segment makes it untrue.                                             *)
LEMMA HealthStep == K!Inductive /\ [K!Next]_K!healthVars => K!Inductive'
<1> SUFFICES ASSUME K!Inductive, [K!Next]_K!healthVars PROVE K!Inductive'
  OBVIOUS
<1>1. CASE K!Next
  BY <1>1, HealthCheckKeeps DEF K!Next
<1>2. CASE UNCHANGED K!healthVars
  BY <1>2 DEF K!healthVars, K!Inductive, K!TypeOK, K!FlagsDeserved, K!Remembered, K!Forgotten,
            K!Due, K!Seq32
<1> QED  BY <1>1, <1>2

(* A segment is flagged as what it is.                                     *)
LEMMA HealthHolds == K!Inductive => K!TypeOK /\ K!FlagsDeserved
  BY DEF K!Inductive

(* ... and so it is as long as this component is the one at work.          *)
LEMMA HealthRuns == Spec => [](which = "health" => K!Inductive)
<1>1. Init => (which = "health" => K!Inductive)
  BY HealthInit DEF Init
<1>2. (which = "health" => K!Inductive) /\ [Next]_vars => (which = "health" => K!Inductive)'
  <2> SUFFICES ASSUME which = "health" => K!Inductive, [Next]_vars, which' = "health"
               PROVE  K!Inductive'
    OBVIOUS
  <2>1. which = "health" /\ (K!Next \/ UNCHANGED K!healthVars)
    BY OneAtWork DEF vars, K!healthVars
  <2> QED  BY <2>1, HealthStep
<1> QED  BY <1>1, <1>2, PTL DEF Spec

-----------------------------------------------------------------------------
(* The packets of a capture (capture.py).                                  *)
pktMono == v1
pktHelper == v2
pktWire == v3
pktJob == v4
pktViewer == v5
pktFrames == v6
pktCut == v7
USE DEF pktMono, pktHelper, pktWire, pktJob, pktViewer, pktFrames, pktCut

(* The sets of the model are finite, and counted, as everywhere.           *)
LEMMA PacketsFinite == \A set : O!IsFiniteSet(set) = IsFiniteSet(set)
  BY DEF IsFiniteSet, O!IsFiniteSet

(* ... and counted alike.                                                  *)
LEMMA PacketsCount == \A set : O!Cardinality(set) = Cardinality(set)
  BY PacketsFinite DEF Cardinality, O!Cardinality

(* What a line may be, and what it says.                                   *)
LEMMA PacketsLineIs ==
  ASSUME NEW line \in O!Lines
  PROVE  /\ line.t \in {"pkt", "tick", "end"} /\ O!Tells(line) \in 0..(MaxFrames + 1)
         /\ O!Adds(line) \in 0..MaxFrames
         /\ line.t = "tick" => /\ line.pkts \in 0..MaxFrames /\ line.skipped \in 0..MaxFrames
                               /\ line.flows \in O!FlowTables
                               /\ O!Tells(line) = line.skipped /\ O!Adds(line) = line.pkts
         /\ line.t = "pkt" => O!Tells(line) = 1 /\ O!Adds(line) = 0
         /\ line.t = "end" => O!Tells(line) = 0 /\ O!Adds(line) = 0
<1>1. MaxFrames \in Nat
  BY PacketsAssumption DEF O!PacketsSane
<1>2. CASE line = [t |-> "pkt"] \/ line = [t |-> "end"]
  BY <1>1, <1>2 DEF O!Tells, O!Adds
<1>3. CASE line \in [t : {"tick"}, pkts : 0..MaxFrames, skipped : 0..MaxFrames,
           flows : O!FlowTables]
  <2>1. /\ line.t = "tick" /\ line.pkts \in 0..MaxFrames /\ line.skipped \in 0..MaxFrames
        /\ line.flows \in O!FlowTables
    BY <1>3
  <2> QED  BY <1>1, <2>1 DEF O!Tells, O!Adds
<1> QED  BY <1>2, <1>3 DEF O!Lines

(* The books before the first line and after the last.                     *)
LEMMA PacketsBooksAre ==
  ASSUME NEW lines \in Seq(O!Lines), NEW a, NEW b, NEW c, NEW d, O!Books(lines, a, b, c, d)
  PROVE  /\ a \in 0..MaxFrames /\ b \in 0..MaxFrames /\ c \in 0..MaxFrames /\ d \in 0..MaxFrames
         /\ b <= a /\ d <= c
<1>1. PICK told \in [0..Len(lines) -> 0..MaxFrames], added \in [0..Len(lines) -> 0..MaxFrames] :
        /\ told[0] = a /\ told[Len(lines)] = c /\ added[0] = b /\ added[Len(lines)] = d
        /\ \A i \in 0..Len(lines) : added[i] <= told[i]
  BY DEF O!Books, O!Kept
<1>2. Len(lines) \in Nat /\ 0 \in 0..Len(lines) /\ Len(lines) \in 0..Len(lines)
  OBVIOUS
<1> QED  BY <1>1, <1>2

(* One line more.                                                          *)
LEMMA PacketsLongerBooks ==
  ASSUME NEW lines \in Seq(O!Lines), NEW line \in O!Lines, NEW a, NEW b, NEW c, NEW d,
         O!Books(lines, a, b, c, d), NEW e \in 0..MaxFrames, NEW f \in 0..MaxFrames,
         e = c + O!Tells(line), f = d + O!Adds(line), f <= e, line.t = "tick" => e = f
  PROVE  Append(lines, line) \in Seq(O!Lines) /\ O!Books(Append(lines, line), a, b, e, f)
<1> DEFINE n == Len(lines)
           longer == Append(lines, line)
<1>1. PICK told \in [0..n -> 0..MaxFrames], added \in [0..n -> 0..MaxFrames] :
        /\ told[0] = a /\ told[n] = c /\ added[0] = b /\ added[n] = d
        /\ \A i \in 0..n : added[i] <= told[i]
        /\ \A i \in 1..n : /\ told[i] = told[i - 1] + O!Tells(lines[i])
                           /\ added[i] = added[i - 1] + O!Adds(lines[i])
                           /\ lines[i].t = "tick" => told[i] = added[i]
  BY DEF O!Books, O!Kept
<1>2. /\ longer \in Seq(O!Lines) /\ Len(longer) = n + 1 /\ n \in Nat
      /\ \A i \in 1..n : longer[i] = lines[i]
      /\ longer[n + 1] = line
  OBVIOUS
<1> HIDE DEF n, longer
<1> DEFINE told2 == [i \in 0..(n + 1) |-> IF i = n + 1 THEN e ELSE told[i]]
           added2 == [i \in 0..(n + 1) |-> IF i = n + 1 THEN f ELSE added[i]]
<1>3. /\ told2[n + 1] = e /\ added2[n + 1] = f
      /\ \A i \in 0..n : told2[i] = told[i] /\ added2[i] = added[i]
  BY <1>2
<1>4. /\ told2 \in [0..(n + 1) -> 0..MaxFrames] /\ added2 \in [0..(n + 1) -> 0..MaxFrames]
  <2>1. \A i \in 0..(n + 1) : i # n + 1 => i \in 0..n
    BY <1>2
  <2> QED  BY <1>1, <2>1
<1> HIDE DEF told2, added2
<1>5. \A i \in 0..(n + 1) : added2[i] <= told2[i]
  <2>1. \A i \in 0..(n + 1) : i = n + 1 \/ i \in 0..n
    BY <1>2
  <2> QED  BY <1>1, <1>3, <2>1
<1>6. ASSUME NEW i \in 1..(n + 1)
      PROVE  /\ told2[i] = told2[i - 1] + O!Tells(longer[i])
             /\ added2[i] = added2[i - 1] + O!Adds(longer[i])
             /\ longer[i].t = "tick" => told2[i] = added2[i]
  <2>1. CASE i = n + 1
    <3>1. i - 1 = n /\ n \in 0..n
      BY <1>2, <2>1
    <3>2. told2[i - 1] = c /\ added2[i - 1] = d
      BY <1>1, <1>3, <3>1
    <3> QED  BY <1>2, <1>3, <2>1, <3>2
  <2>2. CASE i # n + 1
    <3>1. i \in 1..n /\ i \in 0..n /\ i - 1 \in 0..n
      BY <1>2, <2>2
    <3>2. /\ told2[i] = told[i] /\ told2[i - 1] = told[i - 1] /\ added2[i] = added[i]
          /\ added2[i - 1] = added[i - 1] /\ longer[i] = lines[i]
      BY <1>2, <1>3, <3>1
    <3> QED  BY <1>1, <3>1, <3>2
  <2> QED  BY <2>1, <2>2
<1>7. told2[0] = a /\ added2[0] = b
  <2>1. 0 \in 0..n
    BY <1>2
  <2> QED  BY <1>1, <1>3, <2>1
<1>8. O!Books(longer, a, b, e, f)
  <2>1. /\ told2 \in [0..Len(longer) -> 0..MaxFrames]
        /\ added2 \in [0..Len(longer) -> 0..MaxFrames]
        /\ told2[0] = a /\ told2[Len(longer)] = e /\ added2[0] = b /\ added2[Len(longer)] = f
    BY <1>2, <1>3, <1>4, <1>7
  <2>2. O!Kept(longer, told2, added2)
    <3>1. \A i \in 0..Len(longer) : added2[i] <= told2[i]
      BY <1>2, <1>5
    <3>2. \A i \in 1..Len(longer) : /\ told2[i] = told2[i - 1] + O!Tells(longer[i])
                                    /\ added2[i] = added2[i - 1] + O!Adds(longer[i])
                                    /\ longer[i].t = "tick" => told2[i] = added2[i]
      BY <1>2, <1>6
    <3> QED  BY <3>1, <3>2 DEF O!Kept
  <2> QED  BY <2>1, <2>2 DEF O!Books
<1> QED  BY <1>2, <1>8 DEF longer

(* The first line has been read.                                           *)
LEMMA PacketsRestOfBooks ==
  ASSUME NEW lines \in Seq(O!Lines), lines # <<>>, NEW a, NEW b, NEW c, NEW d,
         O!Books(lines, a, b, c, d)
  PROVE  LET line == Head(lines)
             e == a + O!Tells(line)
             f == b + O!Adds(line)
         IN /\ line \in O!Lines /\ line = lines[1] /\ Tail(lines) \in Seq(O!Lines)
            /\ e \in 0..MaxFrames /\ f \in 0..MaxFrames /\ f <= e
            /\ line.t = "tick" => e = f
            /\ O!Books(Tail(lines), e, f, c, d)
<1> DEFINE n == Len(lines)
           line == Head(lines)
           rest == Tail(lines)
           e == a + O!Tells(line)
           f == b + O!Adds(line)
<1>1. PICK told \in [0..n -> 0..MaxFrames], added \in [0..n -> 0..MaxFrames] :
        /\ told[0] = a /\ told[n] = c /\ added[0] = b /\ added[n] = d
        /\ \A i \in 0..n : added[i] <= told[i]
        /\ \A i \in 1..n : /\ told[i] = told[i - 1] + O!Tells(lines[i])
                           /\ added[i] = added[i - 1] + O!Adds(lines[i])
                           /\ lines[i].t = "tick" => told[i] = added[i]
  BY DEF O!Books, O!Kept
<1>2. /\ n \in Nat \ {0} /\ line \in O!Lines /\ line = lines[1]
      /\ rest \in Seq(O!Lines) /\ Len(rest) = n - 1
      /\ \A i \in 1..(n - 1) : rest[i] = lines[i + 1]
  OBVIOUS
<1> HIDE DEF n, line, rest
<1>3. told[1] = e /\ added[1] = f /\ 1 \in 0..n /\ (line.t = "tick" => e = f)
  <2>1. 1 \in 1..n /\ 1 - 1 = 0 /\ 1 \in 0..n
    BY <1>2
  <2>2. told[1] = e /\ added[1] = f
    BY <1>1, <1>2, <2>1
  <2> HIDE DEF e, f
  <2> QED  BY <1>1, <1>2, <2>1, <2>2
<1> HIDE DEF e, f
<1>4. e \in 0..MaxFrames /\ f \in 0..MaxFrames /\ f <= e
  BY <1>1, <1>3
<1> DEFINE told2 == [i \in 0..(n - 1) |-> told[i + 1]]
           added2 == [i \in 0..(n - 1) |-> added[i + 1]]
<1>5. \A i \in 0..(n - 1) : i + 1 \in 0..n /\ i + 1 \in 1..n
  BY <1>2
<1>6. told2 \in [0..(n - 1) -> 0..MaxFrames] /\ added2 \in [0..(n - 1) -> 0..MaxFrames]
  BY <1>1, <1>5
<1>7. \A i \in 0..(n - 1) : told2[i] = told[i + 1] /\ added2[i] = added[i + 1]
  OBVIOUS
<1> HIDE DEF told2, added2
<1>8. \A i \in 0..(n - 1) : added2[i] <= told2[i]
  BY <1>1, <1>5, <1>7
<1>9. ASSUME NEW i \in 1..(n - 1)
      PROVE  /\ told2[i] = told2[i - 1] + O!Tells(rest[i])
             /\ added2[i] = added2[i - 1] + O!Adds(rest[i])
             /\ rest[i].t = "tick" => told2[i] = added2[i]
  <2>1. i \in 0..(n - 1) /\ i - 1 \in 0..(n - 1) /\ i - 1 + 1 = i /\ i + 1 \in 1..n
        /\ i + 1 - 1 = i
    BY <1>2
  <2>2. /\ told2[i] = told[i + 1] /\ told2[i - 1] = told[i] /\ added2[i] = added[i + 1]
        /\ added2[i - 1] = added[i] /\ rest[i] = lines[i + 1]
    BY <1>2, <1>7, <2>1
  <2> QED  BY <1>1, <2>1, <2>2
<1>10. told2[0] = e /\ added2[0] = f /\ told2[n - 1] = c /\ added2[n - 1] = d
  <2>1. 0 \in 0..(n - 1) /\ n - 1 \in 0..(n - 1) /\ 0 + 1 = 1 /\ n - 1 + 1 = n
    BY <1>2
  <2> QED  BY <1>1, <1>3, <1>7, <2>1
<1>11. O!Books(rest, e, f, c, d)
  <2>1. /\ told2 \in [0..Len(rest) -> 0..MaxFrames]
        /\ added2 \in [0..Len(rest) -> 0..MaxFrames]
        /\ told2[0] = e /\ told2[Len(rest)] = c /\ added2[0] = f /\ added2[Len(rest)] = d
    BY <1>2, <1>6, <1>10
  <2>2. O!Kept(rest, told2, added2)
    <3>1. \A i \in 0..Len(rest) : added2[i] <= told2[i]
      BY <1>2, <1>8
    <3>2. \A i \in 1..Len(rest) : /\ told2[i] = told2[i - 1] + O!Tells(rest[i])
                                  /\ added2[i] = added2[i - 1] + O!Adds(rest[i])
                                  /\ rest[i].t = "tick" => told2[i] = added2[i]
      BY <1>2, <1>9
    <3> QED  BY <3>1, <3>2 DEF O!Kept
  <2> QED  BY <2>1, <2>2 DEF O!Books
<1> QED  BY <1>2, <1>3, <1>4, <1>11 DEF line, rest, e, f

(* A table of flows that counts no more than n packets of each.            *)
PacketsTable(flows, n) == flows \in O!FlowTables /\ \A f \in DOMAIN flows : flows[f] <= n
(* Flows that have each counted up to n packets are such a table.          *)
LEMMA PacketsTableIs ==
  ASSUME NEW flows, NEW n \in 0..MaxFrames, DOMAIN flows \subseteq Conversations,
         flows = [f \in DOMAIN flows |-> flows[f]], \A f \in DOMAIN flows : flows[f] \in 1..n
  PROVE  PacketsTable(flows, n)
<1>1. MaxFrames \in Nat
  BY PacketsAssumption DEF O!PacketsSane
<1>2. \A f \in DOMAIN flows : flows[f] \in 1..MaxFrames /\ flows[f] <= n
  BY <1>1
<1>3. flows \in [DOMAIN flows -> 1..MaxFrames]
  BY <1>2
<1> QED  BY <1>2, <1>3 DEF PacketsTable, O!FlowTables

(* ... and a table has nothing else.                                       *)
LEMMA PacketsTableHas ==
  ASSUME NEW flows, NEW n \in 0..MaxFrames, PacketsTable(flows, n)
  PROVE  DOMAIN flows \subseteq Conversations /\ \A f \in DOMAIN flows : flows[f] \in 1..n
<1>1. PICK some \in SUBSET Conversations : flows \in [some -> 1..MaxFrames]
  BY DEF PacketsTable, O!FlowTables
<1>2. MaxFrames \in Nat
  BY PacketsAssumption DEF O!PacketsSane
<1> QED  BY <1>1, <1>2 DEF PacketsTable

(* A packet is added to its flow.                                          *)
LEMMA PacketsPlusIs ==
  ASSUME NEW flows, NEW n \in 0..MaxFrames, n + 1 \in 0..MaxFrames, PacketsTable(flows, n),
         NEW f \in Conversations
  PROVE  PacketsTable(O!Plus(flows, f, 1), n + 1)
<1> DEFINE new == O!Plus(flows, f, 1)
<1>1. /\ new = [g \in DOMAIN flows \cup {f} |-> (IF g \in DOMAIN flows THEN flows[g] ELSE 0) +
                                                (IF g = f THEN 1 ELSE 0)]
  BY DEF O!Plus
<1>2. DOMAIN flows \subseteq Conversations /\ \A g \in DOMAIN flows : flows[g] \in 1..n
  BY PacketsTableHas
<1> HIDE DEF new
<1>3. \A g \in DOMAIN new : new[g] \in 1..(n + 1)
  <2> SUFFICES ASSUME NEW g \in DOMAIN flows \cup {f} PROVE new[g] \in 1..(n + 1)
    BY <1>1
  <2>1. CASE g \in DOMAIN flows
    BY <1>1, <1>2, <2>1
  <2>2. CASE g \notin DOMAIN flows
    BY <1>1, <2>2
  <2> QED  BY <2>1, <2>2
<1>4. DOMAIN new \subseteq Conversations /\ new = [g \in DOMAIN new |-> new[g]]
  BY <1>1, <1>2
<1>5. PacketsTable(new, n + 1)
  BY <1>3, <1>4, PacketsTableIs
<1> QED  BY <1>5 DEF new

(* The flows of a tick are added to those of the job.                      *)
LEMMA PacketsAddIs ==
  ASSUME NEW flows, NEW line, NEW kept, NEW m \in 0..MaxFrames, NEW n \in 0..MaxFrames,
         m + n \in 0..MaxFrames, PacketsTable(flows, m), PacketsTable(line.flows, n),
         kept \subseteq DOMAIN line.flows
  PROVE  PacketsTable(O!AddFlows(flows, line, kept), m + n)
<1> DEFINE new == O!AddFlows(flows, line, kept)
<1>1. new = [f \in DOMAIN flows \cup kept |->
               (IF f \in DOMAIN flows THEN flows[f] ELSE 0) +
               (IF f \in DOMAIN line.flows THEN line.flows[f] ELSE 0)]
  BY DEF O!AddFlows
<1>2. /\ DOMAIN flows \subseteq Conversations /\ \A g \in DOMAIN flows : flows[g] \in 1..m
      /\ DOMAIN line.flows \subseteq Conversations
      /\ \A g \in DOMAIN line.flows : line.flows[g] \in 1..n
  BY PacketsTableHas
<1> HIDE DEF new
<1>3. \A g \in DOMAIN new : new[g] \in 1..(m + n)
  <2> SUFFICES ASSUME NEW g \in DOMAIN flows \cup kept PROVE new[g] \in 1..(m + n)
    BY <1>1
  <2> DEFINE x == IF g \in DOMAIN flows THEN flows[g] ELSE 0
             y == IF g \in DOMAIN line.flows THEN line.flows[g] ELSE 0
  <2>1. new[g] = x + y
    BY <1>1
  <2>2. x \in 0..m /\ y \in 0..n /\ (x >= 1 \/ y >= 1)
    BY <1>2
  <2> HIDE DEF x, y
  <2> QED  BY <2>1, <2>2
<1>4. DOMAIN new \subseteq Conversations /\ new = [g \in DOMAIN new |-> new[g]]
  BY <1>1, <1>2
<1>5. PacketsTable(new, m + n)
  BY <1>3, <1>4, PacketsTableIs
<1> QED  BY <1>5 DEF new

(* The types of the record fields.                                         *)
LEMMA PacketsFieldsAre ==
  ASSUME O!TypeOK
  PROVE  /\ pktHelper.pkts \in 0..MaxFrames /\ pktHelper.skipped \in 0..MaxFrames
         /\ pktHelper.sent \in 0..MAX_PPS /\ pktHelper.secondStart \in 0..Deadline
         /\ pktHelper.tickAt \in 0..(Deadline + Second) /\ pktHelper.flows \in O!FlowTables
         /\ pktJob.seq \in 0..MaxFrames /\ pktJob.packets \in Seq(1..MaxFrames)
         /\ pktJob.pkts \in 0..MaxFrames /\ pktJob.unlisted \in 0..MaxFrames
         /\ pktJob.flows \in O!FlowTables
         /\ pktMono \in 0..Deadline /\ pktFrames \in 0..MaxFrames /\ pktWire \in Seq(O!Lines)
         /\ pktViewer.last \in 0..MaxFrames /\ pktViewer.has \in SUBSET (1..MaxFrames)
         /\ MaxFrames \in Nat /\ Deadline \in Nat /\ Second \in Nat
         /\ MAX_PPS \in Nat \ {0} /\ MAX_PACKETS \in Nat \ {0}
  BY PacketsAssumption DEF O!TypeOK, O!PacketsSane

(* The tick that is due ends a part of the books.                          *)
LEMMA PacketsTickedIs ==
  ASSUME O!BooksTrue, NEW top \in SUBSET DOMAIN pktHelper.flows
  PROVE  LET told == pktFrames - O!Ticked.skipped
             added == pktFrames - O!Ticked.pkts
             lines == IF O!TickDue THEN Append(pktWire, O!TickLine(top)) ELSE pktWire
         IN /\ lines \in Seq(O!Lines)
            /\ O!Books(lines, pktJob.seq + pktJob.unlisted, pktJob.pkts, told, added)
            /\ \A i \in DOMAIN lines : lines[i].t = "tick" => O!CountedIn(lines[i])
            /\ O!Ticked.pkts \in 0..pktFrames /\ O!Ticked.skipped \in 0..O!Ticked.pkts
            /\ PacketsTable(O!Ticked.flows, O!Ticked.pkts)
            /\ O!Ticked.sent = pktHelper.sent /\ O!Ticked.secondStart = pktHelper.secondStart
            /\ O!Ticked.tickAt \in 0..(Deadline + Second) /\ O!Ticked.runs = pktHelper.runs
            /\ O!Ticked = [runs |-> O!Ticked.runs, pkts |-> O!Ticked.pkts,
                 flows |-> O!Ticked.flows,
                           skipped |-> O!Ticked.skipped, sent |-> O!Ticked.sent,
                           secondStart |-> O!Ticked.secondStart, tickAt |-> O!Ticked.tickAt]
<1> DEFINE a == pktJob.seq + pktJob.unlisted
           b == pktJob.pkts
           told == pktFrames - pktHelper.skipped
           added == pktFrames - pktHelper.pkts
<1>1. O!TypeOK /\ O!CountedIn(pktHelper) /\ O!Books(pktWire, a, b, told, added)
      /\ \A i \in DOMAIN pktWire : pktWire[i].t = "tick" => O!CountedIn(pktWire[i])
  BY DEF O!BooksTrue
<1>2. /\ told \in 0..MaxFrames /\ added \in 0..MaxFrames /\ added <= told
      /\ pktHelper.pkts \in 0..pktFrames /\ pktHelper.skipped \in 0..pktHelper.pkts
  <2>1. /\ pktHelper.pkts \in 0..MaxFrames /\ pktHelper.skipped \in 0..MaxFrames
        /\ pktFrames \in 0..MaxFrames /\ MaxFrames \in Nat /\ pktWire \in Seq(O!Lines)
    BY <1>1, PacketsFieldsAre
  <2>2. told \in 0..MaxFrames /\ added \in 0..MaxFrames /\ added <= told
    BY <1>1, <2>1, PacketsBooksAre
  <2> QED  BY <2>1, <2>2
<1>3. PacketsTable(pktHelper.flows, pktHelper.pkts)
  BY <1>1, PacketsFieldsAre DEF PacketsTable, O!CountedIn
<1>4. pktHelper \in [runs : BOOLEAN, pkts : 0..MaxFrames, flows : O!FlowTables,
      skipped : 0..MaxFrames,
                    sent : 0..MAX_PPS, secondStart : 0..Deadline, tickAt : 0..(Deadline + Second)]
  BY <1>1 DEF O!TypeOK
<1>5. CASE ~O!TickDue
  <2>1. O!Ticked = pktHelper
    BY <1>5 DEF O!Ticked
  <2>2. pktHelper.tickAt \in 0..(Deadline + Second)
    BY <1>1, PacketsFieldsAre
  <2>3. pktHelper = [runs |-> pktHelper.runs, pkts |-> pktHelper.pkts, flows |-> pktHelper.flows,
                     skipped |-> pktHelper.skipped, sent |-> pktHelper.sent,
                     secondStart |-> pktHelper.secondStart, tickAt |-> pktHelper.tickAt]
    BY <1>4
  <2>4. pktWire \in Seq(O!Lines)
    BY <1>1, PacketsFieldsAre
  <2> QED  BY <1>1, <1>2, <1>3, <1>5, <2>1, <2>2, <2>3, <2>4
<1>6. CASE O!TickDue
  <2> DEFINE line == O!TickLine(top)
             flows == [f \in top |-> pktHelper.flows[f]]
  <2>1. O!Ticked = [pktHelper EXCEPT !.pkts = 0, !.flows = O!NoFlows, !.skipped = 0,
                                     !.tickAt = pktMono + Second]
    BY <1>6 DEF O!Ticked
  <2>2. /\ O!Ticked.pkts = 0 /\ O!Ticked.skipped = 0 /\ O!Ticked.flows = O!NoFlows
        /\ O!Ticked.sent = pktHelper.sent /\ O!Ticked.secondStart = pktHelper.secondStart
        /\ O!Ticked.tickAt = pktMono + Second /\ O!Ticked.runs = pktHelper.runs
        /\ O!Ticked = [runs |-> O!Ticked.runs, pkts |-> O!Ticked.pkts, flows |-> O!Ticked.flows,
                       skipped |-> O!Ticked.skipped, sent |-> O!Ticked.sent,
                       secondStart |-> O!Ticked.secondStart, tickAt |-> O!Ticked.tickAt]
    BY <1>4, <2>1
  <2>3. pktMono + Second \in 0..(Deadline + Second) /\ 0 \in 0..pktFrames
        /\ pktFrames \in 0..MaxFrames
    <3>1. /\ pktMono \in 0..Deadline /\ pktFrames \in 0..MaxFrames /\ MaxFrames \in Nat
          /\ Deadline \in Nat /\ Second \in Nat
      BY <1>1, PacketsFieldsAre
    <3> QED  BY <3>1
  <2>4. PacketsTable(O!NoFlows, 0)
    <3>1. DOMAIN O!NoFlows = {} /\ O!NoFlows = [f \in DOMAIN O!NoFlows |-> O!NoFlows[f]]
      BY DEF O!NoFlows
    <3>2. 0 \in 0..MaxFrames
      BY PacketsAssumption DEF O!PacketsSane
    <3> QED  BY <3>1, <3>2, PacketsTableIs
  <2>5. PacketsTable(flows, pktHelper.pkts)
    <3>1. DOMAIN pktHelper.flows \subseteq Conversations
          /\ \A f \in DOMAIN pktHelper.flows : pktHelper.flows[f] \in 1..pktHelper.pkts
      BY <1>1, <1>3, PacketsFieldsAre, PacketsTableHas
    <3>2. pktHelper.pkts \in 0..MaxFrames
      BY <1>1, PacketsFieldsAre
    <3> QED  BY <3>1, <3>2, PacketsTableIs
  <2>6. line = [t |-> "tick", pkts |-> pktHelper.pkts, skipped |-> pktHelper.skipped,
        flows |-> flows]
    BY DEF O!TickLine
  <2>7. flows \in O!FlowTables /\ \A f \in DOMAIN flows : flows[f] <= pktHelper.pkts
    BY <2>5 DEF PacketsTable
  <2> HIDE DEF line, flows
  <2>8. line \in O!Lines /\ line.t = "tick" /\ O!CountedIn(line)
    <3>1. pktHelper.pkts \in 0..MaxFrames /\ pktHelper.skipped \in 0..MaxFrames
      BY <1>1, PacketsFieldsAre
    <3> QED  BY <2>6, <2>7, <3>1 DEF O!Lines, O!CountedIn
  <2>9. O!Tells(line) = pktHelper.skipped /\ O!Adds(line) = pktHelper.pkts
    BY <2>6, <2>8 DEF O!Tells, O!Adds
  <2>10. pktFrames = told + O!Tells(line) /\ pktFrames = added + O!Adds(line)
         /\ pktFrames <= pktFrames
    <3>1. pktHelper.pkts \in 0..MaxFrames /\ pktHelper.skipped \in 0..MaxFrames
          /\ MaxFrames \in Nat
      BY <1>1, PacketsFieldsAre
    <3> QED  BY <2>3, <2>9, <3>1
  <2> HIDE DEF a, b, told, added
  <2>11. pktWire \in Seq(O!Lines)
    BY <1>1, PacketsFieldsAre
  <2>12. Append(pktWire, line) \in Seq(O!Lines)
         /\ O!Books(Append(pktWire, line), a, b, pktFrames, pktFrames)
    BY <1>1, <2>3, <2>8, <2>10, <2>11, PacketsLongerBooks
  <2>13. \A i \in DOMAIN Append(pktWire, line) :
           Append(pktWire, line)[i].t = "tick" => O!CountedIn(Append(pktWire, line)[i])
    <3>1. \A i \in DOMAIN Append(pktWire, line) :
            \/ i \in DOMAIN pktWire /\ Append(pktWire, line)[i] = pktWire[i]
            \/ Append(pktWire, line)[i] = line
      BY <2>11
    <3> QED  BY <1>1, <2>8, <3>1
  <2>14. pktFrames - O!Ticked.skipped = pktFrames /\ pktFrames - O!Ticked.pkts = pktFrames
    BY <2>2, <2>3
  <2>15. O!Ticked.pkts \in 0..pktFrames /\ O!Ticked.skipped \in 0..O!Ticked.pkts
         /\ PacketsTable(O!Ticked.flows, O!Ticked.pkts)
    BY <2>2, <2>3, <2>4
  <2>16. O!Ticked.tickAt \in 0..(Deadline + Second)
    BY <2>2, <2>3
  <2> QED  BY <1>6, <2>2, <2>12, <2>13, <2>14, <2>15, <2>16 DEF line, a, b
<1> QED  BY <1>5, <1>6

(* A turn of the helper's loop.                                            *)
LEMMA PacketsTurnKeeps ==
  ASSUME O!BooksTrue, NEW f \in Conversations \cup {"nothing"}, O!Turn(f)
  PROVE  O!BooksTrue'
<1>1. PICK top \in SUBSET DOMAIN pktHelper.flows :
        /\ IF O!TickDue THEN O!Busiest(top) ELSE top = {}
        /\ pktCut' = (pktCut \/ (O!TickDue /\ top # DOMAIN pktHelper.flows))
        /\ pktWire' = pktWire \o (IF O!TickDue THEN <<O!TickLine(top)>> ELSE <<>>)
                              \o IF f # "nothing"
                              /\ ~O!Full(O!Ticked) THEN <<[t |-> "pkt"]>> ELSE <<>>
  BY DEF O!Turn
<1>2. /\ pktHelper' = IF f = "nothing" THEN O!Ticked ELSE O!Counted(O!Ticked, f)
      /\ pktFrames' = pktFrames + (IF f = "nothing" THEN 0 ELSE 1)
      /\ UNCHANGED <<pktMono, pktJob, pktViewer>>
      /\ f # "nothing" => pktFrames < MaxFrames
  BY DEF O!Turn
<1>3. O!TypeOK
  BY DEF O!BooksTrue
<1>4. /\ pktFrames \in 0..MaxFrames /\ MaxFrames \in Nat /\ pktMono \in 0..Deadline
      /\ Deadline \in Nat
      /\ MAX_PPS \in Nat \ {0} /\ pktWire \in Seq(O!Lines) /\ pktHelper.sent \in 0..MAX_PPS
      /\ pktHelper.secondStart \in 0..Deadline
  BY <1>3, PacketsFieldsAre
<1> DEFINE h == O!Ticked
           lines == IF O!TickDue THEN Append(pktWire, O!TickLine(top)) ELSE pktWire
           a == pktJob.seq + pktJob.unlisted
           b == pktJob.pkts
           told == pktFrames - h.skipped
           added == pktFrames - h.pkts
           pkt == [t |-> "pkt"]
<1>5. /\ lines \in Seq(O!Lines) /\ O!Books(lines, a, b, told, added)
      /\ \A i \in DOMAIN lines : lines[i].t = "tick" => O!CountedIn(lines[i])
      /\ h.pkts \in 0..pktFrames /\ h.skipped \in 0..h.pkts /\ PacketsTable(h.flows, h.pkts)
      /\ h.sent = pktHelper.sent /\ h.secondStart = pktHelper.secondStart
      /\ h.tickAt \in 0..(Deadline + Second) /\ h.runs = pktHelper.runs
      /\ h = [runs |-> h.runs, pkts |-> h.pkts, flows |-> h.flows, skipped |-> h.skipped,
              sent |-> h.sent, secondStart |-> h.secondStart, tickAt |-> h.tickAt]
  BY PacketsTickedIs
<1>6. h.runs \in BOOLEAN
  BY <1>3, <1>5 DEF O!TypeOK
<1>7. pktWire' = lines \o IF f # "nothing" /\ ~O!Full(h) THEN <<pkt>> ELSE <<>>
  <2>1. pktWire \o (IF O!TickDue THEN <<O!TickLine(top)>> ELSE <<>>) = lines
    <3>1. CASE O!TickDue
      BY <1>4, <3>1
    <3>2. CASE ~O!TickDue
      BY <1>4, <3>2
    <3> QED  BY <3>1, <3>2
  <2> HIDE DEF lines, h
  <2> QED  BY <1>1, <2>1 DEF h
<1>8. pktCut' \in BOOLEAN
  BY <1>1, <1>3 DEF O!TypeOK
<1> HIDE DEF h, lines, a, b
<1>9. /\ pktHelper' \in [runs : BOOLEAN, pkts : 0..MaxFrames, flows : O!FlowTables,
                        skipped : 0..MaxFrames, sent : 0..MAX_PPS, secondStart : 0..Deadline,
                        tickAt : 0..(Deadline + Second)]
      /\ PacketsTable(pktHelper'.flows, pktHelper'.pkts)
      /\ pktWire' \in Seq(O!Lines) /\ pktFrames' \in 0..MaxFrames
      /\ O!Books(pktWire', a, b, pktFrames' - pktHelper'.skipped, pktFrames' - pktHelper'.pkts)
      /\ \A i \in DOMAIN pktWire' : pktWire'[i].t = "tick" => O!CountedIn(pktWire'[i])
  <2>1. CASE f = "nothing"
    <3>1. pktHelper' = h /\ pktFrames' = pktFrames /\ pktWire' = lines
      <4>1. lines \o <<>> = lines
        BY <1>5
      <4> QED  BY <1>2, <1>4, <1>7, <2>1, <4>1 DEF h
    <3>2. /\ h.pkts \in 0..MaxFrames /\ h.skipped \in 0..MaxFrames /\ h.flows \in O!FlowTables
          /\ h.sent \in 0..MAX_PPS /\ h.secondStart \in 0..Deadline
      BY <1>4, <1>5 DEF PacketsTable
    <3>3. h \in [runs : BOOLEAN, pkts : 0..MaxFrames, flows : O!FlowTables,
                 skipped : 0..MaxFrames, sent : 0..MAX_PPS, secondStart : 0..Deadline,
                 tickAt : 0..(Deadline + Second)]
      BY <1>5, <1>6, <3>2
    <3> QED  BY <1>4, <1>5, <3>1, <3>3
  <2>2. CASE f # "nothing"
    <3> DEFINE full == O!Full(h)
               new == O!Counted(h, f)
    <3>1. /\ new = [h EXCEPT !.pkts = h.pkts + 1, !.flows = O!Plus(h.flows, f, 1),
                            !.secondStart = IF O!NewSecond(h) THEN pktMono ELSE h.secondStart,
                            !.sent = IF O!NewSecond(h) THEN 1
                                     ELSE IF full THEN h.sent ELSE h.sent + 1,
                            !.skipped = IF full THEN h.skipped + 1 ELSE h.skipped]
          /\ pktHelper' = new /\ pktFrames' = pktFrames + 1 /\ pktFrames < MaxFrames
          /\ f \in Conversations
      BY <1>2, <2>2 DEF O!Counted, h
    <3> HIDE DEF full, new
    <3>2. /\ new.runs = h.runs /\ new.pkts = h.pkts + 1 /\ new.flows = O!Plus(h.flows, f, 1)
          /\ new.secondStart = IF O!NewSecond(h) THEN pktMono ELSE h.secondStart
          /\ new.sent = IF O!NewSecond(h) THEN 1 ELSE IF full THEN h.sent ELSE h.sent + 1
          /\ new.skipped = IF full THEN h.skipped + 1 ELSE h.skipped
          /\ new.tickAt = h.tickAt
          /\ new = [runs |-> new.runs, pkts |-> new.pkts, flows |-> new.flows,
                    skipped |-> new.skipped, sent |-> new.sent, secondStart |-> new.secondStart,
                    tickAt |-> new.tickAt]
      BY <1>5, <3>1
    <3>3. pktFrames' \in 0..MaxFrames /\ new.pkts \in 0..MaxFrames /\ new.skipped \in 0..MaxFrames
      <4>1. /\ pktFrames \in 0..MaxFrames /\ MaxFrames \in Nat /\ pktFrames' = pktFrames + 1
            /\ pktFrames < MaxFrames
        BY <1>4, <3>1
      <4>2. /\ h.pkts \in 0..pktFrames /\ h.skipped \in 0..h.pkts
            /\ new.pkts = h.pkts + 1 /\ new.skipped \in {h.skipped, h.skipped + 1}
        BY <1>5, <3>2
      <4> QED  BY <4>1, <4>2
    <3>4. PacketsTable(new.flows, new.pkts)
      <4>1. h.pkts \in 0..MaxFrames /\ h.pkts + 1 \in 0..MaxFrames
        BY <1>4, <1>5, <3>1
      <4> QED  BY <1>5, <3>1, <3>2, <4>1, PacketsPlusIs
    <3>5. new.sent \in 0..MAX_PPS
      <4>1. ~full => O!NewSecond(h) \/ ~(h.sent >= MAX_PPS)
        BY DEF full, O!Full
      <4>2. /\ h.sent \in 0..MAX_PPS /\ MAX_PPS \in Nat \ {0}
            /\ new.sent = IF O!NewSecond(h) THEN 1 ELSE IF full THEN h.sent ELSE h.sent + 1
        BY <1>4, <1>5, <3>2
      <4>3. CASE O!NewSecond(h)
        BY <4>2, <4>3
      <4>4. CASE ~O!NewSecond(h) /\ full
        BY <4>2, <4>4
      <4>5. CASE ~O!NewSecond(h) /\ ~full
        <5>1. ~(h.sent >= MAX_PPS) /\ new.sent = h.sent + 1
          BY <4>1, <4>2, <4>5
        <5> QED  BY <4>2, <5>1
      <4> QED  BY <4>3, <4>4, <4>5
    <3>6. new.secondStart \in 0..Deadline
      BY <1>4, <1>5, <3>2
    <3>7. new \in [runs : BOOLEAN, pkts : 0..MaxFrames, flows : O!FlowTables,
                   skipped : 0..MaxFrames, sent : 0..MAX_PPS, secondStart : 0..Deadline,
                   tickAt : 0..(Deadline + Second)]
      BY <1>5, <1>6, <3>2, <3>3, <3>4, <3>5, <3>6 DEF PacketsTable
    <3>8. CASE full
      <4>1. pktWire' = lines
        <5>1. lines \o <<>> = lines
          BY <1>5
        <5> QED  BY <1>7, <3>8, <5>1 DEF full
      <4>2. pktFrames' - new.skipped = told /\ pktFrames' - new.pkts = added
        <5>1. /\ new.skipped = h.skipped + 1 /\ new.pkts = h.pkts + 1
              /\ pktFrames' = pktFrames + 1
          BY <3>1, <3>2, <3>8
        <5>2. pktFrames \in Int /\ h.skipped \in Int /\ h.pkts \in Int
          <6>1. pktFrames \in 0..MaxFrames /\ h.pkts \in 0..pktFrames /\ h.skipped \in 0..h.pkts
            BY <1>4, <1>5
          <6> QED  BY <6>1
        <5> QED  BY <5>1, <5>2
      <4> QED  BY <1>5, <3>1, <3>3, <3>4, <3>7, <4>1, <4>2
    <3>9. CASE ~full
      <4>1. pktWire' = Append(lines, pkt)
        <5>1. lines \o <<pkt>> = Append(lines, pkt)
          BY <1>5
        <5> QED  BY <1>7, <2>2, <3>9, <5>1 DEF full
      <4>2. pkt \in O!Lines /\ pkt.t = "pkt" /\ O!Tells(pkt) = 1 /\ O!Adds(pkt) = 0
        BY DEF O!Lines, O!Tells, O!Adds
      <4> DEFINE e == pktFrames' - new.skipped
                 d == pktFrames' - new.pkts
      <4>3. /\ e = told + 1 /\ d = added + 0 /\ d <= e
            /\ e \in 0..MaxFrames /\ d \in 0..MaxFrames
        <5>1. /\ new.skipped = h.skipped /\ new.pkts = h.pkts + 1 /\ pktFrames' = pktFrames + 1
          BY <3>1, <3>2, <3>9
        <5>2. /\ pktFrames \in 0..MaxFrames /\ h.pkts \in 0..pktFrames /\ h.skipped \in 0..h.pkts
              /\ MaxFrames \in Nat /\ pktFrames < MaxFrames
          BY <1>4, <1>5, <3>1
        <5> QED  BY <5>1, <5>2
      <4> HIDE DEF pkt, e, d, told, added
      <4>4. Append(lines, pkt) \in Seq(O!Lines) /\ O!Books(Append(lines, pkt), a, b, e, d)
        BY <1>5, <4>2, <4>3, PacketsLongerBooks
      <4>5. \A i \in DOMAIN Append(lines, pkt) :
              \/ i \in DOMAIN lines /\ Append(lines, pkt)[i] = lines[i]
              \/ Append(lines, pkt)[i] = pkt
        BY <1>5
      <4>6. \A i \in DOMAIN pktWire' : pktWire'[i].t = "tick" => O!CountedIn(pktWire'[i])
        BY <1>5, <4>1, <4>2, <4>5
      <4> QED  BY <3>1, <3>3, <3>4, <3>7, <4>1, <4>4, <4>6 DEF e, d
    <3> QED  BY <3>8, <3>9
  <2> QED  BY <2>1, <2>2
<1>10. O!CountedIn(pktHelper')
  BY <1>9 DEF PacketsTable, O!CountedIn
<1>11. O!TypeOK'
  BY <1>2, <1>3, <1>8, <1>9 DEF O!TypeOK
<1>12. O!TotalsAgree' /\ O!PollsMissNothing' /\ O!CountedIn(pktJob')
  BY <1>2 DEF O!BooksTrue, O!TotalsAgree, O!PollsMissNothing, O!CountedIn
<1>13. a = pktJob'.seq + pktJob'.unlisted /\ b = pktJob'.pkts
  BY <1>2 DEF a, b
<1>14. O!Books(pktWire', pktJob'.seq + pktJob'.unlisted, pktJob'.pkts,
       pktFrames' - pktHelper'.skipped,
               pktFrames' - pktHelper'.pkts)
  BY <1>9, <1>13
<1>15. pktViewer'.last <= pktJob'.seq
       /\ \A i \in DOMAIN pktJob'.packets : pktJob'.packets[i] <= pktJob'.seq
  BY <1>2 DEF O!BooksTrue
<1> QED  BY <1>9, <1>10, <1>11, <1>12, <1>14, <1>15 DEF O!BooksTrue, O!CountedIn

(* The end of the helper.                                                  *)
LEMMA PacketsEndKeeps ==
  ASSUME O!BooksTrue, O!Finish \/ O!Killed
  PROVE  O!BooksTrue'
<1> DEFINE end == [t |-> "end"]
           a == pktJob.seq + pktJob.unlisted
           b == pktJob.pkts
           c == pktFrames - pktHelper.skipped
           d == pktFrames - pktHelper.pkts
<1>1. /\ pktHelper' = [pktHelper EXCEPT !.runs = FALSE]
      /\ pktWire' = pktWire \/ pktWire' = Append(pktWire, end)
      /\ UNCHANGED <<pktMono, pktJob, pktViewer, pktFrames, pktCut>>
  BY DEF O!Finish, O!Killed
<1>2. O!TypeOK /\ O!Books(pktWire, a, b, c, d) /\ O!CountedIn(pktHelper)
  BY DEF O!BooksTrue
<1>3. pktHelper \in [runs : BOOLEAN, pkts : 0..MaxFrames, flows : O!FlowTables,
                     skipped : 0..MaxFrames, sent : 0..MAX_PPS, secondStart : 0..Deadline,
                     tickAt : 0..(Deadline + Second)]
  BY <1>2 DEF O!TypeOK
<1>4. /\ pktHelper' \in [runs : BOOLEAN, pkts : 0..MaxFrames, flows : O!FlowTables,
                         skipped : 0..MaxFrames, sent : 0..MAX_PPS, secondStart : 0..Deadline,
                         tickAt : 0..(Deadline + Second)]
      /\ pktHelper'.pkts = pktHelper.pkts /\ pktHelper'.flows = pktHelper.flows
      /\ pktHelper'.skipped = pktHelper.skipped
  BY <1>1, <1>3
<1>5. pktWire \in Seq(O!Lines) /\ pktFrames \in Nat /\ pktHelper.skipped \in Nat
      /\ pktHelper.pkts \in Nat
  <2>1. /\ pktWire \in Seq(O!Lines) /\ pktFrames \in 0..MaxFrames
        /\ pktHelper.skipped \in 0..MaxFrames
        /\ pktHelper.pkts \in 0..MaxFrames /\ MaxFrames \in Nat
    BY <1>2, PacketsFieldsAre
  <2> QED  BY <2>1
<1>6. end \in O!Lines /\ end.t = "end" /\ O!Tells(end) = 0 /\ O!Adds(end) = 0
  BY DEF O!Lines, O!Tells, O!Adds
<1>7. c \in 0..MaxFrames /\ d \in 0..MaxFrames /\ d <= c /\ c = c + 0 /\ d = d + 0
  BY <1>2, <1>5, PacketsBooksAre
<1> HIDE DEF end, a, b, c, d
<1>8. pktWire' \in Seq(O!Lines) /\ O!Books(pktWire', a, b, c, d)
  <2>1. Append(pktWire, end) \in Seq(O!Lines) /\ O!Books(Append(pktWire, end), a, b, c, d)
    BY <1>2, <1>5, <1>6, <1>7, PacketsLongerBooks
  <2> QED  BY <1>1, <1>2, <1>5, <2>1
<1>9. \A i \in DOMAIN pktWire' : pktWire'[i].t = "tick" => O!CountedIn(pktWire'[i])
  <2>1. \A i \in DOMAIN Append(pktWire, end) :
          \/ i \in DOMAIN pktWire /\ Append(pktWire, end)[i] = pktWire[i]
          \/ Append(pktWire, end)[i] = end
    BY <1>5
  <2> QED  BY <1>1, <1>6, <2>1 DEF O!BooksTrue
<1>10. O!Books(pktWire', pktJob'.seq + pktJob'.unlisted, pktJob'.pkts,
       pktFrames' - pktHelper'.skipped,
               pktFrames' - pktHelper'.pkts)
  BY <1>1, <1>4, <1>8 DEF a, b, c, d
<1>11. O!TypeOK'
  BY <1>1, <1>2, <1>4, <1>8 DEF O!TypeOK
<1>12. O!TotalsAgree' /\ O!PollsMissNothing' /\ O!CountedIn(pktJob)' /\ O!CountedIn(pktHelper)'
  BY <1>1, <1>2, <1>4 DEF O!BooksTrue, O!TotalsAgree, O!PollsMissNothing, O!CountedIn
<1>13. pktViewer'.last <= pktJob'.seq
       /\ \A i \in DOMAIN pktJob'.packets : pktJob'.packets[i] <= pktJob'.seq
  BY <1>1 DEF O!BooksTrue
<1> QED  BY <1>9, <1>10, <1>11, <1>12, <1>13 DEF O!BooksTrue, O!CountedIn

(* A poll.                                                                 *)
LEMMA PacketsPollKeeps ==
  ASSUME O!BooksTrue, O!Poll
  PROVE  O!BooksTrue'
<1>1. /\ pktViewer' = [last |-> pktJob.seq, has |-> pktViewer.has \cup O!News(pktViewer.last)]
      /\ UNCHANGED <<pktMono, pktHelper, pktWire, pktJob, pktFrames, pktCut>>
  BY DEF O!Poll
<1>2. /\ O!TypeOK /\ pktJob.packets \in Seq(1..MaxFrames) /\ Len(pktJob.packets) <= MAX_PACKETS
      /\ pktJob.seq \in 0..MaxFrames /\ pktViewer.last \in 0..MaxFrames
      /\ pktViewer.has \in SUBSET (1..MaxFrames)
      /\ MAX_PACKETS \in Nat \ {0} /\ MaxFrames \in Nat
  BY PacketsFieldsAre DEF O!BooksTrue, O!TypeOK
<1> DEFINE packets == pktJob.packets
           n == Len(packets)
           new == {i \in DOMAIN packets : packets[i] > pktViewer.last}
<1>3. O!News(pktViewer.last) =
        {packets[i] : i \in {j \in new : Cardinality({k \in new : k > j}) < MAX_PACKETS}}
  BY PacketsCount DEF O!News, O!Limit
<1>4. DOMAIN packets = 1..n /\ n \in Nat /\ n <= MAX_PACKETS
  BY <1>2
<1>5. \A i \in DOMAIN packets : packets[i] \in 1..MaxFrames
  BY <1>2, ElementOfSeq, <1>4
<1> HIDE DEF packets, n
<1>6. ASSUME NEW j \in new PROVE Cardinality({k \in new : k > j}) < MAX_PACKETS
  <2> DEFINE later == {k \in new : k > j}
  <2>1. j \in 1..n /\ later \subseteq (j + 1)..n
    BY <1>4
  <2>2. IsFiniteSet((j + 1)..n) /\ Cardinality((j + 1)..n) = n - j
    <3>1. j + 1 <= n \/ j + 1 = n + 1
      BY <1>4, <2>1
    <3> QED  BY <1>4, <2>1, FS_Interval
  <2>3. Cardinality(later) <= n - j /\ Cardinality(later) \in Nat
    BY <2>1, <2>2, FS_Subset, FS_CardinalityType
  <2> QED  BY <1>2, <1>4, <2>1, <2>3
<1>7. O!News(pktViewer.last) = {packets[i] : i \in new}
  BY <1>3, <1>6
<1>8. pktViewer' \in [last : 0..MaxFrames, has : SUBSET (1..MaxFrames)]
  BY <1>1, <1>2, <1>5, <1>7
<1>9. O!TypeOK'
  BY <1>1, <1>2, <1>8 DEF O!TypeOK
<1>10. O!PollsMissNothing'
  <2> SUFFICES ASSUME NEW i \in DOMAIN packets PROVE packets[i] \in pktViewer'.has
    BY <1>1 DEF O!PollsMissNothing, packets
  <2>1. pktViewer'.has = pktViewer.has \cup {packets[j] : j \in new}
    BY <1>1, <1>7
  <2>2. CASE packets[i] > pktViewer.last
    BY <2>1, <2>2
  <2>3. CASE packets[i] <= pktViewer.last
    <3>1. packets[i] \in pktViewer.has
      BY <2>3 DEF O!BooksTrue, O!PollsMissNothing, packets
    <3> QED  BY <2>1, <3>1
  <2>4. packets[i] > pktViewer.last \/ packets[i] <= pktViewer.last
    BY <1>2, <1>5
  <2> QED  BY <2>2, <2>3, <2>4
<1>11. pktViewer'.last <= pktJob'.seq
  BY <1>1, <1>2
<1>12. /\ O!TotalsAgree' /\ O!CountedIn(pktJob)' /\ O!CountedIn(pktHelper)'
       /\ \A i \in DOMAIN pktWire' : pktWire'[i].t = "tick" => O!CountedIn(pktWire'[i])
       /\ \A i \in DOMAIN pktJob'.packets : pktJob'.packets[i] <= pktJob'.seq
  BY <1>1 DEF O!BooksTrue, O!TotalsAgree, O!CountedIn
<1>13. O!Books(pktWire', pktJob'.seq + pktJob'.unlisted, pktJob'.pkts,
       pktFrames' - pktHelper'.skipped,
               pktFrames' - pktHelper'.pkts)
  BY <1>1 DEF O!BooksTrue
<1> QED  BY <1>9, <1>10, <1>11, <1>12, <1>13 DEF O!BooksTrue, O!CountedIn

(* A packet is appended, and the oldest go.                                *)
LEMMA PacketsNewestIs ==
  ASSUME NEW packets \in Seq(1..MaxFrames), NEW new \in 1..MaxFrames
  PROVE  LET kept == O!Newest(Append(packets, new), MAX_PACKETS)
         IN /\ kept \in Seq(1..MaxFrames) /\ Len(kept) <= MAX_PACKETS
            /\ \A i \in DOMAIN kept :
                 kept[i] = new \/ \E j \in DOMAIN packets : kept[i] = packets[j]
<1> DEFINE longer == Append(packets, new)
           n == Len(longer)
           m == IF n > MAX_PACKETS THEN n - MAX_PACKETS + 1 ELSE 1
           kept == SubSeq(longer, m, n)
<1>1. MAX_PACKETS \in Nat \ {0}
  BY PacketsAssumption DEF O!PacketsSane
<1>2. /\ longer \in Seq(1..MaxFrames) /\ n \in Nat /\ n >= 1 /\ DOMAIN longer = 1..n
      /\ \A i \in 1..n : longer[i] = new \/ \E j \in DOMAIN packets : longer[i] = packets[j]
  OBVIOUS
<1>12. \A i \in 1..n : longer[i] \in 1..MaxFrames
  BY <1>2, ElementOfSeq
<1> HIDE DEF longer, n
<1>3. m \in 1..n /\ n - m + 1 <= MAX_PACKETS /\ n - m + 1 \in Nat
  BY <1>1, <1>2
<1> HIDE DEF m
<1>4. \A i \in m..n : longer[i] \in 1..MaxFrames
  <2>1. \A i \in m..n : i \in 1..n
    BY <1>2, <1>3
  <2> QED  BY <1>12, <2>1
<1>5. /\ kept \in Seq(1..MaxFrames) /\ Len(kept) = n - m + 1
      /\ \A i \in 1..(n - m + 1) : kept[i] = longer[i + m - 1]
  <2>1. kept = [i \in 1..(n - m + 1) |-> longer[i + m - 1]]
    BY <1>2, <1>3
  <2>2. \A i \in 1..(n - m + 1) : i + m - 1 \in m..n
    BY <1>2, <1>3
  <2> DEFINE k == n - m + 1
  <2>3. k \in Nat /\ \A i \in 1..k : longer[i + m - 1] \in 1..MaxFrames
    BY <1>3, <1>4, <2>2
  <2> HIDE DEF kept, k
  <2>4. kept = [i \in 1..k |-> longer[i + m - 1]]
    BY <2>1 DEF k
  <2>5. kept \in Seq(1..MaxFrames) /\ Len(kept) = k /\ \A i \in 1..k : kept[i] = longer[i + m - 1]
    BY <2>3, <2>4
  <2> QED  BY <2>5 DEF k
<1>6. \A i \in 1..(n - m + 1) : i + m - 1 \in 1..n
  BY <1>2, <1>3
<1>7. DOMAIN kept = 1..(n - m + 1)
  BY <1>3, <1>5
<1> HIDE DEF kept
<1>8. \A i \in DOMAIN kept : kept[i] = new \/ \E j \in DOMAIN packets : kept[i] = packets[j]
  BY <1>2, <1>5, <1>6, <1>7
<1>9. kept = O!Newest(Append(packets, new), MAX_PACKETS)
  BY DEF kept, m, n, longer, O!Newest
<1> QED  BY <1>3, <1>5, <1>8, <1>9

(* The next line is added up.                                              *)
LEMMA PacketsApplyKeeps ==
  ASSUME O!BooksTrue, O!Apply
  PROVE  O!BooksTrue'
<1> DEFINE line == Head(pktWire)
           e == pktJob.seq + pktJob.unlisted + O!Tells(line)
           f == pktJob.pkts + O!Adds(line)
           c == pktFrames - pktHelper.skipped
           d == pktFrames - pktHelper.pkts
<1>1. /\ pktWire # <<>> /\ pktWire' = Tail(pktWire) /\ UNCHANGED <<pktMono, pktHelper, pktViewer,
           pktFrames>>
      /\ \/ line.t = "pkt" /\ O!ApplyPacket
         \/ line.t = "tick" /\ O!ApplyTick(line)
         \/ line.t = "end" /\ pktJob' = [pktJob EXCEPT !.added = "end"] /\ UNCHANGED pktCut
  BY DEF O!Apply
<1>2. O!TypeOK /\ O!Books(pktWire, pktJob.seq + pktJob.unlisted, pktJob.pkts, c, d)
      /\ O!TotalsAgree
  BY DEF O!BooksTrue
<1>3. /\ pktJob.seq \in 0..MaxFrames /\ pktJob.packets \in Seq(1..MaxFrames)
      /\ pktJob.pkts \in 0..MaxFrames /\ pktJob.unlisted \in 0..MaxFrames
      /\ pktJob.flows \in O!FlowTables /\ pktWire \in Seq(O!Lines)
      /\ pktViewer.last \in 0..MaxFrames
      /\ MaxFrames \in Nat /\ MAX_PACKETS \in Nat \ {0}
  BY <1>2, PacketsFieldsAre
<1>4. /\ line \in O!Lines /\ line = pktWire[1] /\ pktWire' \in Seq(O!Lines)
      /\ e \in 0..MaxFrames /\ f \in 0..MaxFrames /\ f <= e
      /\ line.t = "tick" => e = f
      /\ O!Books(pktWire', e, f, c, d)
  BY <1>1, <1>2, <1>3, PacketsRestOfBooks
<1>5. \A i \in DOMAIN pktWire' : i + 1 \in DOMAIN pktWire /\ pktWire'[i] = pktWire[i + 1]
  BY <1>1, <1>3
<1>6. 1 \in DOMAIN pktWire
  BY <1>1, <1>3
<1>7. /\ \A i \in DOMAIN pktWire' : pktWire'[i].t = "tick" => O!CountedIn(pktWire'[i])
      /\ line.t = "tick" => O!CountedIn(line)
  BY <1>4, <1>5, <1>6 DEF O!BooksTrue
<1> HIDE DEF line, c, d
<1>8. /\ line.t \in {"pkt", "tick", "end"}
      /\ line.t = "tick" => /\ line.pkts \in 0..MaxFrames /\ line.skipped \in 0..MaxFrames
                            /\ line.flows \in O!FlowTables
                            /\ O!Tells(line) = line.skipped /\ O!Adds(line) = line.pkts
      /\ line.t = "pkt" => O!Tells(line) = 1 /\ O!Adds(line) = 0
      /\ line.t = "end" => O!Tells(line) = 0 /\ O!Adds(line) = 0
  BY <1>4, PacketsLineIs
<1> DEFINE Jobs == [seq : 0..MaxFrames, packets : Seq(1..MaxFrames), pkts : 0..MaxFrames,
                    unlisted : 0..MaxFrames, flows : O!FlowTables,
                    added : {"none", "pkt", "tick", "end"}]
<1>9. pktJob \in Jobs /\ Len(pktJob.packets) <= MAX_PACKETS
  BY <1>2 DEF O!TypeOK
<1>10. /\ pktViewer.last <= pktJob.seq
       /\ \A i \in DOMAIN pktJob.packets : pktJob.packets[i] <= pktJob.seq
       /\ O!CountedIn(pktJob)
  BY DEF O!BooksTrue
<1>11. \A i \in DOMAIN pktJob.packets : pktJob.packets[i] \in 1..MaxFrames
  BY <1>3, ElementOfSeq
<1>12. /\ pktJob' \in Jobs /\ Len(pktJob'.packets) <= MAX_PACKETS /\ pktCut' \in BOOLEAN
       /\ pktJob'.seq + pktJob'.unlisted = e /\ pktJob'.pkts = f
       /\ O!CountedIn(pktJob')
       /\ pktJob'.added = "tick" => line.t = "tick"
       /\ pktViewer.last <= pktJob'.seq
       /\ \A i \in DOMAIN pktJob'.packets : pktJob'.packets[i] <= pktJob'.seq
       /\ \A i \in DOMAIN pktJob'.packets : pktJob'.packets[i] <= pktViewer.last =>
            \E j \in DOMAIN pktJob.packets : pktJob'.packets[i] = pktJob.packets[j]
  <2>1. CASE line.t = "pkt" /\ O!ApplyPacket
    <3> DEFINE new == pktJob.seq + 1
               kept == O!Newest(Append(pktJob.packets, new), MAX_PACKETS)
    <3>1. pktJob' = [pktJob EXCEPT !.seq = new, !.packets = kept, !.added = "pkt"]
          /\ pktCut' = pktCut
      BY <2>1 DEF O!ApplyPacket
    <3>2. e = new + pktJob.unlisted /\ f = pktJob.pkts
      BY <1>3, <1>8, <2>1
    <3>3. new \in 1..MaxFrames
      BY <1>3, <1>4, <3>2
    <3>4. /\ kept \in Seq(1..MaxFrames) /\ Len(kept) <= MAX_PACKETS
          /\ \A i \in DOMAIN kept :
               kept[i] = new \/ \E j \in DOMAIN pktJob.packets : kept[i] = pktJob.packets[j]
      BY <1>3, <3>3, PacketsNewestIs
    <3>5. pktViewer.last < new
      BY <1>3, <1>10
    <3>6. \A j \in DOMAIN pktJob.packets : pktJob.packets[j] <= new
      BY <1>3, <1>10, <1>11
    <3> HIDE DEF new, kept
    <3>7. /\ pktJob' \in Jobs /\ pktJob'.seq = new /\ pktJob'.packets = kept
          /\ pktJob'.added = "pkt"
          /\ pktJob'.unlisted = pktJob.unlisted /\ pktJob'.pkts = pktJob.pkts
          /\ pktJob'.flows = pktJob.flows
      <4>1. new \in 0..MaxFrames
        BY <1>3, <3>3
      <4> QED  BY <1>9, <3>1, <3>4, <4>1
    <3> HIDE DEF Jobs
    <3>8. O!CountedIn(pktJob')
      BY <1>10, <3>7 DEF O!CountedIn
    <3>9. new <= new /\ pktViewer.last <= new /\ ~(new <= pktViewer.last)
      BY <1>3, <3>3, <3>5
    <3>10. \A i \in DOMAIN kept : kept[i] <= new
      BY <3>4, <3>6, <3>9
    <3>11. \A i \in DOMAIN kept : kept[i] <= pktViewer.last =>
              \E j \in DOMAIN pktJob.packets : kept[i] = pktJob.packets[j]
      BY <3>4, <3>9
    <3>12. pktCut' \in BOOLEAN
      BY <1>2, <3>1 DEF O!TypeOK
    <3> HIDE DEF e, f
    <3> QED  BY <3>2, <3>4, <3>7, <3>8, <3>9, <3>10, <3>11, <3>12
  <2>2. CASE line.t = "tick" /\ O!ApplyTick(line)
    <3>1. PICK kept \in SUBSET DOMAIN line.flows :
            /\ pktJob' = [pktJob EXCEPT !.pkts = pktJob.pkts + line.pkts,
                                        !.unlisted = pktJob.unlisted + line.skipped,
                                        !.flows = O!AddFlows(pktJob.flows, line, kept),
                                        !.added = "tick"]
            /\ pktCut' = (pktCut \/ ~(DOMAIN line.flows \subseteq DOMAIN pktJob.flows \cup kept))
      BY <2>2 DEF O!ApplyTick
    <3>2. e = pktJob.seq + (pktJob.unlisted + line.skipped) /\ f = pktJob.pkts + line.pkts
      BY <1>3, <1>8, <2>2
    <3>3. pktJob.unlisted + line.skipped \in 0..MaxFrames
      <4>1. /\ line.skipped \in 0..MaxFrames /\ pktJob.seq \in 0..MaxFrames
            /\ pktJob.unlisted \in 0..MaxFrames /\ e \in 0..MaxFrames /\ MaxFrames \in Nat
        BY <1>3, <1>4, <1>8, <2>2
      <4> HIDE DEF e
      <4> QED  BY <3>2, <4>1
    <3>4. PacketsTable(pktJob.flows, pktJob.pkts) /\ PacketsTable(line.flows, line.pkts)
      BY <1>3, <1>7, <1>8, <1>10, <2>2 DEF PacketsTable, O!CountedIn
    <3>5. PacketsTable(O!AddFlows(pktJob.flows, line, kept), f)
      BY <1>3, <1>4, <1>8, <2>2, <3>2, <3>4, PacketsAddIs
    <3>6. f \in 0..MaxFrames
      BY <1>4
    <3> HIDE DEF e, f, Jobs
    <3>7. /\ pktJob' \in Jobs /\ pktJob'.seq = pktJob.seq /\ pktJob'.packets = pktJob.packets
          /\ pktJob'.unlisted = pktJob.unlisted + line.skipped /\ pktJob'.pkts = f
          /\ pktJob'.flows = O!AddFlows(pktJob.flows, line, kept)
      BY <1>9, <3>1, <3>2, <3>3, <3>5, <3>6 DEF Jobs, PacketsTable
    <3>8. O!CountedIn(pktJob')
      BY <3>5, <3>7 DEF O!CountedIn, PacketsTable
    <3>9. pktCut' \in BOOLEAN
      BY <1>2, <3>1 DEF O!TypeOK
    <3> QED  BY <1>9, <1>10, <2>2, <3>2, <3>7, <3>8, <3>9
  <2>3. CASE line.t = "end" /\ pktJob' = [pktJob EXCEPT !.added = "end"] /\ UNCHANGED pktCut
    <3>1. e = pktJob.seq + pktJob.unlisted /\ f = pktJob.pkts
      BY <1>3, <1>8, <2>3
    <3> HIDE DEF e, f, Jobs
    <3>2. /\ pktJob' \in Jobs /\ pktJob'.seq = pktJob.seq /\ pktJob'.packets = pktJob.packets
          /\ pktJob'.unlisted = pktJob.unlisted /\ pktJob'.pkts = pktJob.pkts
          /\ pktJob'.flows = pktJob.flows
          /\ pktJob'.added = "end"
      BY <1>9, <2>3 DEF Jobs
    <3>3. O!CountedIn(pktJob') /\ pktCut' \in BOOLEAN
      BY <1>2, <1>10, <2>3, <3>2 DEF O!CountedIn, O!TypeOK
    <3> QED  BY <1>9, <1>10, <3>1, <3>2, <3>3
  <2> QED  BY <1>1, <2>1, <2>2, <2>3
<1> HIDE DEF e, f
<1>13. O!TypeOK'
  BY <1>1, <1>2, <1>4, <1>12 DEF O!TypeOK
<1>14. O!TotalsAgree'
  BY <1>4, <1>12 DEF O!TotalsAgree
<1>15. O!PollsMissNothing'
  <2>1. \A j \in DOMAIN pktJob.packets : pktJob.packets[j] <= pktViewer.last
        => pktJob.packets[j] \in pktViewer.has
    BY DEF O!BooksTrue, O!PollsMissNothing
  <2> QED  BY <1>1, <1>12, <2>1 DEF O!PollsMissNothing
<1>16. O!Books(pktWire', pktJob'.seq + pktJob'.unlisted, pktJob'.pkts,
       pktFrames' - pktHelper'.skipped,
               pktFrames' - pktHelper'.pkts)
  BY <1>1, <1>4, <1>12 DEF c, d
<1>17. O!CountedIn(pktHelper)' /\ pktViewer'.last <= pktJob'.seq
  BY <1>1, <1>12 DEF O!BooksTrue, O!CountedIn
<1> QED  BY <1>7, <1>12, <1>13, <1>14, <1>15, <1>16, <1>17 DEF O!BooksTrue, O!CountedIn

(* Time only passes.                                                       *)
LEMMA PacketsPassKeeps ==
  ASSUME O!BooksTrue, O!Pass
  PROVE  O!BooksTrue'
<1>1. /\ pktMono' = pktMono + 1 /\ pktMono < Deadline
      /\ UNCHANGED <<pktHelper, pktWire, pktJob, pktViewer, pktFrames, pktCut>>
  BY DEF O!Pass
<1>2. O!TypeOK'
  <2>1. pktMono' \in 0..Deadline
    BY <1>1, PacketsAssumption DEF O!BooksTrue, O!TypeOK, O!PacketsSane
  <2> QED  BY <1>1, <2>1 DEF O!BooksTrue, O!TypeOK
<1> QED  BY <1>1, <1>2 DEF O!BooksTrue, O!TotalsAgree, O!PollsMissNothing, O!CountedIn

(* At the start nothing was counted.                                       *)
LEMMA PacketsBooksInit == O!Init => O!BooksTrue
<1> SUFFICES ASSUME O!Init PROVE O!BooksTrue
  OBVIOUS
<1>1. /\ MaxFrames \in Nat /\ Deadline \in Nat /\ Second \in Nat /\ MAX_PPS \in Nat \ {0}
      /\ MAX_PACKETS \in Nat \ {0}
  BY PacketsAssumption DEF O!PacketsSane
<1>2. DOMAIN O!NoFlows = {} /\ O!NoFlows \in [{} -> 1..MaxFrames]
  BY DEF O!NoFlows
<1>3. O!NoFlows \in O!FlowTables
  BY <1>2 DEF O!FlowTables
<1>4. O!TypeOK
  <2>1. pktWire \in Seq(O!Lines) /\ pktJob.packets = <<>> /\ Len(pktJob.packets) = 0
    BY DEF O!Init
  <2>2. pktHelper \in [runs : BOOLEAN, pkts : 0..MaxFrames, flows : O!FlowTables,
                       skipped : 0..MaxFrames, sent : 0..MAX_PPS, secondStart : 0..Deadline,
                       tickAt : 0..(Deadline + Second)]
    <3>1. 0 \in 0..MaxFrames /\ 0 \in 0..MAX_PPS /\ 0 \in 0..Deadline
          /\ Second \in 0..(Deadline + Second)
      BY <1>1
    <3> QED  BY <1>3, <3>1 DEF O!Init
  <2>3. pktJob \in [seq : 0..MaxFrames, packets : Seq(1..MaxFrames), pkts : 0..MaxFrames,
                    unlisted : 0..MaxFrames, flows : O!FlowTables,
                    added : {"none", "pkt", "tick", "end"}]
    <3>1. 0 \in 0..MaxFrames /\ <<>> \in Seq(1..MaxFrames)
      BY <1>1
    <3> QED  BY <1>3, <3>1 DEF O!Init
  <2>4. /\ pktMono \in 0..Deadline /\ pktFrames \in 0..MaxFrames /\ pktCut \in BOOLEAN
        /\ pktViewer \in [last : 0..MaxFrames, has : SUBSET (1..MaxFrames)]
    <3>1. 0 \in 0..MaxFrames /\ 0 \in 0..Deadline
      BY <1>1
    <3> QED  BY <3>1 DEF O!Init
  <2>5. Len(pktJob.packets) <= MAX_PACKETS
    BY <1>1, <2>1
  <2> QED  BY <2>1, <2>2, <2>3, <2>4, <2>5 DEF O!TypeOK
<1>5. O!Books(<<>>, 0, 0, 0, 0)
  <2> DEFINE none == [i \in 0..0 |-> 0]
  <2>1. none \in [0..Len(<<>>) -> 0..MaxFrames] /\ none[0] = 0 /\ none[Len(<<>>)] = 0
    BY <1>1
  <2>2. O!Kept(<<>>, none, none)
    BY DEF O!Kept
  <2> QED  BY <2>1, <2>2 DEF O!Books
<1>6. O!Books(pktWire, pktJob.seq + pktJob.unlisted, pktJob.pkts, pktFrames - pktHelper.skipped,
      pktFrames - pktHelper.pkts)
  BY <1>5 DEF O!Init
<1>7. O!CountedIn(pktHelper) /\ O!CountedIn(pktJob)
  BY <1>2 DEF O!Init, O!CountedIn
<1>8. O!TotalsAgree /\ O!PollsMissNothing
  BY DEF O!Init, O!TotalsAgree, O!PollsMissNothing
<1>9. pktWire = <<>> /\ pktJob.packets = <<>> /\ pktViewer.last = 0 /\ pktJob.seq = 0
  BY DEF O!Init
<1> QED  BY <1>4, <1>6, <1>7, <1>8, <1>9 DEF O!BooksTrue

(* No step of the helper, the agent or the viewer breaks it.               *)
LEMMA PacketsBooksStep == O!BooksTrue /\ [O!Next]_O!packetVars => O!BooksTrue'
<1> SUFFICES ASSUME O!BooksTrue, [O!Next]_O!packetVars PROVE O!BooksTrue'
  OBVIOUS
<1>1. CASE O!Next
  BY <1>1, PacketsPassKeeps, PacketsEndKeeps, PacketsApplyKeeps, PacketsPollKeeps,
           PacketsTurnKeeps DEF O!Next
<1>2. CASE UNCHANGED O!packetVars
  BY <1>2 DEF O!packetVars, O!BooksTrue, O!TypeOK, O!TotalsAgree, O!PollsMissNothing, O!CountedIn
<1> QED  BY <1>1, <1>2

(* The figures agree, and a viewer misses nothing that is kept.            *)
LEMMA PacketsBooksHold == O!BooksTrue => O!TypeOK /\ O!TotalsAgree /\ O!PollsMissNothing
  BY DEF O!BooksTrue

(* A table has a natural number for each of its flows.                     *)
LEMMA PacketsValuesAre ==
  ASSUME NEW flows \in O!FlowTables
  PROVE  \A f \in DOMAIN flows : flows[f] \in Nat /\ flows[f] \in Int
<1>1. PICK some \in SUBSET Conversations : flows \in [some -> 1..MaxFrames]
  BY DEF O!FlowTables
<1>2. MaxFrames \in Nat
  BY PacketsAssumption DEF O!PacketsSane
<1> QED  BY <1>1, <1>2

(* What a table counts is the sum of its values.                           *)
LEMMA PacketsCountIs ==
  ASSUME NEW flows
  PROVE  O!CountOf(flows) = SumOn(flows, DOMAIN flows)
  BY DEF O!CountOf, O!MapThenSumSet, O!MapThenFoldSet, SumOn, Sums, First

(* A packet counts once, in a flow that was there or a new one.            *)
LEMMA PacketsPlusCounts ==
  ASSUME NEW flows \in O!FlowTables, IsFiniteSet(DOMAIN flows), NEW f
  PROVE  /\ IsFiniteSet(DOMAIN O!Plus(flows, f, 1)) /\ O!CountOf(flows) \in Nat
         /\ O!CountOf(O!Plus(flows, f, 1)) = O!CountOf(flows) + 1
<1> DEFINE new == O!Plus(flows, f, 1)
           old == DOMAIN flows
           others == old \ {f}
<1>1. \A g \in old : flows[g] \in Nat /\ flows[g] \in Int
  BY PacketsValuesAre
<1>2. /\ DOMAIN new = old \cup {f} /\ \A g \in others : new[g] = flows[g]
      /\ new[f] = (IF f \in old THEN flows[f] ELSE 0) + 1
  <2>1. new = [g \in old \cup {f} |-> (IF g \in old THEN flows[g] ELSE 0) +
                                      (IF g = f THEN 1 ELSE 0)]
    BY DEF O!Plus
  <2> HIDE DEF new
  <2> QED  BY <1>1, <2>1
<1>3. IsFiniteSet(old) /\ IsFiniteSet(old \cup {f}) /\ IsFiniteSet(others)
  BY FS_AddElement, FS_RemoveElement
<1> HIDE DEF new
<1>4. SumOn(new, others) = SumOn(flows, others)
  BY <1>2, <1>3, SumSame
<1>5. SumOn(flows, others) \in Nat /\ SumOn(flows, old) \in Nat
  BY <1>1, <1>3, SumOfPart
<1>6. SumOn(new, old \cup {f}) = new[f] + SumOn(new, others)
  <2>1. \A g \in old \cup {f} : new[g] \in Int
    <3>1. new[f] \in Int
      BY <1>2, <1>1
    <3> QED  BY <1>2, <1>1, <3>1
  <2>2. (old \cup {f}) \ {f} = others
    OBVIOUS
  <2> QED  BY <1>3, <2>1, <2>2, SumWithout
<1>7. SumOn(new, old \cup {f}) = SumOn(flows, old) + 1
  <2>1. CASE f \in old
    <3>1. SumOn(flows, old) = flows[f] + SumOn(flows, others)
      BY <1>1, <1>3, <2>1, SumWithout
    <3>2. new[f] = flows[f] + 1 /\ flows[f] \in Nat
      BY <1>2, <1>1, <2>1
    <3> QED  BY <1>4, <1>5, <1>6, <3>1, <3>2
  <2>2. CASE f \notin old
    <3>1. others = old /\ new[f] = 1
      BY <1>2, <2>2
    <3> QED  BY <1>4, <1>5, <1>6, <3>1
  <2> QED  BY <2>1, <2>2
<1> QED  BY <1>2, <1>3, <1>5, <1>7, PacketsCountIs DEF new

(* A table without some of its flows counts no more.                       *)
LEMMA PacketsPartCounts ==
  ASSUME NEW flows \in O!FlowTables, IsFiniteSet(DOMAIN flows), NEW top \in SUBSET DOMAIN flows
  PROVE  LET part == [f \in top |-> flows[f]]
         IN /\ IsFiniteSet(top) /\ O!CountOf(part) \in Nat /\ O!CountOf(flows) \in Nat
            /\ O!CountOf(part) <= O!CountOf(flows)
            /\ top = DOMAIN flows => O!CountOf(part) = O!CountOf(flows)
<1> DEFINE part == [f \in top |-> flows[f]]
<1>1. IsFiniteSet(top) /\ DOMAIN part = top
  BY FS_Subset
<1>2. O!CountOf(part) = SumOn(flows, top)
  <2>1. SumOn(part, top) = SumOn(flows, top)
    BY <1>1, SumSame
  <2> QED  BY <1>1, <2>1, PacketsCountIs
<1>3. O!CountOf(flows) = SumOn(flows, DOMAIN flows)
  BY PacketsCountIs
<1>4. /\ SumOn(flows, top) \in Nat /\ SumOn(flows, DOMAIN flows) \in Nat
      /\ SumOn(flows, top) <= SumOn(flows, DOMAIN flows)
  BY PacketsValuesAre, SumOfPart
<1> QED  BY <1>1, <1>2, <1>3, <1>4

(* The flows of a tick that are kept count no more than the tick.          *)
LEMMA PacketsAddCounts ==
  ASSUME NEW flows \in O!FlowTables, NEW line, line.flows \in O!FlowTables,
         IsFiniteSet(DOMAIN flows), IsFiniteSet(DOMAIN line.flows),
         NEW kept \in SUBSET DOMAIN line.flows
  PROVE  LET new == O!AddFlows(flows, line, kept)
         IN /\ IsFiniteSet(DOMAIN new) /\ O!CountOf(new) \in Nat
            /\ O!CountOf(flows) \in Nat /\ O!CountOf(line.flows) \in Nat
            /\ O!CountOf(new) <= O!CountOf(flows) + O!CountOf(line.flows)
            /\ DOMAIN line.flows \subseteq DOMAIN flows \cup kept =>
                 O!CountOf(new) = O!CountOf(flows) + O!CountOf(line.flows)
<1> DEFINE new == O!AddFlows(flows, line, kept)
           more == line.flows
           all == DOMAIN flows \cup kept
           some == DOMAIN more \cap all
           first == [f \in all |-> IF f \in DOMAIN flows THEN flows[f] ELSE 0]
           second == [f \in all |-> IF f \in some THEN more[f] ELSE 0]
<1>1. /\ DOMAIN new = all
      /\ \A f \in all : new[f] = (IF f \in DOMAIN flows THEN flows[f] ELSE 0) +
                                 (IF f \in DOMAIN more THEN more[f] ELSE 0)
  BY DEF O!AddFlows
<1>2. /\ \A f \in DOMAIN flows : flows[f] \in Nat /\ flows[f] \in Int
      /\ \A f \in DOMAIN more : more[f] \in Nat /\ more[f] \in Int
  BY PacketsValuesAre
<1>3. IsFiniteSet(all) /\ IsFiniteSet(some)
  BY FS_Subset, FS_Union
<1> HIDE DEF new, more
<1>4. SumOn(first, all) = SumOn(flows, DOMAIN flows)
  BY <1>2, <1>3, SumPadded
<1>5. SumOn(second, all) = SumOn(more, some)
  BY <1>2, <1>3, SumPadded
<1>6. \A f \in all : first[f] \in Int /\ second[f] \in Int /\ new[f] = first[f] + second[f]
  BY <1>1, <1>2
<1> HIDE DEF first, second
<1>7. SumOn(new, all) = SumOn(flows, DOMAIN flows) + SumOn(more, some)
  BY <1>3, <1>4, <1>5, <1>6, SumPlus
<1>8. /\ SumOn(more, some) \in Nat /\ SumOn(more, DOMAIN more) \in Nat
      /\ SumOn(more, some) <= SumOn(more, DOMAIN more)
  BY <1>2, SumOfPart DEF more
<1>9. SumOn(flows, DOMAIN flows) \in Nat
  BY <1>2, SumOfPart
<1>10. DOMAIN more \subseteq all => some = DOMAIN more
  OBVIOUS
<1>11. /\ O!CountOf(new) = SumOn(new, all) /\ O!CountOf(flows) = SumOn(flows, DOMAIN flows)
       /\ O!CountOf(more) = SumOn(more, DOMAIN more)
  BY <1>1, PacketsCountIs
<1> HIDE DEF some, all
<1>12. O!CountOf(new) \in Nat /\ O!CountOf(new) <= O!CountOf(flows) + O!CountOf(more)
  BY <1>7, <1>8, <1>9, <1>11
<1>13. DOMAIN more \subseteq all => O!CountOf(new) = O!CountOf(flows) + O!CountOf(more)
  BY <1>7, <1>10, <1>11
<1> QED  BY <1>1, <1>3, <1>8, <1>9, <1>11, <1>12, <1>13 DEF new, more, all

(* What is left out stays left out.                                        *)
LEMMA PacketsTallyStays ==
  ASSUME NEW x, NEW before \in BOOLEAN, NEW after \in BOOLEAN, before => after, O!Tally(x, before)
  PROVE  O!Tally(x, after)
  BY PacketsFinite DEF O!Tally

(* A packet is counted in its flow, and in no other.                       *)
LEMMA PacketsCountedTally ==
  ASSUME NEW h, h.flows \in O!FlowTables, h.pkts \in Nat, NEW f, NEW x, NEW leftOut \in BOOLEAN,
         O!Tally(h, leftOut), x.pkts = h.pkts + 1, x.flows = O!Plus(h.flows, f, 1)
  PROVE  O!Tally(x, leftOut)
<1>1. /\ IsFiniteSet(DOMAIN O!Plus(h.flows, f, 1)) /\ O!CountOf(h.flows) \in Nat
      /\ O!CountOf(O!Plus(h.flows, f, 1)) = O!CountOf(h.flows) + 1
  BY PacketsFinite, PacketsPlusCounts DEF O!Tally
<1> QED  BY PacketsFinite, <1>1 DEF O!Tally

(* A turn of the helper: the tick that is due takes its flows along.       *)
LEMMA PacketsTurnCounts ==
  ASSUME O!BooksTrue, O!FlowsTrue, NEW f \in Conversations \cup {"nothing"}, O!Turn(f)
  PROVE  O!FlowsTrue'
<1>1. PICK top \in SUBSET DOMAIN pktHelper.flows :
        /\ IF O!TickDue THEN O!Busiest(top) ELSE top = {}
        /\ pktCut' = (pktCut \/ (O!TickDue /\ top # DOMAIN pktHelper.flows))
        /\ pktWire' = pktWire \o (IF O!TickDue THEN <<O!TickLine(top)>> ELSE <<>>)
                              \o IF f # "nothing"
                              /\ ~O!Full(O!Ticked) THEN <<[t |-> "pkt"]>> ELSE <<>>
  BY DEF O!Turn
<1>2. pktHelper' = (IF f = "nothing" THEN O!Ticked ELSE O!Counted(O!Ticked, f))
      /\ pktJob' = pktJob
  BY DEF O!Turn
<1>3. /\ pktHelper.flows \in O!FlowTables /\ pktHelper.pkts \in Nat /\ pktWire \in Seq(O!Lines)
      /\ pktCut \in BOOLEAN /\ pktCut' \in BOOLEAN /\ (pktCut => pktCut')
  <2>1. O!TypeOK
    BY DEF O!BooksTrue
  <2> QED  BY <1>1, <2>1, PacketsFieldsAre DEF O!TypeOK
<1>4. O!Tally(pktHelper, pktCut) /\ O!Tally(pktJob, pktCut)
  BY DEF O!FlowsTrue
<1>5. O!TickDue => O!Tally(O!TickLine(top), pktCut')
  <2> SUFFICES ASSUME O!TickDue PROVE O!Tally(O!TickLine(top), pktCut')
    OBVIOUS
  <2> DEFINE part == [g \in top |-> pktHelper.flows[g]]
  <2>1. /\ IsFiniteSet(top) /\ O!CountOf(part) \in Nat /\ O!CountOf(pktHelper.flows) \in Nat
        /\ O!CountOf(part) <= O!CountOf(pktHelper.flows)
        /\ top = DOMAIN pktHelper.flows => O!CountOf(part) = O!CountOf(pktHelper.flows)
    BY PacketsFinite, <1>3, <1>4, PacketsPartCounts DEF O!Tally
  <2>2. O!TickLine(top).pkts = pktHelper.pkts /\ O!TickLine(top).flows = part /\ DOMAIN part = top
    BY DEF O!TickLine
  <2>3. ~pktCut' => ~pktCut /\ top = DOMAIN pktHelper.flows
    BY <1>1, <1>3
  <2> HIDE DEF part
  <2> QED  BY PacketsFinite, <1>3, <1>4, <2>1, <2>2, <2>3 DEF O!Tally
<1>6. O!Tally(O!Ticked, pktCut') /\ O!Ticked.flows \in O!FlowTables /\ O!Ticked.pkts \in Nat
  <2>1. CASE O!TickDue
    <3>1. O!Ticked.pkts = 0 /\ O!Ticked.flows = O!NoFlows
      BY <2>1 DEF O!Ticked
    <3>2. DOMAIN O!NoFlows = {} /\ O!NoFlows \in [{} -> 1..MaxFrames] /\ O!CountOf(O!NoFlows) = 0
      <4>1. DOMAIN O!NoFlows = {} /\ O!NoFlows \in [{} -> 1..MaxFrames]
        BY DEF O!NoFlows
      <4> QED  BY <4>1, PacketsCountIs, SumFirst, FS_EmptySet
    <3>3. O!NoFlows \in O!FlowTables /\ IsFiniteSet(DOMAIN O!NoFlows)
      BY <3>2, FS_EmptySet DEF O!FlowTables
    <3> QED  BY PacketsFinite, <3>1, <3>2, <3>3 DEF O!Tally
  <2>2. CASE ~O!TickDue
    BY <1>3, <1>4, <2>2, PacketsTallyStays DEF O!Ticked
  <2> QED  BY <2>1, <2>2
<1>7. O!Tally(pktHelper', pktCut')
  <2>1. CASE f = "nothing"
    BY <1>2, <1>6, <2>1
  <2>2. CASE f # "nothing"
    <3>1. pktHelper'.pkts = O!Ticked.pkts + 1 /\ pktHelper'.flows = O!Plus(O!Ticked.flows, f, 1)
      BY <1>2, <2>2 DEF O!Counted, O!Ticked
    <3>2. /\ O!Ticked.flows \in O!FlowTables /\ O!Ticked.pkts \in Nat
          /\ O!Tally(O!Ticked, pktCut')
          /\ pktCut' \in BOOLEAN
      BY <1>3, <1>6
    <3> QED  BY <3>1, <3>2, PacketsCountedTally
  <2> QED  BY <2>1, <2>2
<1>8. O!Tally(pktJob', pktCut')
  BY <1>2, <1>3, <1>4, PacketsTallyStays
<1>9. ASSUME NEW i \in DOMAIN pktWire', pktWire'[i].t = "tick"
      PROVE  O!Tally(pktWire'[i], pktCut')
  <2>1. \/ i \in DOMAIN pktWire /\ pktWire'[i] = pktWire[i]
        \/ O!TickDue /\ pktWire'[i] = O!TickLine(top)
        \/ pktWire'[i] = [t |-> "pkt"]
    <3>1. CASE O!TickDue /\ f # "nothing" /\ ~O!Full(O!Ticked)
      BY <1>1, <1>3, <1>9, <3>1
    <3>2. CASE O!TickDue /\ ~(f # "nothing" /\ ~O!Full(O!Ticked))
      BY <1>1, <1>3, <1>9, <3>2
    <3>3. CASE ~O!TickDue /\ f # "nothing" /\ ~O!Full(O!Ticked)
      BY <1>1, <1>3, <1>9, <3>3
    <3>4. CASE ~O!TickDue /\ ~(f # "nothing" /\ ~O!Full(O!Ticked))
      BY <1>1, <1>3, <1>9, <3>4
    <3> QED  BY <3>1, <3>2, <3>3, <3>4
  <2>2. CASE i \in DOMAIN pktWire /\ pktWire'[i] = pktWire[i]
    BY <1>3, <1>9, <2>2, PacketsTallyStays DEF O!FlowsTrue
  <2>3. CASE pktWire'[i] = [t |-> "pkt"]
    BY <1>9, <2>3
  <2> QED  BY <1>5, <2>1, <2>2, <2>3
<1> QED  BY <1>7, <1>8, <1>9 DEF O!FlowsTrue

(* A line is read, and a tick's flows are added as far as there are places.*)
LEMMA PacketsApplyCounts ==
  ASSUME O!BooksTrue, O!FlowsTrue, O!Apply
  PROVE  O!FlowsTrue'
<1> DEFINE line == Head(pktWire)
<1>1. /\ pktWire # <<>> /\ pktWire' = Tail(pktWire) /\ pktHelper' = pktHelper
      /\ \/ line.t = "pkt" /\ O!ApplyPacket
         \/ line.t = "tick" /\ O!ApplyTick(line)
         \/ line.t = "end" /\ pktJob' = [pktJob EXCEPT !.added = "end"] /\ UNCHANGED pktCut
  BY DEF O!Apply
<1>2. /\ pktJob.flows \in O!FlowTables /\ pktJob.pkts \in Nat /\ pktWire \in Seq(O!Lines)
      /\ pktCut \in BOOLEAN
      /\ pktJob \in [seq : 0..MaxFrames, packets : Seq(1..MaxFrames), pkts : 0..MaxFrames,
                     unlisted : 0..MaxFrames, flows : O!FlowTables,
                     added : {"none", "pkt", "tick", "end"}]
  <2>1. O!TypeOK
    BY DEF O!BooksTrue
  <2> QED  BY <2>1, PacketsFieldsAre DEF O!TypeOK
<1>3. line = pktWire[1] /\ 1 \in DOMAIN pktWire /\ line \in O!Lines
      /\ \A i \in DOMAIN pktWire' : i + 1 \in DOMAIN pktWire /\ pktWire'[i] = pktWire[i + 1]
  BY <1>1, <1>2
<1>4. O!Tally(pktHelper, pktCut) /\ O!Tally(pktJob, pktCut)
      /\ (line.t = "tick" => O!Tally(line, pktCut))
  BY <1>3 DEF O!FlowsTrue
<1>5. line.t = "tick" => line.flows \in O!FlowTables /\ line.pkts \in Nat
  BY <1>3, PacketsLineIs
<1> HIDE DEF line
<1>6. pktCut' \in BOOLEAN /\ (pktCut => pktCut') /\ O!Tally(pktJob', pktCut')
  <2>1. CASE line.t = "pkt" /\ O!ApplyPacket
    <3>1. pktCut' = pktCut /\ pktJob'.flows = pktJob.flows /\ pktJob'.pkts = pktJob.pkts
      BY <1>2, <2>1 DEF O!ApplyPacket
    <3> QED  BY PacketsFinite, <1>2, <1>4, <3>1 DEF O!Tally
  <2>2. CASE line.t = "tick" /\ O!ApplyTick(line)
    <3>1. PICK kept \in SUBSET DOMAIN line.flows :
            /\ pktJob' = [pktJob EXCEPT !.pkts = pktJob.pkts + line.pkts,
                                        !.unlisted = pktJob.unlisted + line.skipped,
                                        !.flows = O!AddFlows(pktJob.flows, line, kept),
                                        !.added = "tick"]
            /\ pktCut' = (pktCut \/ ~(DOMAIN line.flows \subseteq DOMAIN pktJob.flows \cup kept))
      BY <2>2 DEF O!ApplyTick
    <3> DEFINE new == O!AddFlows(pktJob.flows, line, kept)
    <3>2. pktJob'.pkts = pktJob.pkts + line.pkts /\ pktJob'.flows = new
      BY <1>2, <3>1
    <3>3. /\ IsFiniteSet(DOMAIN new) /\ O!CountOf(new) \in Nat
          /\ O!CountOf(pktJob.flows) \in Nat /\ O!CountOf(line.flows) \in Nat
          /\ O!CountOf(new) <= O!CountOf(pktJob.flows) + O!CountOf(line.flows)
          /\ DOMAIN line.flows \subseteq DOMAIN pktJob.flows \cup kept =>
               O!CountOf(new) = O!CountOf(pktJob.flows) + O!CountOf(line.flows)
      BY PacketsFinite, <1>2, <1>4, <1>5, <2>2, PacketsAddCounts DEF O!Tally
    <3>4. /\ O!CountOf(pktJob.flows) <= pktJob.pkts /\ O!CountOf(line.flows) <= line.pkts
          /\ ~pktCut => O!CountOf(pktJob.flows) = pktJob.pkts /\ O!CountOf(line.flows) = line.pkts
      BY PacketsFinite, <1>4, <2>2 DEF O!Tally
    <3> HIDE DEF new
    <3>5. pktCut' \in BOOLEAN /\ (pktCut => pktCut')
      BY <1>2, <3>1
    <3>6. O!CountOf(new) <= pktJob.pkts + line.pkts
      BY <1>2, <1>5, <2>2, <3>3, <3>4
    <3>7. ~pktCut' => O!CountOf(new) = pktJob.pkts + line.pkts
      BY <1>2, <3>1, <3>3, <3>4
    <3> QED  BY PacketsFinite, <3>2, <3>3, <3>5, <3>6, <3>7 DEF O!Tally
  <2>3. CASE line.t = "end" /\ pktJob' = [pktJob EXCEPT !.added = "end"] /\ UNCHANGED pktCut
    <3>1. pktCut' = pktCut /\ pktJob'.flows = pktJob.flows /\ pktJob'.pkts = pktJob.pkts
      BY <1>2, <2>3
    <3> QED  BY PacketsFinite, <1>2, <1>4, <3>1 DEF O!Tally
  <2> QED  BY <1>1, <2>1, <2>2, <2>3
<1>7. O!Tally(pktHelper', pktCut')
  BY <1>1, <1>2, <1>4, <1>6, PacketsTallyStays
<1>8. ASSUME NEW i \in DOMAIN pktWire', pktWire'[i].t = "tick"
      PROVE  O!Tally(pktWire'[i], pktCut')
  <2>1. O!Tally(pktWire[i + 1], pktCut) /\ pktWire'[i] = pktWire[i + 1]
    BY <1>3, <1>8 DEF O!FlowsTrue
  <2> QED  BY <1>2, <1>6, <2>1, PacketsTallyStays
<1> QED  BY <1>6, <1>7, <1>8 DEF O!FlowsTrue

(* The helper's last line is no tick.                                      *)
LEMMA PacketsEndCounts ==
  ASSUME O!BooksTrue, O!FlowsTrue, O!Finish \/ O!Killed
  PROVE  O!FlowsTrue'
<1>1. /\ pktJob' = pktJob /\ pktCut' = pktCut /\ pktHelper' = [pktHelper EXCEPT !.runs = FALSE]
      /\ pktWire' = pktWire \/ pktWire' = Append(pktWire, [t |-> "end"])
  BY DEF O!Finish, O!Killed
<1>2. pktWire \in Seq(O!Lines) /\ pktHelper'.flows = pktHelper.flows
      /\ pktHelper'.pkts = pktHelper.pkts
  BY <1>1 DEF O!BooksTrue, O!TypeOK
<1>3. ASSUME NEW i \in DOMAIN pktWire', pktWire'[i].t = "tick"
      PROVE  i \in DOMAIN pktWire /\ pktWire'[i] = pktWire[i]
  <2>1. CASE pktWire' = pktWire
    BY <1>3, <2>1
  <2>2. CASE pktWire' = Append(pktWire, [t |-> "end"])
    <3>1. \A j \in DOMAIN pktWire' : \/ j \in DOMAIN pktWire /\ pktWire'[j] = pktWire[j]
                                     \/ pktWire'[j] = [t |-> "end"]
      BY <1>2, <2>2
    <3> QED  BY <1>3, <3>1
  <2> QED  BY <1>1, <2>1, <2>2
<1> QED  BY PacketsFinite, <1>1, <1>2, <1>3 DEF O!FlowsTrue, O!Tally

(* At the start nothing was counted, in any flow.                          *)
LEMMA PacketsInit == O!Init => O!Inductive
<1> SUFFICES ASSUME O!Init PROVE O!Inductive
  OBVIOUS
<1>1. DOMAIN O!NoFlows = {} /\ O!CountOf(O!NoFlows) = 0
  <2>1. DOMAIN O!NoFlows = {}
    BY DEF O!NoFlows
  <2> QED  BY <2>1, PacketsCountIs, SumFirst, FS_EmptySet
<1>2. /\ pktHelper.flows = O!NoFlows /\ pktHelper.pkts = 0 /\ pktJob.flows = O!NoFlows
      /\ pktJob.pkts = 0
      /\ pktWire = <<>>
  BY DEF O!Init
<1>3. O!FlowsTrue
  BY PacketsFinite, <1>1, <1>2, FS_EmptySet DEF O!FlowsTrue, O!Tally
<1> QED  BY <1>3, PacketsBooksInit DEF O!Inductive

(* No step leaves a packet out of its flow, or counts it twice.            *)
LEMMA PacketsStep == O!Inductive /\ [O!Next]_O!packetVars => O!Inductive'
<1> SUFFICES ASSUME O!BooksTrue, O!FlowsTrue, [O!Next]_O!packetVars PROVE O!Inductive'
  BY DEF O!Inductive
<1>1. O!BooksTrue'
  BY PacketsBooksStep
<1>2. O!FlowsTrue'
  <2>1. CASE O!Pass \/ O!Poll
    BY <2>1 DEF O!Pass, O!Poll, O!FlowsTrue
  <2>2. CASE UNCHANGED O!packetVars
    BY <2>2 DEF O!packetVars, O!FlowsTrue
  <2> QED  BY <2>1, <2>2, PacketsEndCounts, PacketsApplyCounts, PacketsTurnCounts DEF O!Next
<1> QED  BY <1>1, <1>2 DEF O!Inductive

(* The figures agree, flow by flow too, and a viewer misses nothing kept.  *)
LEMMA PacketsHolds == O!Inductive => O!TypeOK /\ O!TotalsAgree /\ O!PollsMissNothing
      /\ O!FlowsAgree
  BY PacketsFinite, PacketsBooksHold DEF O!Inductive, O!FlowsTrue, O!Tally, O!FlowsAgree

(* ... and so it is as long as this component is the one at work.          *)
LEMMA PacketsRuns == Spec => [](which = "packets" => O!Inductive)
<1>1. Init => (which = "packets" => O!Inductive)
  BY PacketsInit DEF Init
<1>2. (which = "packets" => O!Inductive) /\ [Next]_vars => (which = "packets" => O!Inductive)'
  <2> SUFFICES ASSUME which = "packets" => O!Inductive, [Next]_vars, which' = "packets"
               PROVE  O!Inductive'
    OBVIOUS
  <2>1. which = "packets" /\ (O!Next \/ UNCHANGED O!packetVars)
    BY OneAtWork DEF vars, O!packetVars
  <2> QED  BY <2>1, PacketsStep
<1> QED  BY <1>1, <1>2, PTL DEF Spec

-----------------------------------------------------------------------------
(* The upgrades of the host (host_control.py).                             *)
upUnit == v1
upNewest == v2
upLog == v3
upFacts == v4
upPc == v5
upSaw == v6
upOrphan == v7
upMishaps == v8
upWorked == v9
USE DEF upUnit, upNewest, upLog, upFacts, upPc, upSaw, upOrphan, upMishaps, upWorked

(* What a request may have seen.                                           *)
LEMMA UpgradeSightType ==
  ASSUME X!Inductive, NEW c \in X!Callers
  PROVE  /\ upSaw[c] \in [active : BOOLEAN, newest : 0..MaxRuns, exit : 0..MaxRuns]
         /\ upNewest \in Nat /\ upWorked \in Nat /\ upLog \in Int /\ upLog <= MaxRuns
         /\ MaxRuns \in Nat
         /\ upSaw[c].newest \in Nat /\ upSaw[c].exit \in Nat
<1>1. upSaw[c] \in [active : BOOLEAN, newest : 0..MaxRuns, exit : 0..MaxRuns]
  BY DEF X!Inductive, X!TypeOK
<1> QED  BY <1>1, UpgradeAssumption DEF X!Inductive, X!TypeOK, X!UpgradeSane, X!NoLog

(* What was seen stays true as more upgrades come to their log.            *)
LEMMA UpgradeSightsStay ==
  ASSUME X!Inductive, upSaw' = upSaw, upWorked' >= upWorked, upWorked' \in Nat
  PROVE  X!SeenFirst' /\ X!ExitIsOfNewest'
<1>1. \A c \in X!Callers : ~upSaw[c].active => upSaw[c].newest <= upWorked'
  BY UpgradeSightType DEF X!Inductive, X!SeenFirst
<1> QED  BY <1>1 DEF X!Inductive, X!SeenFirst, X!ExitIsOfNewest

(* The unit empties the log and then adds its own exit code.               *)
LEMMA UpgradeUnitKeeps ==
  ASSUME X!Inductive, X!Empty \/ X!WriteExit \/ X!Collected \/ X!Killed
  PROVE  X!Inductive'
<1>1. UNCHANGED <<upNewest, upFacts, upPc, upSaw, upOrphan>>
  BY DEF X!Empty, X!WriteExit, X!Collected, X!Killed
<1>2. /\ upUnit' \in {"working", "ending", "absent"}
      /\ upWorked' \in {upWorked, upNewest} /\ upLog' \in {X!NoLog, 0, upWorked'}
      /\ upUnit' \in {"working", "ending"} => upWorked' = upNewest
  BY DEF X!Empty, X!WriteExit, X!Collected, X!Killed, X!Inductive, X!LogOfNewest
<1>3. X!TypeOK' /\ upWorked' <= upNewest' /\ upWorked' >= upWorked /\ upWorked' \in Nat
  BY <1>1, <1>2, UpgradeAssumption DEF X!Inductive, X!TypeOK, X!UpgradeSane, X!NoLog
<1> QED  BY <1>1, <1>2, <1>3, UpgradeSightsStay DEF X!Inductive, X!LogOfNewest

(* A new upgrade is begun, or the log of one is removed.                   *)
LEMMA UpgradeStartKeeps ==
  ASSUME X!Inductive, NEW c \in X!Callers, X!Ask(c) \/ X!RemoveLog(c) \/ X!RunUnit(c) \/ X!Mark(c)
  PROVE  X!Inductive'
<1>1. upSaw' = upSaw /\ upWorked' = upWorked
  BY DEF X!Ask, X!RemoveLog, X!RunUnit, X!Mark, X!hostVars
<1>2. /\ upLog' \in {upLog, X!NoLog} /\ upFacts' \in {upFacts, "upgrading"}
      /\ upOrphan' \subseteq upOrphan
      /\ \E to \in {"idle", "rm", "run", "mark"} : upPc' = [upPc EXCEPT ![c] = to]
  BY DEF X!Ask, X!RemoveLog, X!RunUnit, X!Mark, X!hostVars, X!Goto
<1>3. \/ upUnit' = upUnit /\ upNewest' = upNewest
      \/ upUnit' = "begun" /\ upNewest' = upNewest + 1 /\ upNewest < MaxRuns
  BY DEF X!Ask, X!RemoveLog, X!RunUnit, X!Mark, X!hostVars, X!Active
<1>4. upNewest' \in 0..MaxRuns /\ upWorked <= upNewest'
  BY <1>3, UpgradeAssumption DEF X!Inductive, X!TypeOK, X!UpgradeSane
<1>5. X!TypeOK'
  <2>1. upPc' \in [X!Callers -> {"idle", "rm", "run", "mark", "tail", "gather", "publish"}]
    BY <1>2 DEF X!Inductive, X!TypeOK
  <2>2. upLog' \in X!NoLog..MaxRuns
    BY <1>2, UpgradeAssumption DEF X!Inductive, X!TypeOK, X!UpgradeSane, X!NoLog
  <2> QED  BY <1>1, <1>2, <1>3, <1>4, <2>1, <2>2 DEF X!Inductive, X!TypeOK
<1>6. X!LogOfNewest'
  BY <1>1, <1>2, <1>3 DEF X!Inductive, X!LogOfNewest
<1>7. upWorked' >= upWorked /\ upWorked' \in Nat
  BY <1>1, UpgradeAssumption DEF X!Inductive, X!TypeOK, X!UpgradeSane
<1> QED  BY <1>1, <1>4, <1>5, <1>6, <1>7, UpgradeSightsStay DEF X!Inductive

(* Who looks sees the newest upgrade.                                      *)
LEMMA UpgradeLookKeeps ==
  ASSUME X!Inductive, NEW c \in X!Callers, X!AskStatus(c) \/ X!Gather(c)
  PROVE  X!Inductive'
<1> DEFINE sight == [active |-> X!Active, newest |-> IF X!Active THEN upNewest ELSE upWorked,
           exit |-> 0]
<1>1. /\ UNCHANGED <<upUnit, upNewest, upWorked, upLog, upFacts, upOrphan>>
      /\ upSaw' = [upSaw EXCEPT ![c] = sight]
      /\ \E to \in {"tail", "publish"} : upPc' = [upPc EXCEPT ![c] = to]
  BY DEF X!AskStatus, X!Gather, X!hostVars, X!Look, X!Goto
<1>2. /\ sight \in [active : BOOLEAN, newest : 0..MaxRuns, exit : 0..MaxRuns]
      /\ sight.exit = 0 /\ (~sight.active => sight.newest <= upWorked)
  <2>1. upNewest \in 0..MaxRuns /\ upWorked \in 0..MaxRuns /\ 0 \in 0..MaxRuns
        /\ X!Active \in BOOLEAN
    BY UpgradeAssumption DEF X!Active, X!Inductive, X!TypeOK, X!UpgradeSane
  <2>2. upWorked <= upWorked
    BY <2>1
  <2> HIDE DEF X!Active
  <2> QED  BY <2>1, <2>2
<1> HIDE DEF sight
<1>3. X!TypeOK'
  <2>1. upPc' \in [X!Callers -> {"idle", "rm", "run", "mark", "tail", "gather", "publish"}]
    BY <1>1 DEF X!Inductive, X!TypeOK
  <2> QED  BY <1>1, <1>2, <2>1 DEF X!Inductive, X!TypeOK
<1>4. ASSUME NEW d \in X!Callers
      PROVE  /\ ~upSaw'[d].active => upSaw'[d].newest <= upWorked'
             /\ upSaw'[d].exit = 0 \/ upSaw'[d].exit >= upSaw'[d].newest
  <2>1. upSaw'[d] = IF d = c THEN sight ELSE upSaw[d]
    BY <1>1 DEF X!Inductive, X!TypeOK
  <2> QED  BY <1>1, <1>2, <2>1 DEF X!Inductive, X!SeenFirst, X!ExitIsOfNewest
<1> QED  BY <1>1, <1>3, <1>4 DEF X!Inductive, X!LogOfNewest, X!SeenFirst, X!ExitIsOfNewest

(* An exit code is answered only by who saw no unit at work.               *)
LEMMA UpgradeTailKeeps ==
  ASSUME X!Inductive, NEW c \in X!Callers, X!Tail(c)
  PROVE  X!Inductive'
<1>1. /\ UNCHANGED <<upUnit, upNewest, upWorked, upLog, upFacts, upOrphan>>
      /\ \E to \in {"idle", "gather"} : upPc' = [upPc EXCEPT ![c] = to]
  BY DEF X!Tail, X!hostVars, X!Goto
<1>2. \/ upSaw' = [upSaw EXCEPT ![c] = X!Nothing]
      \/ /\ upLog > 0 /\ ~upSaw[c].active
         /\ upSaw' = [upSaw EXCEPT ![c].exit = upLog]
  BY DEF X!Tail, X!Exit, X!Forget
<1>3. X!Nothing \in [active : BOOLEAN, newest : 0..MaxRuns, exit : 0..MaxRuns]
  BY UpgradeAssumption DEF X!Nothing, X!UpgradeSane
<1>4. ASSUME NEW d \in X!Callers
      PROVE  \/ upSaw'[d] = upSaw[d] \/ upSaw'[d] = X!Nothing
             \/ /\ upLog > 0 /\ ~upSaw[d].active /\ upSaw'[d].exit = upLog
                /\ upSaw'[d].active = upSaw[d].active
                /\ upSaw'[d].newest = upSaw[d].newest
                /\ upSaw'[d] \in [active : BOOLEAN, newest : 0..MaxRuns, exit : 0..MaxRuns]
  <2>1. upLog > 0 => upLog \in 0..MaxRuns
    BY UpgradeSightType
  <2> QED  BY <1>2, <2>1, UpgradeSightType DEF X!Inductive, X!TypeOK
<1>5. X!TypeOK'
  <2>1. upPc' \in [X!Callers -> {"idle", "rm", "run", "mark", "tail", "gather", "publish"}]
    BY <1>1 DEF X!Inductive, X!TypeOK
  <2>2. DOMAIN upSaw' = X!Callers /\ upSaw' = [d \in X!Callers |-> upSaw'[d]]
    BY <1>2 DEF X!Inductive, X!TypeOK
  <2>3. upSaw' \in [X!Callers -> [active : BOOLEAN, newest : 0..MaxRuns, exit : 0..MaxRuns]]
    BY <1>3, <1>4, <2>2, UpgradeSightType
  <2> QED  BY <1>1, <2>1, <2>3 DEF X!Inductive, X!TypeOK
<1>6. ASSUME NEW d \in X!Callers
      PROVE  /\ ~upSaw'[d].active => upSaw'[d].newest <= upWorked
             /\ upSaw'[d].exit = 0 \/ upSaw'[d].exit >= upSaw'[d].newest
  <2>1. /\ ~upSaw[d].active => upSaw[d].newest <= upWorked
        /\ upSaw[d].exit = 0 \/ upSaw[d].exit >= upSaw[d].newest
    BY DEF X!Inductive, X!SeenFirst, X!ExitIsOfNewest
  <2>2. CASE upSaw'[d] = X!Nothing
    <3>1. upSaw'[d].newest = 0 /\ upSaw'[d].exit = 0
      BY <2>2 DEF X!Nothing
    <3> QED  BY <3>1, UpgradeSightType
  <2>3. CASE upLog > 0 /\ ~upSaw[d].active /\ upSaw'[d].exit = upLog
             /\ upSaw'[d].active = upSaw[d].active
             /\ upSaw'[d].newest = upSaw[d].newest
    <3>1. upLog = upWorked
      BY <2>3 DEF X!Inductive, X!LogOfNewest, X!NoLog
    <3> QED  BY <2>1, <2>3, <3>1, UpgradeSightType
  <2> QED  BY <1>4, <2>1, <2>2, <2>3
<1> QED  BY <1>1, <1>5, <1>6 DEF X!Inductive, X!LogOfNewest, X!SeenFirst, X!ExitIsOfNewest

(* Who forgets what it saw, or fails, changes nothing on the host.         *)
LEMMA UpgradeForgetKeeps ==
  ASSUME X!Inductive, UNCHANGED <<upUnit, upNewest, upWorked, upLog>>,
         upFacts' \in {"none", "idle", "upgrading"}, upOrphan' \subseteq X!Callers,
         upPc' \in [X!Callers -> {"idle", "rm", "run", "mark", "tail", "gather", "publish"}],
         upSaw' = [c \in X!Callers |-> upSaw'[c]],
         \A c \in X!Callers : upSaw'[c] = upSaw[c] \/ upSaw'[c] = X!Nothing
  PROVE  X!Inductive'
<1>1. X!Nothing \in [active : BOOLEAN, newest : 0..MaxRuns, exit : 0..MaxRuns]
  BY UpgradeAssumption DEF X!Nothing, X!UpgradeSane
<1>2. X!TypeOK'
  <2>1. \A c \in X!Callers : upSaw'[c] \in [active : BOOLEAN, newest : 0..MaxRuns,
        exit : 0..MaxRuns]
    BY <1>1, UpgradeSightType
  <2>2. upSaw' \in [X!Callers -> [active : BOOLEAN, newest : 0..MaxRuns, exit : 0..MaxRuns]]
    BY <2>1
  <2> QED  BY <2>2 DEF X!Inductive, X!TypeOK
<1>3. ASSUME NEW d \in X!Callers
      PROVE  /\ ~upSaw'[d].active => upSaw'[d].newest <= upWorked
             /\ upSaw'[d].exit = 0 \/ upSaw'[d].exit >= upSaw'[d].newest
  <2>1. CASE upSaw'[d] = upSaw[d]
    BY <2>1 DEF X!Inductive, X!SeenFirst, X!ExitIsOfNewest
  <2>2. CASE upSaw'[d] = X!Nothing
    <3>1. upSaw'[d].newest = 0 /\ upSaw'[d].exit = 0
      BY <2>2 DEF X!Nothing
    <3> QED  BY <3>1, UpgradeSightType
  <2> QED  BY <2>1, <2>2
<1> QED  BY <1>2, <1>3 DEF X!Inductive, X!LogOfNewest, X!SeenFirst, X!ExitIsOfNewest

(* The facts, a helper that fails, a restart.                              *)
LEMMA UpgradeOthersKeep ==
  ASSUME X!Inductive,
         \/ X!Wake \/ X!AgentRestart
         \/ \E c \in X!Callers : X!Publish(c) \/ X!HelperFails(c)
  PROVE  X!Inductive'
<1> USE DEF X!Inductive, X!TypeOK
<1> DEFINE Stage == {"idle", "rm", "run", "mark", "tail", "gather", "publish"}
<1>1. CASE X!Wake
  <2>1. /\ UNCHANGED <<upUnit, upNewest, upWorked, upLog, upFacts, upOrphan, upSaw>>
        /\ upPc' = [upPc EXCEPT ![Loop] = "gather"]
    BY <1>1 DEF X!Wake, X!hostVars, X!Goto
  <2>2. upPc' \in [X!Callers -> Stage]
    BY <2>1
  <2> QED  BY <2>1, <2>2, UpgradeForgetKeeps
<1>2. CASE X!AgentRestart
  <2>1. /\ UNCHANGED <<upUnit, upNewest, upWorked,
             upLog>> /\ upFacts' = "none" /\ upOrphan' \subseteq X!Callers
        /\ upSaw' = [c \in X!Callers |-> X!Nothing]
    BY <1>2 DEF X!AgentRestart, X!hostVars
  <2>2. upPc' \in [X!Callers -> Stage]
    BY <1>2 DEF X!AgentRestart
  <2> QED  BY <2>1, <2>2, UpgradeForgetKeeps
<1>3. ASSUME NEW c \in X!Callers, X!Publish(c) \/ X!HelperFails(c) PROVE X!Inductive'
  <2>1. /\ UNCHANGED <<upUnit, upNewest, upWorked, upLog, upOrphan>>
        /\ upFacts' \in {upFacts, "upgrading", "idle"}
        /\ upSaw' = [upSaw EXCEPT ![c] = X!Nothing]
        /\ upPc' = [upPc EXCEPT ![c] = "idle"]
    BY <1>3 DEF X!Publish, X!HelperFails, X!hostVars, X!Goto, X!Forget, X!Facts
  <2>2. upPc' \in [X!Callers -> Stage]
    BY <2>1
  <2>3. /\ upSaw' = [d \in X!Callers |-> upSaw'[d]]
        /\ \A d \in X!Callers : upSaw'[d] = upSaw[d] \/ upSaw'[d] = X!Nothing
    BY <2>1
  <2> QED  BY <2>1, <2>2, <2>3, UpgradeForgetKeeps
<1> QED  BY <1>1, <1>2, <1>3

(* At the start there is no unit and no log.                               *)
LEMMA UpgradeInit == X!Init => X!Inductive
<1> SUFFICES ASSUME X!Init PROVE X!Inductive
  OBVIOUS
<1>1. X!TypeOK
  BY UpgradeAssumption DEF X!Init, X!TypeOK, X!UpgradeSane, X!NoLog, X!Nothing
<1>2. \A c \in X!Callers : upSaw[c].newest = 0 /\ upSaw[c].exit = 0
  BY DEF X!Init, X!Nothing
<1> QED  BY <1>1, <1>2 DEF X!Init, X!Inductive, X!LogOfNewest, X!SeenFirst, X!ExitIsOfNewest,
                  X!NoLog

(* No step of the unit, of requests and of the loop breaks it.             *)
LEMMA UpgradeStep == X!Inductive /\ [X!Next]_X!upgradeVars => X!Inductive'
<1> SUFFICES ASSUME X!Inductive, [X!Next]_X!upgradeVars PROVE X!Inductive'
  OBVIOUS
<1>1. CASE X!Next
  <2>1. Loop \in X!Callers
    BY DEF X!Callers
  <2> QED  BY <1>1, <2>1, UpgradeUnitKeeps, UpgradeStartKeeps, UpgradeLookKeeps,
                    UpgradeTailKeeps, UpgradeOthersKeep DEF X!Next, X!LoopSteps
<1>2. CASE UNCHANGED X!upgradeVars
  BY <1>2 DEF X!upgradeVars, X!Inductive, X!TypeOK, X!LogOfNewest, X!SeenFirst, X!ExitIsOfNewest
<1> QED  BY <1>1, <1>2

(* An exit code that is reported is not that of an earlier upgrade.        *)
LEMMA UpgradeHolds == X!Inductive => X!TypeOK /\ X!ExitIsOfNewest
  BY DEF X!Inductive

(* ... and so it is as long as this component is the one at work.          *)
LEMMA UpgradeRuns == Spec => [](which = "upgrade" => X!Inductive)
<1>1. Init => (which = "upgrade" => X!Inductive)
  BY UpgradeInit DEF Init
<1>2. (which = "upgrade" => X!Inductive) /\ [Next]_vars => (which = "upgrade" => X!Inductive)'
  <2> SUFFICES ASSUME which = "upgrade" => X!Inductive, [Next]_vars, which' = "upgrade"
               PROVE  X!Inductive'
    OBVIOUS
  <2>1. which = "upgrade" /\ (X!Next \/ UNCHANGED X!upgradeVars)
    BY OneAtWork DEF vars, X!upgradeVars
  <2> QED  BY <2>1, UpgradeStep
<1> QED  BY <1>1, <1>2, PTL DEF Spec

-----------------------------------------------------------------------------
(* The pings (probes.py).                                                  *)
pingClock == v1
pingNow == v2
pingPc == v3
pingRaw == v4
pingSent == v5
pingRtt == v6
pingInbox == v7
pingVerdict == v8
pingHeard == v9
USE DEF pingClock, pingNow, pingPc, pingRaw, pingSent, pingRtt, pingInbox, pingVerdict,
        pingHeard

(* The component counts as this module does.                               *)
LEMMA BurstFinite == \A set : Y!IsFiniteSet(set) = IsFiniteSet(set)
  BY DEF IsFiniteSet, Y!IsFiniteSet

(* ... and its sets have as many elements.                                 *)
LEMMA BurstCount == \A set : Y!Cardinality(set) = Cardinality(set)
  BY BurstFinite DEF Cardinality, Y!Cardinality

(* At least one echo is to be sent.                                        *)
LEMMA BurstCountIsSome == Y!Count \in Nat \ {0}
<1>1. Timeout \div Gap \in Nat
  BY BurstAssumption DEF Y!BurstSane
<1> QED  BY <1>1, BurstAssumption DEF Y!Count, Y!Least, Y!BurstSane

(* Every echo is due before the time is over.                              *)
LEMMA BurstDueInTime ==
  ASSUME NEW n \in Nat, n < Y!Count
  PROVE  n * Gap <= Timeout
<1>1. CASE n = 0
  BY <1>1, BurstAssumption DEF Y!BurstSane
<1>2. CASE n # 0
  <2> DEFINE most == Timeout \div Gap
  <2>1. most \in Nat /\ most * Gap <= Timeout
    BY BurstAssumption DEF Y!BurstSane
  <2>2. n <= most
    BY <1>2, <2>1, BurstAssumption DEF Y!Count, Y!Least, Y!BurstSane
  <2> HIDE DEF most
  <2>3. n * Gap <= most * Gap
    BY <2>1, <2>2, BurstAssumption DEF Y!BurstSane
  <2>4. n * Gap \in Nat /\ most * Gap \in Nat
    BY <2>1, BurstAssumption DEF Y!BurstSane
  <2> QED  BY <2>1, <2>3, <2>4, BurstAssumption DEF Y!BurstSane
<1> QED  BY <1>1, <1>2

(* Echoes that are answered are of those that were sent.                   *)
LEMMA BurstAnsweredCounted ==
  ASSUME Y!Inductive
  PROVE  /\ DOMAIN pingSent = 1..Len(pingSent) /\ Len(pingSent) \in Nat
         /\ Cardinality(DOMAIN pingRtt) \in 0..Len(pingSent)
         /\ Cardinality(DOMAIN pingRtt) = Y!Count => Len(pingSent) = Y!Count
              /\ DOMAIN pingRtt = DOMAIN pingSent
<1>1. DOMAIN pingSent = 1..Len(pingSent) /\ Len(pingSent) \in Nat /\ Len(pingSent) <= Y!Count
  BY DEF Y!Inductive, Y!Timed, Y!TypeOK
<1>2. IsFiniteSet(1..Len(pingSent)) /\ Cardinality(1..Len(pingSent)) = Len(pingSent)
  <2>1. ASSUME NEW n \in Nat PROVE IsFiniteSet(1..n) /\ Cardinality(1..n) = n
    <3>1. IsFiniteSet(1..n) /\ Cardinality(1..n) = IF 1 > n THEN 0 ELSE n - 1 + 1
      BY FS_Interval
    <3> QED  BY <3>1
  <2> QED  BY <1>1, <2>1
<1>3. DOMAIN pingRtt \subseteq 1..Len(pingSent)
  BY <1>1 DEF Y!Inductive, Y!TypeOK
<1>4. /\ Cardinality(DOMAIN pingRtt) \in Nat /\ Cardinality(DOMAIN pingRtt) <= Len(pingSent)
      /\ Cardinality(DOMAIN pingRtt) = Len(pingSent) => DOMAIN pingRtt = 1..Len(pingSent)
  BY <1>1, <1>2, <1>3, FS_Subset, FS_CardinalityType
<1>5. Cardinality(DOMAIN pingRtt) = Cardinality(DOMAIN pingRtt)
  BY BurstCount
<1>6. ASSUME NEW n, n \in Nat, n <= Len(pingSent)
      PROVE  n \in 0..Len(pingSent)
             /\ (n = Y!Count => Len(pingSent) = Y!Count /\ n = Len(pingSent))
  <2>1. Len(pingSent) \in Nat /\ Len(pingSent) <= Y!Count
    BY <1>1
  <2> QED  BY <1>6, <2>1, BurstCountIsSome
<1> QED  BY <1>1, <1>4, <1>5, <1>6

(* Time and what comes from the network change no result.                  *)
LEMMA BurstOutsideKeeps ==
  ASSUME Y!Inductive, Y!Pass \/ Y!Arrive
  PROVE  Y!Inductive'
<1> USE DEF Y!Inductive
<1>1. CASE Y!Pass
  <2>1. Y!TypeOK'
    BY <1>1, BurstAssumption DEF Y!Pass, Y!TypeOK, Y!BurstSane
  <2>2. Y!Timed'
    BY <1>1 DEF Y!Pass, Y!Timed, Y!TypeOK
  <2>3. Y!RoundTrips' /\ Y!Messages' /\ Y!BurstTrue'
    BY <1>1 DEF Y!Pass, Y!RoundTrips, Y!Messages, Y!BurstTrue, Y!Unread, Y!Counts
  <2> QED  BY <1>1, <2>1, <2>2, <2>3 DEF Y!Pass
<1>2. CASE Y!Arrive
  <2>1. UNCHANGED <<pingClock, pingNow, pingPc, pingRaw, pingSent, pingRtt,
        pingVerdict>> /\ pingPc # "done"
    BY <1>2 DEF Y!Arrive
  <2>2. PICK m \in Y!Message :
          /\ Y!Counts(m) => m.seq \in DOMAIN pingSent
          /\ ~m.mine => pingRaw
          /\ pingInbox' = Append(pingInbox, m)
          /\ pingHeard' = IF Y!Counts(m) /\ m.seq \notin DOMAIN pingHeard
                          THEN Y!Put(pingHeard, m.seq, pingClock) ELSE pingHeard
    BY <1>2 DEF Y!Arrive
  <2>3. /\ pingInbox' \in Seq(Y!Message) /\ Len(pingInbox') = Len(pingInbox) + 1
        /\ \A i \in 1..Len(pingInbox) : pingInbox'[i] = pingInbox[i]
        /\ pingInbox'[Len(pingInbox) + 1] = m
        /\ DOMAIN pingInbox = 1..Len(pingInbox) /\ DOMAIN pingInbox' = 1..(Len(pingInbox) + 1)
        /\ Len(pingInbox) \in Nat
    BY <2>2 DEF Y!Messages
  <2>4. /\ pingHeard' \in [DOMAIN pingHeard' -> 0..pingClock]
        /\ DOMAIN pingHeard' \subseteq DOMAIN pingSent
        /\ DOMAIN pingHeard \subseteq DOMAIN pingHeard'
        /\ \A seq \in DOMAIN pingHeard : pingHeard'[seq] = pingHeard[seq]
        /\ \A seq \in DOMAIN pingHeard' \ DOMAIN pingHeard : Y!Counts(m) /\ m.seq = seq
        /\ Y!Counts(m) => m.seq \in DOMAIN pingHeard'
    <3>1. pingClock \in 0..pingClock
      BY BurstAssumption DEF Y!TypeOK, Y!BurstSane
    <3>2. CASE Y!Counts(m) /\ m.seq \notin DOMAIN pingHeard
      BY <2>2, <3>1, <3>2 DEF Y!Put, Y!Timed, Y!TypeOK
    <3>3. CASE ~(Y!Counts(m) /\ m.seq \notin DOMAIN pingHeard)
      BY <2>2, <3>3 DEF Y!Timed, Y!TypeOK
    <3> QED  BY <3>2, <3>3
  <2>5. Y!TypeOK' /\ Y!Timed'
    BY <2>1, <2>4 DEF Y!TypeOK, Y!Timed
  <2>6. Y!Messages'
    BY <2>1, <2>2, <2>3, <2>4 DEF Y!Messages, Y!Counts
  <2>7. \A seq \in DOMAIN pingHeard : Y!Unread(seq) => Y!Unread(seq)'
    BY <2>3 DEF Y!Unread, Y!Counts
  <2>8. ASSUME Y!Counts(m) PROVE Y!Unread(m.seq)'
    <3>1. Len(pingInbox) + 1 \in DOMAIN pingInbox'
      BY <2>3
    <3> QED  BY <2>3, <2>8, <3>1 DEF Y!Unread, Y!Counts
  <2>9. Y!RoundTrips'
    <3>1. ASSUME NEW seq \in DOMAIN pingHeard' \ DOMAIN pingRtt PROVE Y!Unread(seq)'
      <4>1. CASE seq \in DOMAIN pingHeard
        BY <2>7, <3>1, <4>1 DEF Y!RoundTrips
      <4>2. CASE seq \notin DOMAIN pingHeard
        BY <2>4, <2>8, <3>1, <4>2
      <4> QED  BY <4>1, <4>2
    <3>2. \A seq \in DOMAIN pingRtt : seq \in DOMAIN pingHeard'
          /\ pingRtt[seq] >= pingHeard'[seq] - pingSent[seq]
      BY <2>4 DEF Y!RoundTrips
    <3> QED  BY <2>1, <3>1, <3>2 DEF Y!RoundTrips
  <2>10. pingVerdict'.kind = "none"
    BY <2>1 DEF Y!TypeOK
  <2> QED  BY <2>5, <2>6, <2>9, <2>10 DEF Y!BurstTrue
<1> QED  BY <1>1, <1>2

(* An echo that is sent has no answer yet.                                 *)
LEMMA BurstSendKeeps ==
  ASSUME Y!Inductive, Y!Send
  PROVE  Y!Inductive'
<1> USE DEF Y!Inductive
<1>1. /\ pingSent' = Append(pingSent, pingClock) /\ Len(pingSent) < Y!Count /\ pingPc = "sending"
      /\ UNCHANGED <<pingClock, pingNow, pingPc, pingRaw, pingRtt, pingInbox, pingVerdict,
           pingHeard>>
  BY DEF Y!Send, Y!SendDue
<1>2. /\ pingSent' \in Seq(0..PingEnd) /\ Len(pingSent') = Len(pingSent) + 1
      /\ Len(pingSent) \in Nat
      /\ DOMAIN pingSent = 1..Len(pingSent) /\ DOMAIN pingSent' = 1..(Len(pingSent) + 1)
      /\ \A i \in 1..Len(pingSent) : pingSent'[i] = pingSent[i]
  BY <1>1 DEF Y!Timed, Y!TypeOK
<1>3. DOMAIN pingSent \subseteq DOMAIN pingSent' /\ Len(pingSent') <= Y!Count
  BY <1>1, <1>2, BurstCountIsSome
<1>4. Y!TypeOK'
  BY <1>1, <1>3 DEF Y!TypeOK
<1>5. Y!Timed'
  BY <1>1, <1>2 DEF Y!Timed
<1>6. Y!RoundTrips'
  BY <1>1, <1>2, <1>3 DEF Y!RoundTrips, Y!TypeOK, Y!Unread, Y!Counts
<1>7. Y!Messages'
  BY <1>1, <1>3 DEF Y!Messages, Y!Counts
<1>8. pingVerdict'.kind = "none"
  BY <1>1 DEF Y!TypeOK
<1> QED  BY <1>1, <1>4, <1>5, <1>6, <1>7, <1>8 DEF Y!BurstTrue

(* The verdict, when all are answered or the time is over.                 *)
LEMMA BurstSentKeeps ==
  ASSUME Y!Inductive, Y!Sent
  PROVE  Y!Inductive'
<1> USE DEF Y!Inductive
<1>1. UNCHANGED <<pingClock, pingNow, pingRaw, pingSent, pingRtt, pingInbox,
      pingHeard>> /\ pingPc = "sending" /\ ~Y!SendDue
  BY DEF Y!Sent
<1>2. Y!Timed' /\ Y!RoundTrips' /\ Y!Messages'
  BY <1>1 DEF Y!Timed, Y!RoundTrips, Y!Messages, Y!Unread, Y!Counts
<1>3. CASE Y!Over
  <2>1. /\ pingPc' = "done"
        /\ pingVerdict' = [kind |-> IF pingRtt = Y!Nothing THEN "down" ELSE "up",
                           loss |-> Y!Count - Cardinality(DOMAIN pingRtt)]
    BY <1>3, BurstCount DEF Y!Sent
  <2>2. Len(pingSent) = Y!Count
    <3>1. CASE pingNow >= Timeout
      <4>1. SUFFICES ASSUME Len(pingSent) < Y!Count PROVE FALSE
        BY BurstAnsweredCounted, BurstCountIsSome DEF Y!TypeOK
      <4>2. Len(pingSent) \in Nat /\ Len(pingSent) * Gap <= Timeout
        BY <4>1, BurstAnsweredCounted, BurstDueInTime
      <4>3. Len(pingSent) * Gap \in Nat /\ pingNow \in Nat
        BY <4>2, BurstAssumption DEF Y!BurstSane, Y!TypeOK
      <4> QED  BY <1>1, <3>1, <4>1, <4>2, <4>3, BurstAssumption DEF Y!SendDue, Y!BurstSane
    <3> QED  BY <1>3, <3>1, BurstAnsweredCounted, BurstCount DEF Y!Over
  <2>3. pingVerdict'.loss \in 0..Y!Count
    BY <2>1, <2>2, BurstAnsweredCounted, BurstCountIsSome
  <2>4. Y!TypeOK'
    BY <1>1, <2>1, <2>3 DEF Y!TypeOK
  <2>5. \A seq \in DOMAIN pingHeard \ DOMAIN pingRtt : pingNow >= Timeout /\ Y!Unread(seq)
    <3>1. \A seq \in DOMAIN pingHeard \ DOMAIN pingRtt : Y!Unread(seq)
      BY DEF Y!RoundTrips
    <3>2. CASE pingNow >= Timeout
      BY <3>1, <3>2
    <3>3. CASE Cardinality(DOMAIN pingRtt) = Y!Count
      BY <3>3, BurstAnsweredCounted, BurstCount DEF Y!TypeOK
    <3>4. pingNow >= Timeout \/ Cardinality(DOMAIN pingRtt) = Y!Count
      BY <1>3, BurstCount DEF Y!Over
    <3> HIDE DEF Y!Inductive
    <3> QED  BY <3>2, <3>3, <3>4
  <2>6. Y!BurstTrue'
    <3>1. \A seq \in DOMAIN pingHeard \ DOMAIN pingRtt : pingNow' >= Timeout /\ Y!Unread(seq)'
      BY <1>1, <2>5 DEF Y!Unread, Y!Counts
    <3>2. \A seq \in DOMAIN pingRtt : seq \in DOMAIN pingHeard
          /\ pingRtt[seq] >= pingHeard[seq] - pingSent[seq]
      BY DEF Y!RoundTrips
    <3> QED  BY <1>1, <2>1, <2>2, <3>1, <3>2, BurstCount DEF Y!BurstTrue
  <2> QED  BY <1>2, <2>1, <2>4, <2>6
<1>4. CASE ~Y!Over
  <2>1. pingPc' = "waiting" /\ pingVerdict' = pingVerdict
    BY <1>4 DEF Y!Sent
  <2>2. pingVerdict.kind = "none"
    BY <1>1 DEF Y!TypeOK
  <2> QED  BY <1>1, <1>2, <2>1, <2>2 DEF Y!TypeOK, Y!BurstTrue
<1> QED  BY <1>3, <1>4

(* The first message about an echo is its answer, others change nothing.   *)
LEMMA BurstReceiveKeeps ==
  ASSUME Y!Inductive, Y!Receive
  PROVE  Y!Inductive'
<1> USE DEF Y!Inductive
<1> DEFINE m == Head(pingInbox)
<1>1. /\ pingInbox # <<>> /\ pingInbox' = Tail(pingInbox) /\ pingPc = "waiting"
      /\ UNCHANGED <<pingClock, pingNow, pingRaw, pingSent, pingHeard>>
  BY DEF Y!Receive
<1>2. pingVerdict.kind = "none"
  BY <1>1 DEF Y!TypeOK
<1>3. /\ m \in Y!Message /\ 1 \in DOMAIN pingInbox /\ m = pingInbox[1]
      /\ Y!Counts(m) => m.seq \in DOMAIN pingHeard
      /\ ~m.mine => pingRaw
  <2>1. m = pingInbox[1] /\ 1 \in DOMAIN pingInbox
    BY <1>1 DEF Y!Messages
  <2> HIDE DEF m
  <2> QED  BY <2>1 DEF Y!Messages
<1>4. /\ pingInbox' \in Seq(Y!Message) /\ DOMAIN pingInbox = 1..Len(pingInbox)
      /\ Len(pingInbox) \in Nat
      /\ \A i \in DOMAIN pingInbox' : i + 1 \in DOMAIN pingInbox
           /\ pingInbox'[i] = pingInbox[i + 1]
      /\ \A i \in DOMAIN pingInbox \ {1} : i - 1 \in DOMAIN pingInbox'
           /\ pingInbox'[i - 1] = pingInbox[i]
  BY <1>1 DEF Y!Messages
<1>5. Y!Messages'
  BY <1>1, <1>4 DEF Y!Messages, Y!Counts
<1>6. ASSUME NEW seq, Y!Unread(seq), ~(Y!Counts(m) /\ m.seq = seq) PROVE Y!Unread(seq)'
  <2>1. PICK i \in DOMAIN pingInbox : Y!Counts(pingInbox[i]) /\ pingInbox[i].seq = seq
    BY <1>6 DEF Y!Unread
  <2>2. i # 1
    BY <1>3, <1>6, <2>1
  <2>3. Y!Counts(pingInbox'[i - 1]) /\ pingInbox'[i - 1].seq = seq /\ i - 1 \in DOMAIN pingInbox'
    BY <1>4, <2>1, <2>2
  <2> QED  BY <2>3 DEF Y!Unread, Y!Counts
<1>7. CASE m.kind = "unreachable"
  <2>1. pingPc' = "done" /\ pingVerdict' = [kind |-> "unreachable", loss |-> 0]
        /\ pingRtt' = pingRtt
    BY <1>7 DEF Y!Receive
  <2>2. Y!TypeOK' /\ Y!Timed' /\ Y!BurstTrue'
    BY <1>1, <2>1, BurstCountIsSome DEF Y!TypeOK, Y!Timed, Y!BurstTrue
  <2>3. ~Y!Counts(m)
    BY <1>7 DEF Y!Counts
  <2>4. Y!RoundTrips'
    BY <1>1, <1>6, <2>1, <2>3 DEF Y!RoundTrips
  <2> QED  BY <1>5, <2>1, <2>2, <2>4
<1>8. CASE m.kind # "unreachable"
  <2> DEFINE new == Y!Counts(m) /\ m.seq \notin DOMAIN pingRtt
  <2>1. m.kind = "reply" /\ m.mine \in BOOLEAN
    BY <1>3, <1>8 DEF Y!Message
  <2>2. /\ pingPc' = "top" /\ pingVerdict' = pingVerdict
        /\ pingRtt' = IF Y!Accepted(m) THEN Y!Put(pingRtt, m.seq,
             pingClock - pingSent[m.seq]) ELSE pingRtt
    BY <1>8 DEF Y!Receive
  <2>3. Y!Counts(m) => m.seq \in DOMAIN pingSent
    BY <1>3 DEF Y!TypeOK
  <2> HIDE DEF m
  <2>4. Y!Accepted(m) <=> new
    BY <1>3, <2>1, <2>3 DEF Y!Accepted, Y!Counts
  <2>5. Y!TypeOK' /\ Y!Timed' /\ Y!RoundTrips'
    <3>1. CASE ~new
      <4>1. pingRtt' = pingRtt
        BY <2>2, <2>4, <3>1
      <4>2. \A seq \in DOMAIN pingHeard \ DOMAIN pingRtt : Y!Unread(seq)'
        BY <1>6, <3>1 DEF Y!RoundTrips
      <4> QED  BY <1>1, <2>2, <4>1, <4>2 DEF Y!TypeOK, Y!Timed, Y!RoundTrips
    <3>2. CASE new
      <4>1. /\ pingRtt' = Y!Put(pingRtt, m.seq, pingClock - pingSent[m.seq])
            /\ m.seq \in DOMAIN pingSent /\ m.seq \in DOMAIN pingHeard
        BY <1>3, <2>2, <2>3, <2>4, <3>2
      <4>2. pingSent[m.seq] \in Int /\ pingClock \in Int
        <5>1. pingSent \in Seq(0..PingEnd) /\ m.seq \in 1..Len(pingSent)
          BY <4>1 DEF Y!Timed
        <5>2. pingSent[m.seq] \in 0..PingEnd
          BY <5>1, ElementOfSeq
        <5> QED  BY <5>2, BurstAssumption DEF Y!TypeOK, Y!BurstSane
      <4>3. /\ DOMAIN pingRtt' = DOMAIN pingRtt \cup {m.seq}
            /\ pingRtt'[m.seq] = pingClock - pingSent[m.seq]
            /\ \A x \in DOMAIN pingRtt \ {m.seq} : pingRtt'[x] = pingRtt[x]
        BY <4>1 DEF Y!Put
      <4>4. pingRtt' \in [DOMAIN pingRtt' -> Int]
        BY <4>1, <4>2 DEF Y!Put, Y!Timed
      <4>5. pingClock - pingSent[m.seq] >= pingHeard[m.seq] - pingSent[m.seq]
        <5>1. pingHeard[m.seq] \in 0..pingClock
          BY <4>1 DEF Y!Timed
        <5> QED  BY <4>2, <5>1
      <4>6. \A seq \in DOMAIN pingHeard \ DOMAIN pingRtt' : Y!Unread(seq)'
        BY <1>6, <4>3 DEF Y!RoundTrips
      <4>7. \A seq \in DOMAIN pingRtt' : seq \in DOMAIN pingHeard
            /\ pingRtt'[seq] >= pingHeard[seq] - pingSent[seq]
        BY <4>1, <4>3, <4>5 DEF Y!RoundTrips
      <4>8. Y!TypeOK'
        BY <1>1, <2>2, <4>1, <4>3 DEF Y!TypeOK
      <4> QED  BY <1>1, <4>4, <4>6, <4>7, <4>8 DEF Y!Timed, Y!RoundTrips
    <3> QED  BY <3>1, <3>2
  <2> QED  BY <1>2, <1>5, <2>2, <2>5 DEF Y!BurstTrue
<1> QED  BY <1>7, <1>8

(* The other steps only move the loop.                                     *)
LEMMA BurstLoopKeeps ==
  ASSUME Y!Inductive, Y!Top \/ Y!Silence
  PROVE  Y!Inductive'
<1> USE DEF Y!Inductive
<1>1. /\ UNCHANGED <<pingClock, pingRaw, pingSent, pingRtt, pingInbox, pingVerdict, pingHeard>>
      /\ pingNow' \in {pingNow, pingClock} /\ pingPc \in {"top", "waiting"}
      /\ pingPc' \in {"top", "sending"}
  BY DEF Y!Top, Y!Silence
<1>2. pingVerdict.kind = "none"
  BY <1>1 DEF Y!TypeOK
<1>3. Y!TypeOK'
  BY <1>1 DEF Y!TypeOK
<1> QED  BY <1>1, <1>2, <1>3 DEF Y!Timed, Y!RoundTrips, Y!Messages, Y!BurstTrue, Y!Unread,
                  Y!Counts

(* At the start nothing was sent.                                          *)
LEMMA BurstInit == Y!Init => Y!Inductive
<1> SUFFICES ASSUME Y!Init PROVE Y!Inductive
  OBVIOUS
<1>1. Y!TypeOK
  BY BurstAssumption, BurstCountIsSome DEF Y!Init, Y!TypeOK, Y!Nothing, Y!Undecided, Y!BurstSane
<1>2. Y!Timed /\ Y!RoundTrips
  BY DEF Y!Init, Y!Timed, Y!RoundTrips, Y!Nothing
<1>3. Y!Messages
  BY DEF Y!Init, Y!Messages
<1> QED  BY <1>1, <1>2, <1>3 DEF Y!Init, Y!Inductive, Y!Undecided, Y!BurstTrue

(* No step of the loop or of the network breaks it.                        *)
LEMMA BurstStep == Y!Inductive /\ [Y!Next]_Y!burstVars => Y!Inductive'
<1> SUFFICES ASSUME Y!Inductive, [Y!Next]_Y!burstVars PROVE Y!Inductive'
  OBVIOUS
<1>1. CASE Y!Next
  BY <1>1, BurstOutsideKeeps, BurstSendKeeps, BurstSentKeeps, BurstReceiveKeeps,
           BurstLoopKeeps DEF Y!Next
<1>2. CASE UNCHANGED Y!burstVars
  BY <1>2 DEF Y!burstVars, Y!Inductive, Y!TypeOK, Y!Timed, Y!RoundTrips, Y!Messages, Y!BurstTrue,
            Y!Unread, Y!Counts
<1> QED  BY <1>1, <1>2

(* The result is true of the echoes and the answers to them.               *)
LEMMA BurstHolds == Y!Inductive => Y!TypeOK /\ Y!BurstTrue
  BY DEF Y!Inductive

(* ... and so it is as long as this component is the one at work.          *)
LEMMA BurstRuns == Spec => [](which = "ping" => Y!Inductive)
<1>1. Init => (which = "ping" => Y!Inductive)
  BY BurstInit DEF Init
<1>2. (which = "ping" => Y!Inductive) /\ [Next]_vars => (which = "ping" => Y!Inductive)'
  <2> SUFFICES ASSUME which = "ping" => Y!Inductive, [Next]_vars, which' = "ping"
               PROVE  Y!Inductive'
    OBVIOUS
  <2>1. which = "ping" /\ (Y!Next \/ UNCHANGED Y!burstVars)
    BY OneAtWork DEF vars, Y!burstVars
  <2> QED  BY <2>1, BurstStep
<1> QED  BY <1>1, <1>2, PTL DEF Spec

-----------------------------------------------------------------------------
(* The bar of an update (updates.py).                                      *)
barLayers == v1
barPeak == v2
barStage == v3
barIndex == v4
barPercent == v5
barLowered == v6
USE DEF barLayers, barPeak, barStage, barIndex, barPercent, barLowered

(* The sets of the model are finite, and counted, as everywhere.           *)
LEMMA BarFinite == \A set : U!IsFiniteSet(set) = IsFiniteSet(set)
  BY DEF IsFiniteSet, U!IsFiniteSet

(* The smaller of two, and the larger.                                     *)
LEMMA BarMinMaxIs ==
  ASSUME NEW m \in Int, NEW n \in Int
  PROVE  /\ U!Min({m, n}) = IF m <= n THEN m ELSE n
         /\ U!Max({m, n}) = IF m >= n THEN m ELSE n
<1>1. /\ U!Min({m, n}) \in {m, n} /\ \A y \in {m, n} : U!Min({m, n}) <= y
  <2>1. \E x \in {m, n} : \A y \in {m, n} : x <= y
    OBVIOUS
  <2> QED  BY <2>1 DEF U!Min
<1>2. /\ U!Max({m, n}) \in {m, n} /\ \A y \in {m, n} : U!Max({m, n}) >= y
  <2>1. \E x \in {m, n} : \A y \in {m, n} : x >= y
    OBVIOUS
  <2> QED  BY <2>1 DEF U!Max
<1> QED  BY <1>1, <1>2

(* What has been loaded, and what there is to load, are natural numbers.   *)
LEMMA BarLoadedIs ==
  ASSUME NEW ls, IsFiniteSet(DOMAIN ls),
         \A l \in DOMAIN ls : ls[l].total \in Nat /\ ls[l].current \in Nat
  PROVE  U!Current(ls) \in Nat /\ U!Total(ls) \in Nat
<1> DEFINE dom == DOMAIN ls
           loaded == [l \in dom |-> ls[l].current]
           whole == [l \in dom |-> ls[l].total]
<1>1. PICK some : Sums(loaded, dom, some)
  BY SumsExist
<1>2. PICK all : Sums(whole, dom, all)
  BY SumsExist
<1>3. \A set \in SUBSET dom : set # {} => First(set) \in dom
  BY DEF First
<1> DEFINE Loads(sum) == sum = [set \in SUBSET dom |->
                                  IF set = {} THEN 0
                                  ELSE ls[CHOOSE x \in set : TRUE].current
                                         + sum[set \ {CHOOSE x \in set : TRUE}]]
           Wholes(sum) == sum = [set \in SUBSET dom |->
                                   IF set = {} THEN 0
                                   ELSE ls[CHOOSE x \in set : TRUE].total
                                          + sum[set \ {CHOOSE x \in set : TRUE}]]
<1>4. \A sum : /\ Loads(sum) <=> Sums(loaded, dom, sum)
               /\ Wholes(sum) <=> Sums(whole, dom, sum)
  BY <1>3 DEF Sums, First
<1>5. /\ U!Current(ls) = (CHOOSE sum : Loads(sum))[dom]
      /\ U!Total(ls) = (CHOOSE sum : Wholes(sum))[dom]
  BY DEF U!Current, U!Total, U!MapThenSumSet, U!MapThenFoldSet
<1> HIDE DEF Loads, Wholes
<1> DEFINE load == CHOOSE sum : Loads(sum)
           total == CHOOSE sum : Wholes(sum)
<1>6. Sums(loaded, dom, load) /\ Sums(whole, dom, total)
  BY <1>1, <1>2, <1>4
<1> HIDE DEF load, total
<1>7. load[dom] = SumOn(loaded, dom) /\ total[dom] = SumOn(whole, dom)
  <2> DEFINE of(f) == CHOOSE sum : Sums(f, dom, sum)
  <2>1. Sums(loaded, dom, of(loaded)) /\ Sums(whole, dom, of(whole))
    BY SumsExist
  <2> HIDE DEF of, loaded, whole
  <2>2. load[dom] = of(loaded)[dom] /\ total[dom] = of(whole)[dom]
    BY <1>6, <2>1, SumsAgree
  <2> QED  BY <2>2 DEF SumOn, of
<1>8. SumOn(loaded, dom) \in Nat /\ SumOn(whole, dom) \in Nat
  BY SumType
<1> QED  BY <1>5, <1>7, <1>8 DEF load, total

(* A fraction is between nothing and all.                                  *)
LEMMA BarFractionIs ==
  ASSUME NEW ls, U!Current(ls) \in Nat, U!Total(ls) \in Nat
  PROVE  U!Fraction(ls) \in 0..Units
<1>1. Units \in Nat \ {0}
  BY ProgressAssumption DEF U!ProgressSane
<1>2. CASE U!Total(ls) = 0
  BY <1>1, <1>2 DEF U!Fraction
<1>3. CASE U!Total(ls) # 0
  <2> DEFINE share == (Units * U!Current(ls)) \div U!Total(ls)
  <2>1. Units * U!Current(ls) \in Nat
    BY <1>1
  <2>2. share \in Nat
    BY <1>3, <2>1
  <2>3. U!Fraction(ls) = U!Min({Units, share})
    BY <1>3 DEF U!Fraction
  <2> HIDE DEF share
  <2> QED  BY <1>1, <2>2, <2>3, BarMinMaxIs
<1> QED  BY <1>2, <1>3

(* The parts of a project on the bar.                                      *)
LEMMA BarSharesAre ==
  ASSUME U!TypeOK
  PROVE  /\ Units \in Nat \ {0} /\ U!PullShare = 17 * Units /\ U!UpShare = 2 * Units
         /\ U!WholeProject = 20 * Units /\ ProjectsOfJob \in Nat \ {0}
         /\ barIndex \in Nat /\ barIndex < ProjectsOfJob /\ U!Begun \in Nat /\ barPercent \in Nat
         /\ U!Begun + U!WholeProject <= ProjectsOfJob * U!WholeProject
         /\ ProjectsOfJob * U!WholeProject \in Nat
         /\ (barIndex + 1) * U!WholeProject = U!Begun + U!WholeProject
<1>1. Units \in Nat \ {0} /\ ProjectsOfJob \in Nat \ {0}
  BY ProgressAssumption DEF U!ProgressSane
<1>2. barIndex \in 0..(ProjectsOfJob - 1) /\ barPercent \in 0..(ProjectsOfJob * U!WholeProject)
  BY DEF U!TypeOK
<1>3. U!WholeProject = 20 * Units /\ U!WholeProject \in Nat
  BY <1>1 DEF U!WholeProject
<1>4. \A m, n, w \in Nat : m * w \in Nat /\ (m <= n => m * w <= n * w) /\ (m + 1) * w = m * w + w
  OBVIOUS
<1>5. barIndex \in Nat /\ barIndex + 1 \in Nat /\ barIndex + 1 <= ProjectsOfJob
  BY <1>1, <1>2
<1>6. /\ U!Begun \in Nat /\ (barIndex + 1) * U!WholeProject = U!Begun + U!WholeProject
      /\ (barIndex + 1) * U!WholeProject <= ProjectsOfJob * U!WholeProject
      /\ ProjectsOfJob * U!WholeProject \in Nat
  BY <1>1, <1>3, <1>4, <1>5 DEF U!Begun
<1> QED  BY <1>1, <1>2, <1>3, <1>5, <1>6 DEF U!PullShare, U!UpShare

(* What is shown of a project is within its part of the bar.               *)
LEMMA BarShownIs ==
  ASSUME U!TypeOK, NEW within \in 0..U!WholeProject, U!Show(within)
  PROVE  /\ barPercent' = U!Begun + within /\ barPercent' \in 0..(ProjectsOfJob * U!WholeProject)
         /\ barLowered' = (barLowered \/ U!Begun + within < barPercent)
<1>1. /\ U!Begun \in Nat /\ U!WholeProject \in Nat
      /\ U!Begun + U!WholeProject <= ProjectsOfJob * U!WholeProject
      /\ ProjectsOfJob * U!WholeProject \in Nat
  BY BarSharesAre
<1>2. U!Min({within, U!WholeProject}) = within
  BY <1>1, BarMinMaxIs
<1>3. barPercent' = U!Begun + within
      /\ barLowered' = (barLowered \/ U!Begun + within < barPercent)
  BY <1>2 DEF U!Show, U!Begun
<1> HIDE DEF U!Show
<1>4. barPercent' \in 0..(ProjectsOfJob * U!WholeProject)
  BY <1>1, <1>3
<1> QED  BY <1>3, <1>4

(* The bar moves only while a project's images are loaded, up to its share.*)
LEMMA BarPublishKeeps ==
  ASSUME U!Inductive, U!Publish
  PROVE  U!Inductive'
<1>1. U!TypeOK /\ barStage = "pulling" /\ ~barLowered /\ IsFiniteSet(DOMAIN barLayers)
      /\ barPercent <= U!Begun + 17 * barPeak
  BY BarFinite DEF U!Inductive, U!Publish
<1>2. /\ barPeak' = U!Peak(barLayers) /\ U!Show(17 * U!Peak(barLayers))
      /\ UNCHANGED <<barLayers, barStage, barIndex>>
  BY DEF U!Publish
<1>3. \A l \in DOMAIN barLayers : barLayers[l].total \in Nat /\ barLayers[l].current \in Nat
  <2>1. LayerSizes \cup {0} \subseteq Nat
    BY ProgressAssumption DEF U!ProgressSane
  <2>2. \A l \in DOMAIN barLayers : barLayers[l].total \in LayerSizes \cup {0}
        /\ barLayers[l].current \in Nat
    BY <1>1 DEF U!TypeOK
  <2> QED  BY <2>1, <2>2
<1>4. U!Fraction(barLayers) \in 0..Units
  BY <1>1, <1>3, BarLoadedIs, BarFractionIs
<1>5. Units \in Nat /\ barPeak \in 0..Units /\ U!WholeProject = 20 * Units /\ U!Begun \in Nat
      /\ barPercent \in Nat
  BY <1>1, BarSharesAre DEF U!TypeOK
<1>6. barPeak' \in 0..Units /\ barPeak <= barPeak'
  <2> DEFINE now == U!Fraction(barLayers)
  <2>1. barPeak' = U!Max({barPeak, now})
    BY <1>2 DEF U!Peak
  <2>2. barPeak \in Int /\ now \in Int /\ now \in 0..Units
    BY <1>4, <1>5
  <2> HIDE DEF now
  <2>3. barPeak' = IF barPeak >= now THEN barPeak ELSE now
    BY <2>1, <2>2, BarMinMaxIs
  <2> QED  BY <1>5, <2>2, <2>3
<1> DEFINE now == 17 * barPeak'
           before == 17 * barPeak
<1>7. now \in 0..U!WholeProject /\ now \in Nat /\ before \in Nat /\ before <= now
  <2>1. barPeak' \in Nat /\ barPeak \in Nat /\ barPeak <= barPeak' /\ barPeak' <= Units
    BY <1>5, <1>6
  <2>2. U!WholeProject = 20 * Units /\ Units \in Nat
    BY <1>5
  <2>3. \A m, n, u \in Nat : m <= n /\ n <= u =>
          17 * n \in 0..(20 * u) /\ 17 * n \in Nat /\ 17 * m \in Nat /\ 17 * m <= 17 * n
    OBVIOUS
  <2> QED  BY <2>1, <2>2, <2>3
<1>8. /\ barPercent' = U!Begun + now /\ barPercent' \in 0..(ProjectsOfJob * U!WholeProject)
      /\ barLowered' = (barLowered \/ U!Begun + now < barPercent)
  <2>1. U!Show(now)
    BY <1>2
  <2> HIDE DEF now
  <2> QED  BY <1>1, <1>7, <2>1, BarShownIs
<1>9. ~(U!Begun + now < barPercent)
  <2>1. barPercent <= U!Begun + before
    BY <1>1
  <2> HIDE DEF now, before
  <2> QED  BY <1>5, <1>7, <2>1
<1>10. ~barLowered' /\ U!Begun' = U!Begun
  BY <1>1, <1>2, <1>8, <1>9 DEF U!Begun, U!WholeProject
<1>11. U!TypeOK'
  BY <1>1, <1>2, <1>6, <1>8, <1>10 DEF U!TypeOK, U!WholeProject
<1>12. barPercent' <= U!Begun' + 17 * barPeak'
  <2>1. barPercent' <= U!Begun' + now
    <3> HIDE DEF now
    <3> QED  BY <1>5, <1>7, <1>8, <1>10
  <2> QED  BY <2>1
<1> QED  BY BarFinite, <1>1, <1>2, <1>10, <1>11, <1>12 DEF U!Inductive

(* An event changes a layer.                                               *)
LEMMA BarEventKeeps ==
  ASSUME U!Inductive, U!Event
  PROVE  U!Inductive'
<1>1. PICK l \in Layers, status \in {"announced", "Downloading", "complete"},
           total \in LayerSizes :
        \E current \in 0..total : barLayers' = U!Fed(l, status, current, total)
  BY DEF U!Event
<1>2. PICK current \in 0..total : barLayers' = U!Fed(l, status, current, total)
  BY <1>1
<1>3. UNCHANGED <<barPeak, barStage, barIndex, barPercent, barLowered>>
  BY DEF U!Event
<1>4. U!TypeOK /\ LayerSizes \subseteq Nat /\ IsFiniteSet(DOMAIN barLayers)
  BY BarFinite, ProgressAssumption DEF U!Inductive, U!ProgressSane
<1> DEFINE entry == IF l \in DOMAIN barLayers THEN barLayers[l] ELSE [current |-> 0, total |-> 0]
           new == IF status = "Downloading" THEN [current |-> current, total |-> total]
                  ELSE IF status = "complete" THEN [entry EXCEPT !.current = entry.total]
                  ELSE entry
<1>5. barLayers' = [m \in DOMAIN barLayers \cup {l} |-> IF m = l THEN new ELSE barLayers[m]]
  BY <1>2 DEF U!Fed
<1>6. entry \in [current : Nat, total : LayerSizes \cup {0}] /\ entry.current <= entry.total
  BY <1>4 DEF U!TypeOK
<1>7. new \in [current : Nat, total : LayerSizes \cup {0}] /\ new.current <= new.total
  <2>1. CASE status = "Downloading"
    BY <2>1
  <2>2. CASE status = "complete"
    <3>1. entry.total \in LayerSizes \cup {0} /\ LayerSizes \cup {0} \subseteq Nat
      BY <1>4, <1>6
    <3>2. new = [entry EXCEPT !.current = entry.total]
      BY <2>2
    <3> HIDE DEF new, entry
    <3>3. new \in [current : Nat, total : LayerSizes \cup {0}]
      BY <1>6, <3>1, <3>2
    <3>4. new.current = entry.total /\ new.total = entry.total /\ entry.total \in Nat
      BY <1>6, <3>1, <3>2
    <3> QED  BY <3>3, <3>4
  <2>3. CASE status \notin {"Downloading", "complete"}
    BY <1>6, <2>3
  <2> QED  BY <2>1, <2>2, <2>3
<1> HIDE DEF new, entry
<1>8. /\ DOMAIN barLayers' \subseteq Layers
      /\ \A m \in DOMAIN barLayers' :
           /\ barLayers'[m] \in [current : Nat, total : LayerSizes \cup {0}]
           /\ barLayers'[m].current <= barLayers'[m].total
  BY <1>4, <1>5, <1>7 DEF U!TypeOK
<1>9. IsFiniteSet(DOMAIN barLayers')
  BY <1>4, <1>5, FS_AddElement
<1>10. U!TypeOK'
  BY <1>3, <1>4, <1>8 DEF U!TypeOK, U!WholeProject
<1>11. U!Begun' = U!Begun
  BY <1>3 DEF U!Begun, U!WholeProject
<1> QED  BY BarFinite, <1>3, <1>9, <1>10, <1>11 DEF U!Inductive, U!PullShare, U!UpShare

(* Each stage begins where the one before it may have got to.              *)
LEMMA BarStagesKeep ==
  ASSUME U!Inductive, U!BeginPull \/ U!Streamed \/ U!Fallback \/ U!Pulled \/ U!Recreated
  PROVE  U!Inductive'
<1>1. U!TypeOK /\ ~barLowered /\ IsFiniteSet(DOMAIN barLayers) /\ barIndex' = barIndex
  BY BarFinite DEF U!Inductive, U!BeginPull, U!Streamed, U!Fallback, U!Pulled, U!Recreated
<1>2. /\ Units \in Nat \ {0} /\ U!PullShare = 17 * Units /\ U!UpShare = 2 * Units
      /\ U!WholeProject = 20 * Units /\ U!Begun \in Nat /\ barPercent \in Nat
      /\ U!Begun + U!WholeProject <= ProjectsOfJob * U!WholeProject
      /\ ProjectsOfJob * U!WholeProject \in Nat
  BY <1>1, BarSharesAre
<1>3. /\ 0 \in 0..U!WholeProject /\ U!PullShare \in 0..U!WholeProject
      /\ U!PullShare + U!UpShare \in 0..U!WholeProject
  BY <1>2
<1>4. U!Begun' = U!Begun /\ U!PullShare' = U!PullShare /\ U!UpShare' = U!UpShare
  BY <1>1 DEF U!Begun, U!WholeProject, U!PullShare, U!UpShare
<1>5. barPeak \in 0..Units
  BY <1>1 DEF U!TypeOK
<1>6. CASE U!BeginPull
  <2>1. barStage = "starting" /\ barStage' = "pulling" /\ barLayers' = U!NoLayers /\ barPeak' = 0
        /\ U!Show(0)
    BY <1>6 DEF U!BeginPull
  <2>2. barPercent' = U!Begun /\ barPercent' \in 0..(ProjectsOfJob * U!WholeProject)
        /\ barLowered' = (barLowered \/ U!Begun < barPercent)
    BY <1>1, <1>2, <1>3, <2>1, BarShownIs
  <2>3. ~barLowered'
    <3>1. barPercent <= U!Begun
      BY <2>1 DEF U!Inductive
    <3>2. ~(U!Begun < barPercent)
      BY <1>2, <3>1
    <3> QED  BY <1>1, <2>2, <3>2
  <2>4. DOMAIN U!NoLayers = {}
    BY DEF U!NoLayers
  <2>5. U!TypeOK'
    BY <1>1, <1>2, <2>1, <2>2, <2>3, <2>4 DEF U!TypeOK, U!WholeProject
  <2>6. barPercent' <= U!Begun' + 17 * barPeak'
    BY <1>2, <1>4, <2>1, <2>2
  <2> QED  BY BarFinite, <2>1, <2>3, <2>4, <2>5, <2>6, FS_EmptySet DEF U!Inductive
<1>7. CASE U!Streamed \/ U!Pulled
  <2>1. /\ barStage' \in {"pulled", "recreating"}
        /\ barStage \in {"pulling", "composing", "pulled"}
        /\ U!Show(U!PullShare) /\ UNCHANGED <<barLayers, barPeak>>
    BY <1>7 DEF U!Streamed, U!Pulled
  <2>2. /\ barPercent' = U!Begun + U!PullShare
        /\ barPercent' \in 0..(ProjectsOfJob * U!WholeProject)
        /\ barLowered' = (barLowered \/ U!Begun + U!PullShare < barPercent)
    BY <1>1, <1>3, <2>1, BarShownIs
  <2>3. barPercent <= U!Begun + U!PullShare
    <3>1. CASE barStage = "pulling"
      <4>1. barPercent <= U!Begun + 17 * barPeak
        BY <3>1 DEF U!Inductive
      <4>2. barPeak \in Nat /\ barPeak <= Units
        BY <1>2, <1>5
      <4> QED  BY <1>2, <4>1, <4>2
    <3>2. CASE barStage = "composing"
      BY <1>2, <3>2 DEF U!Inductive
    <3>3. CASE barStage = "pulled"
      BY <1>2, <3>3 DEF U!Inductive
    <3> QED  BY <2>1, <3>1, <3>2, <3>3
  <2>4. ~barLowered'
    <3>1. ~(U!Begun + U!PullShare < barPercent)
      BY <1>2, <2>3
    <3> QED  BY <1>1, <2>2, <3>1
  <2>5. U!TypeOK'
    BY <1>1, <2>1, <2>2, <2>4 DEF U!TypeOK, U!WholeProject
  <2> QED  BY BarFinite, <1>1, <1>4, <2>1, <2>2, <2>4, <2>5 DEF U!Inductive
<1>8. CASE U!Fallback
  <2>1. /\ barStage' = "composing" /\ barPercent' = U!Begun
        /\ UNCHANGED <<barLayers, barPeak, barLowered>>
    BY <1>8 DEF U!Fallback, U!Begun
  <2>2. barPercent' \in 0..(ProjectsOfJob * U!WholeProject)
    BY <1>2, <2>1
  <2>3. U!TypeOK'
    BY <1>1, <2>1, <2>2 DEF U!TypeOK, U!WholeProject
  <2> QED  BY BarFinite, <1>1, <1>4, <2>1, <2>3 DEF U!Inductive
<1>9. CASE U!Recreated
  <2>1. /\ barStage' = "watching" /\ barStage = "recreating" /\ U!Show(U!PullShare + U!UpShare)
        /\ UNCHANGED <<barLayers, barPeak>>
    BY <1>9 DEF U!Recreated
  <2>2. /\ barPercent' = U!Begun + (U!PullShare + U!UpShare)
        /\ barPercent' \in 0..(ProjectsOfJob * U!WholeProject)
        /\ barLowered' = (barLowered \/ U!Begun + (U!PullShare + U!UpShare) < barPercent)
    BY <1>1, <1>3, <2>1, BarShownIs
  <2>3. barPercent = U!Begun + U!PullShare
    BY <2>1 DEF U!Inductive
  <2>4. ~barLowered' /\ barPercent' = U!Begun + U!PullShare + U!UpShare
    <3>1. /\ ~(U!Begun + (U!PullShare + U!UpShare) < barPercent)
          /\ U!Begun + (U!PullShare + U!UpShare) = U!Begun + U!PullShare + U!UpShare
      BY <1>2, <2>3
    <3> QED  BY <1>1, <2>2, <3>1
  <2>5. U!TypeOK'
    BY <1>1, <2>1, <2>2, <2>4 DEF U!TypeOK, U!WholeProject
  <2> QED  BY BarFinite, <1>1, <1>4, <2>1, <2>4, <2>5 DEF U!Inductive
<1> QED  BY <1>6, <1>7, <1>8, <1>9

(* The next project begins above what the one before it has shown.         *)
LEMMA BarNextKeeps ==
  ASSUME U!Inductive, U!NextProject
  PROVE  U!Inductive'
<1>1. U!TypeOK /\ ~barLowered /\ IsFiniteSet(DOMAIN barLayers)
  BY BarFinite DEF U!Inductive
<1>2. /\ Units \in Nat \ {0} /\ U!PullShare = 17 * Units /\ U!UpShare = 2 * Units
      /\ U!WholeProject = 20 * Units /\ U!Begun \in Nat /\ barPercent \in Nat
      /\ U!Begun + U!WholeProject <= ProjectsOfJob * U!WholeProject
      /\ ProjectsOfJob * U!WholeProject \in Nat
      /\ barIndex \in Nat /\ barIndex < ProjectsOfJob /\ ProjectsOfJob \in Nat
      /\ (barIndex + 1) * U!WholeProject = U!Begun + U!WholeProject
  BY <1>1, BarSharesAre
<1>3. /\ barStage \notin {"pulling", "over"} /\ UNCHANGED <<barLayers, barPeak>>
      /\ barStage' = IF barIndex + 1 < ProjectsOfJob THEN "starting" ELSE "over"
      /\ barIndex' = IF barIndex + 1 < ProjectsOfJob THEN barIndex + 1 ELSE barIndex
      /\ barPercent' = IF barIndex + 1 < ProjectsOfJob THEN barPercent
           ELSE ProjectsOfJob * U!WholeProject
      /\ barLowered' = (barLowered \/ barPercent' < barPercent)
  BY DEF U!NextProject
<1>4. barPercent <= U!Begun + U!WholeProject
  <2>1. barStage \in {"starting", "composing", "pulled", "recreating", "watching"}
    BY <1>1, <1>3 DEF U!TypeOK
  <2>2. \/ barPercent <= U!Begun \/ barPercent = U!Begun \/ barPercent = U!Begun + U!PullShare
        \/ barPercent = U!Begun + U!PullShare + U!UpShare
    BY <2>1 DEF U!Inductive
  <2> QED  BY <1>2, <2>2
<1>5. CASE barIndex + 1 < ProjectsOfJob
  <2>1. barStage' = "starting" /\ barIndex' = barIndex + 1 /\ barPercent' = barPercent
    BY <1>3, <1>5
  <2>2. ~barLowered'
    <3>1. ~(barPercent' < barPercent)
      BY <1>2, <2>1
    <3> QED  BY <1>1, <1>3, <3>1
  <2>3. U!Begun' = U!Begun + U!WholeProject /\ barIndex' \in 0..(ProjectsOfJob - 1)
    BY <1>2, <1>5, <2>1 DEF U!Begun, U!WholeProject
  <2>4. U!TypeOK'
    BY <1>1, <1>3, <2>1, <2>2, <2>3 DEF U!TypeOK, U!WholeProject
  <2> QED  BY BarFinite, <1>1, <1>3, <1>4, <2>1, <2>2, <2>3, <2>4 DEF U!Inductive
<1>6. CASE ~(barIndex + 1 < ProjectsOfJob)
  <2>1. barStage' = "over" /\ barIndex' = barIndex /\ barPercent' = ProjectsOfJob * U!WholeProject
    BY <1>3, <1>6
  <2>2. ~(barPercent' < barPercent) /\ barPercent' \in 0..(ProjectsOfJob * U!WholeProject)
    <3> DEFINE all == ProjectsOfJob * U!WholeProject
    <3>1. barPercent' = all /\ all \in Nat /\ U!Begun + U!WholeProject <= all
          /\ U!WholeProject \in Nat
      BY <1>2, <2>1
    <3>2. barPercent' \in 0..all
      BY <3>1
    <3> HIDE DEF all
    <3>3. ~(barPercent' < barPercent)
      BY <1>2, <1>4, <3>1
    <3> QED  BY <3>2, <3>3 DEF all
  <2>3. ~barLowered'
    BY <1>1, <1>3, <2>2
  <2>4. U!TypeOK'
    BY <1>1, <1>3, <2>1, <2>2, <2>3 DEF U!TypeOK, U!WholeProject
  <2> QED  BY BarFinite, <1>1, <1>3, <2>1, <2>3, <2>4 DEF U!Inductive
<1> QED  BY <1>5, <1>6

(* At the start the bar is empty.                                          *)
LEMMA BarInit == U!Init => U!Inductive
<1> SUFFICES ASSUME U!Init PROVE U!Inductive
  OBVIOUS
<1>1. Units \in Nat \ {0} /\ ProjectsOfJob \in Nat \ {0}
  BY ProgressAssumption DEF U!ProgressSane
<1>2. DOMAIN barLayers = {} /\ barPeak = 0 /\ barStage = "starting" /\ barIndex = 0
      /\ barPercent = 0 /\ ~barLowered
      /\ barLowered \in BOOLEAN
  BY DEF U!Init, U!NoLayers
<1>3. U!WholeProject \in Nat /\ \A m, n \in Nat : m * n \in Nat
  BY <1>1 DEF U!WholeProject
<1>4. ProjectsOfJob * U!WholeProject \in Nat /\ U!Begun = 0
  BY <1>1, <1>2, <1>3 DEF U!Begun
<1>5. U!TypeOK
  BY <1>1, <1>2, <1>4 DEF U!TypeOK
<1> QED  BY BarFinite, <1>2, <1>4, <1>5, FS_EmptySet DEF U!Inductive

(* No step of an update takes the bar back unless Compose starts it over.  *)
LEMMA BarStep == U!Inductive /\ [U!Next]_U!progressVars => U!Inductive'
<1> SUFFICES ASSUME U!Inductive, [U!Next]_U!progressVars PROVE U!Inductive'
  OBVIOUS
<1>1. CASE UNCHANGED U!progressVars
  BY <1>1 DEF U!progressVars, U!Inductive, U!TypeOK, U!Begun, U!PullShare, U!UpShare,
            U!WholeProject
<1> QED  BY <1>1, BarEventKeeps, BarPublishKeeps, BarStagesKeep, BarNextKeeps DEF U!Next

(* The bar goes forward and is full only at the end.                       *)
LEMMA BarHolds == U!Inductive => U!TypeOK /\ U!BarForward
<1> SUFFICES ASSUME U!Inductive PROVE U!TypeOK /\ U!BarForward
  OBVIOUS
<1>1. U!TypeOK /\ ~barLowered
  BY BarFinite DEF U!Inductive
<1>2. /\ Units \in Nat \ {0} /\ U!PullShare = 17 * Units /\ U!UpShare = 2 * Units
      /\ U!WholeProject = 20 * Units /\ U!Begun \in Nat /\ barPercent \in Nat
      /\ U!Begun + U!WholeProject <= ProjectsOfJob * U!WholeProject
      /\ ProjectsOfJob * U!WholeProject \in Nat
  BY <1>1, BarSharesAre
<1>3. barStage # "over" => barPercent <= U!Begun + U!PullShare + U!UpShare
  <2>1. barStage # "over" =>
          barStage \in {"starting", "pulling", "composing", "pulled", "recreating", "watching"}
    BY <1>1 DEF U!TypeOK
  <2>2. barStage = "pulling" => barPercent <= U!Begun + U!PullShare
    <3> SUFFICES ASSUME barStage = "pulling" PROVE barPercent <= U!Begun + U!PullShare
      OBVIOUS
    <3>1. barPercent <= U!Begun + 17 * barPeak
      BY DEF U!Inductive
    <3>2. barPeak \in Nat /\ barPeak <= Units
      BY <1>1, <1>2 DEF U!TypeOK
    <3> QED  BY <1>2, <3>1, <3>2
  <2>3. barStage \in {"starting", "composing", "pulled", "recreating", "watching"} =>
          \/ barPercent <= U!Begun \/ barPercent = U!Begun \/ barPercent = U!Begun + U!PullShare
          \/ barPercent = U!Begun + U!PullShare + U!UpShare
    BY DEF U!Inductive
  <2> QED  BY <1>2, <2>1, <2>2, <2>3
<1>4. barPercent = ProjectsOfJob * U!WholeProject => barStage = "over"
  <2> DEFINE all == ProjectsOfJob * U!WholeProject
  <2>1. all \in Nat /\ U!Begun + U!WholeProject <= all
    BY <1>2
  <2> HIDE DEF all
  <2>2. barPercent = all => barStage = "over"
    BY <1>2, <1>3, <2>1
  <2> QED  BY <2>2 DEF all
<1> QED  BY <1>1, <1>4 DEF U!BarForward

(* ... and so it is as long as this component is the one at work.          *)
LEMMA BarRuns == Spec => [](which = "bar" => U!Inductive)
<1>1. Init => (which = "bar" => U!Inductive)
  BY BarInit DEF Init
<1>2. (which = "bar" => U!Inductive) /\ [Next]_vars => (which = "bar" => U!Inductive)'
  <2> SUFFICES ASSUME which = "bar" => U!Inductive, [Next]_vars, which' = "bar"
               PROVE  U!Inductive'
    OBVIOUS
  <2>1. which = "bar" /\ (U!Next \/ UNCHANGED U!progressVars)
    BY OneAtWork DEF vars, U!progressVars
  <2> QED  BY <2>1, BarStep
<1> QED  BY <1>1, <1>2, PTL DEF Spec

-----------------------------------------------------------------------------
(* The rows of conversations (connections.py).                             *)
connGrouped == v1
connSeen == v2
USE DEF connGrouped, connSeen

(* The sets of the model are finite, and counted, as everywhere.           *)
LEMMA ConnectionsFinite == \A set : V!IsFiniteSet(set) = IsFiniteSet(set)
  BY DEF IsFiniteSet, V!IsFiniteSet

(* ... and counted alike.                                                  *)
LEMMA ConnectionsCount == \A set : V!Cardinality(set) = Cardinality(set)
  BY ConnectionsFinite DEF Cardinality, V!Cardinality

(* A total is None, or the sum of the figures that are known.              *)
LEMMA ConnectionsTotalIs ==
  ASSUME NEW figures, NEW flows
  PROVE  V!Total(figures, flows) = LET known == {i \in flows : figures[i] # V!None}
                                   IN IF known = {} THEN V!None ELSE SumOn(figures, known)
  BY DEF V!Total, V!MapThenSumSet, V!MapThenFoldSet, SumOn, Sums, First

(* ... of the flows of the conversation alone.                             *)
LEMMA ConnectionsTotalSame ==
  ASSUME NEW old, NEW new, NEW flows, IsFiniteSet(flows), \A i \in flows : new[i] = old[i]
  PROVE  V!Total(new, flows) = V!Total(old, flows)
<1> DEFINE known == {i \in flows : old[i] # V!None}
<1>1. {i \in flows : new[i] # V!None} = known
  OBVIOUS
<1>2. SumOn(new, known) = SumOn(old, known)
  BY FS_Subset, SumSame
<1> QED  BY <1>1, <1>2, ConnectionsTotalIs

(* One flow more, and its figure is added.                                 *)
LEMMA ConnectionsTotalPlus ==
  ASSUME NEW old, NEW new, NEW flows, IsFiniteSet(flows), NEW n, n \notin flows,
         \A i \in flows : new[i] = old[i] /\ old[i] \in V!Figures, new[n] \in V!Figures
  PROVE  /\ V!Total(new, flows \cup {n}) = V!Plus(V!Total(old, flows), new[n])
         /\ V!Total(old, flows) \in V!Figures /\ V!Total(new, flows \cup {n}) \in V!Figures
<1> DEFINE known == {i \in flows : old[i] # V!None}
           all == {i \in flows \cup {n} : new[i] # V!None}
<1>1. V!None = -1 /\ V!Figures = Nat \cup {-1}
  BY DEF V!None, V!Figures
<1>2. all = IF new[n] = V!None THEN known ELSE known \cup {n}
  OBVIOUS
<1>3. IsFiniteSet(known) /\ n \notin known /\ IsFiniteSet(all)
  BY FS_Subset, FS_AddElement
<1>4. /\ \A i \in known : new[i] = old[i] /\ old[i] \in Nat /\ old[i] \in Int
      /\ new[n] # V!None => new[n] \in Nat
  BY <1>1
<1>5. SumOn(old, known) \in Nat /\ SumOn(new, known) = SumOn(old, known)
  BY <1>3, <1>4, SumType, SumSame
<1>6. V!Total(old, flows) = IF known = {} THEN V!None ELSE SumOn(old, known)
  BY ConnectionsTotalIs
<1>7. V!Total(new, flows \cup {n}) = IF all = {} THEN V!None ELSE SumOn(new, all)
  BY ConnectionsTotalIs
<1> HIDE DEF known, all
<1>8. CASE new[n] = V!None
  <2>1. V!Total(new, flows \cup {n}) = V!Total(old, flows)
    BY <1>2, <1>5, <1>6, <1>7, <1>8
  <2>2. V!Total(old, flows) \in V!Figures
    BY <1>1, <1>5, <1>6
  <2> QED  BY <1>8, <2>1, <2>2 DEF V!Plus
<1>9. CASE new[n] # V!None
  <2>1. all = known \cup {n} /\ all \ {n} = known
    BY <1>2, <1>3, <1>9
  <2>2. \A i \in all : new[i] \in Int
    BY <1>4, <1>9, <2>1
  <2>3. SumOn(new, all) = new[n] + SumOn(old, known)
    BY <1>3, <1>5, <2>1, <2>2, SumWithout
  <2>4. V!Total(new, flows \cup {n}) = new[n] + SumOn(old, known) /\ new[n] \in Nat
    BY <1>4, <1>7, <1>9, <2>1, <2>3
  <2>5. CASE known = {}
    <3>1. SumOn(old, known) = 0
      BY <1>3, <2>5, SumFirst
    <3>2. V!Total(old, flows) = V!None
      BY <1>6, <2>5
    <3> QED  BY <1>1, <1>9, <2>4, <3>1, <3>2 DEF V!Plus
  <2>6. CASE known # {}
    <3>1. V!Total(old, flows) = SumOn(old, known) /\ SumOn(old, known) # V!None
      BY <1>1, <1>5, <1>6, <2>6
    <3>2. new[n] + SumOn(old, known) = SumOn(old, known) + new[n]
      BY <1>5, <2>4
    <3> QED  BY <1>1, <1>5, <1>9, <2>4, <3>1, <3>2 DEF V!Plus
  <2> QED  BY <2>5, <2>6
<1> QED  BY <1>8, <1>9

(* The figures of the flows of the table.                                  *)
LEMMA ConnectionsFlowsAre ==
  ASSUME V!TypeOK
  PROVE  /\ connSeen \in Seq(KernelTable) /\ Len(connSeen) \in Nat
         /\ DOMAIN connSeen = 1..Len(connSeen)
         /\ \A i \in DOMAIN connSeen : /\ connSeen[i] \in KernelTable
                                       /\ V!Sent[i] = connSeen[i].sent
                                       /\ V!Answered[i] = connSeen[i].answered
                                       /\ V!Sent[i] \in V!Figures /\ V!Answered[i] \in V!Figures
         /\ \A key : IsFiniteSet(V!FlowsOf(key)) /\ V!FlowsOf(key) \subseteq 1..Len(connSeen)
<1>1. connSeen \in Seq(KernelTable) /\ Len(connSeen) \in Nat /\ DOMAIN connSeen = 1..Len(connSeen)
  BY DEF V!TypeOK
<1>2. \A i \in DOMAIN connSeen : connSeen[i] \in KernelTable
  BY <1>1
<1>3. \A i \in DOMAIN connSeen :
      /\ V!Sent[i] = connSeen[i].sent /\ V!Answered[i] = connSeen[i].answered
      /\ V!Sent[i] \in V!Figures /\ V!Answered[i] \in V!Figures
  BY <1>2, ConnectionsAssumption DEF V!Sent, V!Answered, V!ConnectionsSane, V!Figures
<1>4. \A key : V!FlowsOf(key) \subseteq 1..Len(connSeen)
  BY <1>1 DEF V!FlowsOf
<1>5. IsFiniteSet(1..Len(connSeen))
  BY <1>1, FS_Interval
<1> QED  BY <1>1, <1>2, <1>3, <1>4, <1>5, FS_Subset

(* A flow is added to the row of its conversation.                         *)
LEMMA ConnectionsCountedTrue ==
  ASSUME NEW row, NEW flow \in KernelTable, NEW of,
         row \in [of : {of}, flows : Nat, sent : V!Figures, answered : V!Figures, tx : V!Figures,
         rx : V!Figures],
         of.direction = "out" => row.tx = row.sent /\ row.rx = row.answered,
         of.direction = "in" => row.rx = row.sent /\ row.tx = row.answered
  PROVE  LET new == V!Counted(row, flow)
         IN /\ new \in [of : {of}, flows : Nat, sent : V!Figures, answered : V!Figures,
                        tx : V!Figures, rx : V!Figures]
            /\ new.flows = row.flows + 1 /\ new.sent = V!Plus(row.sent, flow.sent)
            /\ new.answered = V!Plus(row.answered, flow.answered)
            /\ of.direction = "out" => new.tx = new.sent /\ new.rx = new.answered
            /\ of.direction = "in" => new.rx = new.sent /\ new.tx = new.answered
<1>1. flow.sent \in V!Figures /\ flow.answered \in V!Figures
  BY ConnectionsAssumption DEF V!ConnectionsSane, V!Figures
<1>2. \A m, n \in V!Figures : V!Plus(m, n) \in V!Figures
  BY DEF V!Plus, V!Figures, V!None
<1> DEFINE inside == of.direction # "none"
           tx == V!Tx(of.direction, flow)
           rx == V!Rx(of.direction, flow)
           new == V!Counted(row, flow)
<1>3. tx \in V!Figures /\ rx \in V!Figures
  BY <1>1 DEF V!Tx, V!Rx
<1>4. /\ of.direction = "out" => tx = flow.sent /\ rx = flow.answered
      /\ of.direction = "in" => rx = flow.sent /\ tx = flow.answered
  BY DEF V!Tx, V!Rx
<1>5. row.of = of
  OBVIOUS
<1>6. new = [row EXCEPT !.flows = row.flows + 1, !.sent = V!Plus(row.sent, flow.sent),
                        !.answered = V!Plus(row.answered, flow.answered),
                        !.tx = IF inside THEN V!Plus(row.tx, tx) ELSE row.tx,
                        !.rx = IF inside THEN V!Plus(row.rx, rx) ELSE row.rx]
  BY <1>5 DEF V!Counted
<1> HIDE DEF tx, rx, new
<1>7. /\ new.of = of /\ new.flows = row.flows + 1 /\ new.sent = V!Plus(row.sent, flow.sent)
      /\ new.answered = V!Plus(row.answered, flow.answered)
      /\ new.tx = (IF inside THEN V!Plus(row.tx, tx) ELSE row.tx)
      /\ new.rx = (IF inside THEN V!Plus(row.rx, rx) ELSE row.rx)
  BY <1>6
<1>8. new \in [of : {of}, flows : Nat, sent : V!Figures, answered : V!Figures, tx : V!Figures,
      rx : V!Figures]
  <2>1. /\ V!Plus(row.sent, flow.sent) \in V!Figures
        /\ V!Plus(row.answered, flow.answered) \in V!Figures
        /\ V!Plus(row.tx, tx) \in V!Figures /\ V!Plus(row.rx, rx) \in V!Figures
        /\ row.flows + 1 \in Nat
    BY <1>1, <1>2, <1>3
  <2> QED  BY <1>6, <2>1
<1>9. of.direction = "out" => new.tx = new.sent /\ new.rx = new.answered
  BY <1>4, <1>7
<1>10. of.direction = "in" => new.rx = new.sent /\ new.tx = new.answered
  BY <1>4, <1>7
<1> QED  BY <1>7, <1>8, <1>9, <1>10 DEF new

(* The row of a flow's conversation, or the new one, is true before it.    *)
LEMMA ConnectionsRowIs ==
  ASSUME V!Inductive, NEW flow \in KernelTable
  PROVE  LET row == V!Row(flow)
             flows == V!FlowsOf(V!Key(flow))
         IN /\ row \in [of : {row.of}, flows : Nat, sent : V!Figures, answered : V!Figures,
                        tx : V!Figures, rx : V!Figures]
            /\ row.of \in {V!Attribute(other) : other \in KernelTable}
            /\ row.flows <= Len(connSeen) /\ V!RowTrue(row, flows)
            /\ \/ \E i \in flows : row.of = V!Attribute(connSeen[i])
               \/ row.of = V!Attribute(flow)
<1> DEFINE key == V!Key(flow)
           row == V!Row(flow)
           flows == V!FlowsOf(key)
<1>1. V!TypeOK /\ FlowsRead \in Nat
  BY ConnectionsAssumption DEF V!Inductive, V!ConnectionsSane
<1>2. CASE key \in DOMAIN connGrouped
  <2>1. row = connGrouped[key]
    BY <1>2 DEF V!Row
  <2>2. row \in [of : {V!Attribute(other) : other \in KernelTable}, flows : 1..FlowsRead,
                 sent : V!Figures, answered : V!Figures, tx : V!Figures, rx : V!Figures]
    BY <1>1, <1>2, <2>1 DEF V!TypeOK
  <2>3. V!RowTrue(row, flows) /\ \E i \in flows : row.of = V!Attribute(connSeen[i])
    BY <1>2, <2>1 DEF V!Inductive
  <2> HIDE DEF row
  <2>4. row \in [of : {row.of}, flows : Nat, sent : V!Figures, answered : V!Figures,
                 tx : V!Figures, rx : V!Figures]
    BY <1>1, <2>2
  <2>5. row.flows <= Len(connSeen)
    <3>1. IsFiniteSet(1..Len(connSeen)) /\ Cardinality(1..Len(connSeen)) = Len(connSeen)
      <4>1. PICK n \in Nat : n = Len(connSeen)
        BY <1>1, ConnectionsFlowsAre
      <4>2. IsFiniteSet(1..n) /\ Cardinality(1..n) = n
        BY FS_Interval
      <4> QED  BY <4>1, <4>2
    <3>2. Cardinality(flows) <= Len(connSeen)
      BY <1>1, <3>1, ConnectionsFlowsAre, FS_Subset
    <3> QED  BY ConnectionsCount, <2>3, <3>2 DEF V!RowTrue
  <2>6. row.of \in {V!Attribute(other) : other \in KernelTable}
    BY <2>2
  <2> QED  BY <2>3, <2>4, <2>5, <2>6 DEF row
<1>3. CASE key \notin DOMAIN connGrouped
  <2>1. row = [of |-> V!Attribute(flow), flows |-> 0, sent |-> V!None, answered |-> V!None,
               tx |-> V!None, rx |-> V!None]
    BY <1>3 DEF V!Row, V!NewRow
  <2>2. flows = {}
    BY <1>1, <1>3 DEF V!FlowsOf, V!TypeOK
  <2>3. V!Total(V!Sent, flows) = V!None /\ V!Total(V!Answered, flows) = V!None
    BY <2>2, ConnectionsTotalIs
  <2>4. Cardinality(flows) = 0 /\ Len(connSeen) \in Nat
    BY <1>1, <2>2, FS_EmptySet, ConnectionsFlowsAre
  <2> HIDE DEF row, flows
  <2>5. V!RowTrue(row, flows)
    BY ConnectionsCount, <2>1, <2>3, <2>4 DEF V!RowTrue
  <2>6. row \in [of : {row.of}, flows : Nat, sent : V!Figures, answered : V!Figures,
                 tx : V!Figures, rx : V!Figures]
    BY <2>1 DEF V!Figures
  <2> QED  BY <2>1, <2>4, <2>5, <2>6 DEF row, flows
<1> QED  BY <1>2, <1>3

(* The next flow of the table is counted where it belongs.                 *)
LEMMA ConnectionsTakeKeeps ==
  ASSUME V!Inductive, NEW flow \in KernelTable, V!Take(flow)
  PROVE  V!Inductive'
<1> DEFINE n == Len(connSeen) + 1
           key == V!Key(flow)
           row == V!Row(flow)
           new == V!Counted(row, flow)
<1>1. V!TypeOK /\ FlowsRead \in Nat
  BY ConnectionsAssumption DEF V!Inductive, V!ConnectionsSane
<1>2. /\ Len(connSeen) < FlowsRead /\ connSeen' = Append(connSeen, flow)
      /\ connGrouped' = [k \in DOMAIN connGrouped \cup {key} |-> IF k = key THEN new
           ELSE connGrouped[k]]
  BY DEF V!Take
<1>3. /\ connSeen \in Seq(KernelTable) /\ Len(connSeen) \in Nat
      /\ DOMAIN connSeen = 1..Len(connSeen)
      /\ \A i \in DOMAIN connSeen : /\ connSeen[i] \in KernelTable
                                    /\ V!Sent[i] = connSeen[i].sent
                                    /\ V!Answered[i] = connSeen[i].answered
                                    /\ V!Sent[i] \in V!Figures /\ V!Answered[i] \in V!Figures
      /\ \A k : IsFiniteSet(V!FlowsOf(k)) /\ V!FlowsOf(k) \subseteq 1..Len(connSeen)
  BY <1>1, ConnectionsFlowsAre
<1>4. /\ connSeen' \in Seq(KernelTable) /\ Len(connSeen') = n /\ DOMAIN connSeen' = 1..n
      /\ n \in 1..FlowsRead
      /\ \A i \in 1..Len(connSeen) : i \in 1..n /\ connSeen'[i] = connSeen[i]
      /\ connSeen'[n] = flow /\ n \notin 1..Len(connSeen) /\ 1..n = (1..Len(connSeen)) \cup {n}
  BY <1>1, <1>2, <1>3
<1>5. /\ \A i \in DOMAIN connSeen : V!Sent'[i] = V!Sent[i] /\ V!Answered'[i] = V!Answered[i]
      /\ V!Sent'[n] = flow.sent /\ V!Answered'[n] = flow.answered
  BY <1>3, <1>4 DEF V!Sent, V!Answered
<1>6. flow.sent \in V!Figures /\ flow.answered \in V!Figures
  BY ConnectionsAssumption DEF V!ConnectionsSane, V!Figures
<1>7. \A k : V!FlowsOf(k)' = IF k = key THEN V!FlowsOf(k) \cup {n} ELSE V!FlowsOf(k)
  BY <1>3, <1>4 DEF V!FlowsOf
<1> HIDE DEF n
<1>8. /\ row \in [of : {row.of}, flows : Nat, sent : V!Figures, answered : V!Figures,
                  tx : V!Figures, rx : V!Figures]
      /\ row.of \in {V!Attribute(other) : other \in KernelTable}
      /\ row.flows <= Len(connSeen) /\ V!RowTrue(row, V!FlowsOf(key))
      /\ \/ \E i \in V!FlowsOf(key) : row.of = V!Attribute(connSeen[i])
         \/ row.of = V!Attribute(flow)
  BY ConnectionsRowIs
<1> HIDE DEF row
<1> DEFINE of == row.of
<1>9. /\ new \in [of : {of}, flows : Nat, sent : V!Figures, answered : V!Figures,
                  tx : V!Figures, rx : V!Figures]
      /\ new.flows = row.flows + 1 /\ new.sent = V!Plus(row.sent, flow.sent)
      /\ new.answered = V!Plus(row.answered, flow.answered)
      /\ of.direction = "out" => new.tx = new.sent /\ new.rx = new.answered
      /\ of.direction = "in" => new.rx = new.sent /\ new.tx = new.answered
  <2>1. /\ of.direction = "out" => row.tx = row.sent /\ row.rx = row.answered
        /\ of.direction = "in" => row.rx = row.sent /\ row.tx = row.answered
    BY <1>8 DEF V!RowTrue
  <2>2. row \in [of : {of}, flows : Nat, sent : V!Figures, answered : V!Figures,
                 tx : V!Figures, rx : V!Figures]
    BY <1>8
  <2> HIDE DEF of, new
  <2> QED  BY <2>1, <2>2, ConnectionsCountedTrue DEF new
<1> HIDE DEF new
<1>10. new.of = row.of
  BY <1>9
<1>11. /\ new.flows = Cardinality(V!FlowsOf(key)')
       /\ new.sent = V!Total(V!Sent', V!FlowsOf(key)')
       /\ new.answered = V!Total(V!Answered', V!FlowsOf(key)')
  <2> DEFINE flows == V!FlowsOf(key)
  <2>1. IsFiniteSet(flows) /\ n \notin flows /\ V!FlowsOf(key)' = flows \cup {n}
    BY <1>3, <1>4, <1>7
  <2>2. /\ row.flows = Cardinality(flows)
        /\ row.sent = V!Total(V!Sent, flows) /\ row.answered = V!Total(V!Answered, flows)
    BY ConnectionsCount, <1>8 DEF V!RowTrue
  <2>3. /\ \A i \in flows : V!Sent'[i] = V!Sent[i] /\ V!Sent[i] \in V!Figures
        /\ \A i \in flows : V!Answered'[i] = V!Answered[i] /\ V!Answered[i] \in V!Figures
    BY <1>3, <1>5
  <2> HIDE DEF flows
  <2>4. V!Total(V!Sent', flows \cup {n}) = V!Plus(V!Total(V!Sent, flows), flow.sent)
    BY <1>5, <1>6, <2>1, <2>3, ConnectionsTotalPlus
  <2>5. V!Total(V!Answered', flows \cup {n}) = V!Plus(V!Total(V!Answered, flows), flow.answered)
    BY <1>5, <1>6, <2>1, <2>3, ConnectionsTotalPlus
  <2>6. Cardinality(flows \cup {n}) = Cardinality(flows) + 1
    BY <2>1, FS_AddElement
  <2> QED  BY <1>9, <2>1, <2>2, <2>4, <2>5, <2>6
<1>12. /\ new.of.direction = "out" => new.tx = new.sent /\ new.rx = new.answered
       /\ new.of.direction = "in" => new.rx = new.sent /\ new.tx = new.answered
  BY <1>9, <1>10
<1>13. \E i \in V!FlowsOf(key)' : new.of = V!Attribute(connSeen'[i])
  <2>1. V!FlowsOf(key)' = V!FlowsOf(key) \cup {n}
    BY <1>7
  <2>2. CASE \E i \in V!FlowsOf(key) : row.of = V!Attribute(connSeen[i])
    BY <1>3, <1>4, <1>10, <2>1, <2>2
  <2>3. CASE row.of = V!Attribute(flow)
    BY <1>4, <1>10, <2>1, <2>3
  <2> QED  BY <1>8, <2>2, <2>3
<1> HIDE DEF key
<1>14. /\ DOMAIN connGrouped' = DOMAIN connGrouped \cup {key} /\ connGrouped'[key] = new
       /\ \A k \in DOMAIN connGrouped : k # key => connGrouped'[k] = connGrouped[k]
  BY <1>2
<1>15. ASSUME NEW k \in DOMAIN connGrouped'
       PROVE  V!RowTrue(connGrouped[k], V!FlowsOf(k))'
              /\ \E i \in V!FlowsOf(k)' : connGrouped'[k].of = V!Attribute(connSeen'[i])
  <2>1. CASE k = key
    <3>1. connGrouped'[k] = new
      BY <1>14, <2>1
    <3>2. V!RowTrue(connGrouped[k], V!FlowsOf(k))'
      BY ConnectionsCount, <1>11, <1>12, <2>1, <3>1 DEF V!RowTrue
    <3> QED  BY <1>13, <2>1, <3>1, <3>2
  <2>2. CASE k # key
    <3>1. k \in DOMAIN connGrouped /\ connGrouped'[k] = connGrouped[k]
          /\ V!FlowsOf(k)' = V!FlowsOf(k)
      BY <1>7, <1>14, <1>15, <2>2
    <3>2. V!RowTrue(connGrouped[k], V!FlowsOf(k))
          /\ \E i \in V!FlowsOf(k) : connGrouped[k].of = V!Attribute(connSeen[i])
      BY <3>1 DEF V!Inductive
    <3>3. V!Total(V!Sent', V!FlowsOf(k)) = V!Total(V!Sent, V!FlowsOf(k))
          /\ V!Total(V!Answered', V!FlowsOf(k)) = V!Total(V!Answered, V!FlowsOf(k))
      <4>1. \A i \in V!FlowsOf(k) : V!Sent'[i] = V!Sent[i] /\ V!Answered'[i] = V!Answered[i]
        BY <1>3, <1>5
      <4> QED  BY <1>3, <4>1, ConnectionsTotalSame
    <3>4. V!RowTrue(connGrouped[k], V!FlowsOf(k))'
      BY <3>1, <3>2, <3>3 DEF V!RowTrue
    <3>5. \E i \in V!FlowsOf(k) : connGrouped'[k].of = V!Attribute(connSeen'[i])
      BY <1>3, <1>4, <3>1, <3>2
    <3> QED  BY <3>1, <3>4, <3>5
  <2> QED  BY <2>1, <2>2
<1>16. DOMAIN connGrouped' = {V!Key(connSeen'[i]) : i \in DOMAIN connSeen'}
  <2>1. DOMAIN connGrouped = {V!Key(connSeen[i]) : i \in 1..Len(connSeen)}
    BY <1>1, <1>3 DEF V!TypeOK
  <2>2. {V!Key(connSeen'[i]) : i \in DOMAIN connSeen'} = {V!Key(connSeen[i]) : i
        \in 1..Len(connSeen)} \cup {key}
    BY <1>4 DEF key
  <2> QED  BY <1>14, <2>1, <2>2
<1>17. \A k \in DOMAIN connGrouped' :
         connGrouped'[k] \in [of : {V!Attribute(other) : other \in KernelTable},
         flows : 1..FlowsRead,
                              sent : V!Figures, answered : V!Figures, tx : V!Figures,
                              rx : V!Figures]
  <2>1. new \in [of : {V!Attribute(other) : other \in KernelTable}, flows : 1..FlowsRead,
                 sent : V!Figures, answered : V!Figures, tx : V!Figures, rx : V!Figures]
    <3>1. new.flows \in 1..FlowsRead
      <4>1. row.flows \in Nat
        BY <1>8
      <4> QED  BY <1>1, <1>2, <1>3, <1>8, <1>9, <4>1
    <3> QED  BY <1>8, <1>9, <3>1
  <2> QED  BY <1>1, <1>14, <2>1 DEF V!TypeOK
<1>18. V!TypeOK'
  BY <1>4, <1>16, <1>17 DEF V!TypeOK
<1> QED  BY <1>15, <1>18 DEF V!Inductive

(* At the start there are no rows.                                         *)
LEMMA ConnectionsInit == V!Init => V!Inductive
<1> SUFFICES ASSUME V!Init PROVE V!Inductive
  OBVIOUS
<1>1. DOMAIN connGrouped = {} /\ connSeen = <<>> /\ FlowsRead \in Nat
  BY ConnectionsAssumption DEF V!Init, V!ConnectionsSane
<1>2. V!TypeOK
  BY <1>1 DEF V!TypeOK
<1> QED  BY <1>1, <1>2 DEF V!Inductive

(* Every flow keeps the rows true.                                         *)
LEMMA ConnectionsStep == V!Inductive /\ [V!Next]_V!connectionVars => V!Inductive'
<1> SUFFICES ASSUME V!Inductive, [V!Next]_V!connectionVars PROVE V!Inductive'
  OBVIOUS
<1>1. CASE UNCHANGED V!connectionVars
  BY <1>1 DEF V!connectionVars, V!Inductive, V!TypeOK, V!RowTrue, V!FlowsOf, V!Sent, V!Answered
<1> QED  BY <1>1, ConnectionsTakeKeeps DEF V!Next

(* A row that is louder than a shown one comes before it, and so do all    *)
(* rows before that one.                                                   *)
LEMMA ConnectionsLouderShown ==
  ASSUME V!Inductive, NEW key \in V!Shown, NEW louder \in DOMAIN connGrouped,
         V!Louder(connGrouped[louder], connGrouped[key])
  PROVE  louder \in V!Shown
<1> DEFINE ahead(k) == {other \in DOMAIN connGrouped : V!Before(other, k)}
<1>1. V!TypeOK /\ FlowsRead \in Nat /\ RowsShown \in Nat
  BY ConnectionsAssumption DEF V!Inductive, V!ConnectionsSane
<1>2. \A k \in DOMAIN connGrouped : V!Bytes(connGrouped[k]) \in Nat
      /\ connGrouped[k].flows \in Nat
  <2> SUFFICES ASSUME NEW k \in DOMAIN connGrouped
               PROVE  V!Bytes(connGrouped[k]) \in Nat /\ connGrouped[k].flows \in Nat
    OBVIOUS
  <2>1. /\ connGrouped[k].sent \in V!Figures /\ connGrouped[k].answered \in V!Figures
        /\ connGrouped[k].flows \in 1..FlowsRead
    BY <1>1 DEF V!TypeOK
  <2> QED  BY <1>1, <2>1 DEF V!Bytes, V!Figures
<1>3. IsFiniteSet(DOMAIN connGrouped)
  <2> DEFINE keys == [i \in 1..Len(connSeen) |-> V!Key(connSeen[i])]
  <2>1. DOMAIN connSeen = 1..Len(connSeen) /\ Len(connSeen) \in Nat
    BY <1>1, ConnectionsFlowsAre
  <2>2. DOMAIN connGrouped = {V!Key(connSeen[i]) : i \in 1..Len(connSeen)}
    BY <1>1, <2>1 DEF V!TypeOK
  <2>3. keys \in Surjection(1..Len(connSeen), DOMAIN connGrouped)
    BY <2>2 DEF Surjection
  <2>4. IsFiniteSet(1..Len(connSeen))
    BY <2>1, FS_Interval
  <2> QED  BY <2>3, <2>4, FS_Surjection
<1>4. ASSUME NEW other \in DOMAIN connGrouped, V!Before(other, louder)
      PROVE  V!Before(other, key)
  <2>1. ~V!Louder(connGrouped[louder], connGrouped[other])
    BY <1>2, <1>4 DEF V!Before, V!Louder
  <2>2. key \in DOMAIN connGrouped
    BY ConnectionsCount DEF V!Shown
  <2>3. V!Louder(connGrouped[other], connGrouped[key])
    BY <1>2, <2>1, <2>2 DEF V!Louder
  <2> QED  BY <2>3 DEF V!Before
<1>5. ahead(louder) \subseteq ahead(key) /\ IsFiniteSet(ahead(key)) /\ IsFiniteSet(ahead(louder))
  BY <1>3, <1>4, FS_Subset
<1>6. Cardinality(ahead(louder)) <= Cardinality(ahead(key))
  BY <1>5, FS_Subset
<1>7. Cardinality(ahead(key)) < RowsShown
  BY ConnectionsCount DEF V!Shown
<1>8. Cardinality(ahead(louder)) \in Nat /\ Cardinality(ahead(key)) \in Nat
  BY <1>5, FS_CardinalityType
<1> HIDE DEF ahead
<1>9. Cardinality(ahead(louder)) < RowsShown
  BY <1>1, <1>6, <1>7, <1>8
<1> QED  BY ConnectionsCount, <1>9 DEF V!Shown, ahead

(* The rows are true, also for the container they name.                    *)
LEMMA ConnectionsHold == V!Inductive => V!TypeOK /\ V!RowsTrue
<1> SUFFICES ASSUME V!Inductive PROVE V!RowsTrue
  BY DEF V!Inductive
<1>1. ASSUME NEW key \in DOMAIN connGrouped
      PROVE  LET row == connGrouped[key]
                 flows == V!FlowsOf(key)
             IN /\ row.flows = Cardinality(flows)
                /\ row.sent = V!Total(V!Sent, flows) /\ row.answered = V!Total(V!Answered, flows)
                /\ V!OfOne(flows) => \A i \in flows :
                     /\ row.of = V!Attribute(connSeen[i])
                     /\ row.of.direction = "out" => row.tx = row.sent /\ row.rx = row.answered
                     /\ row.of.direction = "in" => row.rx = row.sent /\ row.tx = row.answered
  <2>1. V!RowTrue(connGrouped[key], V!FlowsOf(key))
        /\ \E i \in V!FlowsOf(key) : connGrouped[key].of = V!Attribute(connSeen[i])
    BY DEF V!Inductive
  <2>2. V!OfOne(V!FlowsOf(key))
        => \A i \in V!FlowsOf(key) : connGrouped[key].of = V!Attribute(connSeen[i])
    BY <2>1 DEF V!OfOne
  <2> QED  BY ConnectionsCount, <2>1, <2>2 DEF V!RowTrue
<1> QED  BY ConnectionsCount, <1>1, ConnectionsLouderShown DEF V!RowsTrue

(* ... and so it is as long as this component is the one at work.          *)
LEMMA ConnectionsRuns == Spec => [](which = "connections" => V!Inductive)
<1>1. Init => (which = "connections" => V!Inductive)
  BY ConnectionsInit DEF Init
<1>2. (which = "connections" => V!Inductive) /\ [Next]_vars
      => (which = "connections" => V!Inductive)'
  <2> SUFFICES ASSUME which = "connections" => V!Inductive, [Next]_vars, which' = "connections"
               PROVE  V!Inductive'
    OBVIOUS
  <2>1. which = "connections" /\ (V!Next \/ UNCHANGED V!connectionVars)
    BY OneAtWork DEF vars, V!connectionVars
  <2> QED  BY <2>1, ConnectionsStep
<1> QED  BY <1>1, <1>2, PTL DEF Spec

-----------------------------------------------------------------------------
(* At any time there is one packet capture, one sweep of the network       *)
(* unless two starts of it crossed, and no more shells than places; and on *)
(* any day the loop has begun one nightly update, and at most one more for *)
(* each time the agent was restarted within the hour of the update         *)
(* (capture.py, lan_scan.py, terminal.py, updates.loop).                   *)
THEOREM OneOfEach == Spec => []OneAtATime
<1>1. /\ which = "capture" => C!Inductive
      /\ which = "lan" => N!Inductive
      /\ which = "terminal" => T!Inductive
      /\ which = "clock" => B!Inductive
      => OneAtATime
  BY CaptureHolds, LanHolds, TerminalHolds, ClockHolds DEF OneAtATime
<1> QED  BY <1>1, CaptureRuns, LanRuns, TerminalRuns, ClockRuns, PTL

(* While the loop of the updates waits, a check has begun since the last   *)
(* update ended, or the next turn begins with one (updates.check_soon).    *)
THEOREM NoWakeLost == Spec => [](which = "clock" => B!WakeKept)
<1>1. (which = "clock" => B!Inductive) => (which = "clock" => B!WakeKept)
  BY ClockHolds
<1> QED  BY <1>1, ClockRuns, PTL

(* An answer that is kept for the present start of a container was given   *)
(* in it (web_links.refresh, _signature).                                  *)
THEOREM LinksAreOfThisStart == Spec => [](which = "links" => G!LinksOfThisStart)
<1>1. (which = "links" => G!Inductive) => (which = "links" => G!LinksOfThisStart)
  BY LinksHolds
<1> QED  BY <1>1, LinksRuns, PTL

(* The figures are true as FiguresSane has it: the rates of containers,    *)
(* those of their bytes unless the reading before had failed unnoticed;    *)
(* captures, their packets and their flows; TCP; conversations; the clock  *)
(* and the bar of the updates; the links found in the present start of a   *)
(* container; the losses of pings, in which an answer that came in time    *)
(* may be counted only if it was not read in time; and the exit codes of   *)
(* upgrades of the host.                                                   *)
THEOREM FiguresAreTrue == Spec => []FiguresSane
<1>1. /\ which = "cache" => A!Inductive
      /\ which = "packets" => O!Inductive
      /\ which = "health" => K!Inductive
      /\ which = "links" => G!Inductive
      /\ which = "clock" => B!Inductive
      /\ which = "ping" => Y!Inductive
      /\ which = "upgrade" => X!Inductive
      /\ which = "bar" => U!Inductive
      /\ which = "connections" => V!Inductive
      => FiguresSane
  BY CacheHolds, PacketsHolds, HealthHolds, LinksHolds, ClockHolds, BurstHolds, UpgradeHolds,
     BarHolds, ConnectionsHold
  DEF FiguresSane
<1> QED  BY <1>1, CacheRuns, PacketsRuns, HealthRuns, LinksRuns, ClockRuns, BurstRuns,
            UpgradeRuns, BarRuns, ConnectionsRuns, PTL

(* Every variable of every component has its type.                         *)
THEOREM TypesHold == Spec => []TypeOK
<1>1. Spec => [](which \in {"settings", "disk", "capture", "files", "detector"}
             => TypeOK)
  <2>1. /\ which = "settings" => S!Inductive
        /\ which = "disk" => D!Inductive
        /\ which = "capture" => C!Inductive
        /\ which = "files" => H!Inductive
        /\ which = "detector" => W!Inductive
        => (which \in {"settings", "disk", "capture", "files", "detector"}
              => TypeOK)
    BY DEF TypeOK, S!Inductive, D!Inductive, C!Inductive, H!Inductive, W!Inductive
  <2> QED  BY <2>1, SettingsRuns, DiskRuns, CaptureRuns, FilesRuns, DetectorRuns, PTL
<1>2. Spec => [](which \in {"terminal", "log", "folder", "projects", "lan"}
             => TypeOK)
  <2>1. /\ which = "terminal" => T!Inductive
        /\ which = "log" => L!TypeOK
        /\ which = "folder" => F!Inductive
        /\ which = "projects" => P!Inductive
        /\ which = "lan" => N!Inductive
        => (which \in {"terminal", "log", "folder", "projects", "lan"}
              => TypeOK)
    BY DEF TypeOK, T!Inductive, F!Inductive, P!Inductive, P!Sound, N!Inductive
  <2> QED  BY <2>1, TerminalRuns, LogRuns, FolderRuns, ProjectRuns, LanRuns, PTL
<1>3. Spec => [](which \in {"cache", "health", "packets", "clock", "links"}
             => TypeOK)
  <2>1. /\ which = "cache" => A!Inductive
        /\ which = "health" => K!Inductive
        /\ which = "packets" => O!Inductive
        /\ which = "clock" => B!Inductive
        /\ which = "links" => G!Inductive
        => (which \in {"cache", "health", "packets", "clock", "links"}
              => TypeOK)
    BY DEF TypeOK, A!Inductive, K!Inductive, O!Inductive, O!BooksTrue, B!Inductive, G!Inductive
  <2> QED  BY <2>1, CacheRuns, HealthRuns, PacketsRuns, ClockRuns, LinksRuns, PTL
<1>4. Spec => [](which \in {"stack", "upgrade", "ping", "bar", "connections"}
             => TypeOK)
  <2>1. /\ which = "stack" => Q!Inductive
        /\ which = "upgrade" => X!Inductive
        /\ which = "ping" => Y!Inductive
        /\ which = "bar" => U!Inductive
        /\ which = "connections" => V!Inductive
        => (which \in {"stack", "upgrade", "ping", "bar", "connections"}
              => TypeOK)
    BY DEF TypeOK, Q!Inductive, X!Inductive, Y!Inductive, U!Inductive, V!Inductive
  <2> QED  BY <2>1, StackRuns, UpgradeRuns, BurstRuns, BarRuns, ConnectionsRuns, PTL
<1>5. /\ which \in {"settings", "disk", "capture", "files", "detector"}
           => TypeOK
      /\ which \in {"terminal", "log", "folder", "projects", "lan"}
           => TypeOK
      /\ which \in {"cache", "health", "packets", "clock", "links"}
           => TypeOK
      /\ which \in {"stack", "upgrade", "ping", "bar", "connections"}
           => TypeOK
      => TypeOK
  BY DEF TypeOK
<1> QED  BY <1>1, <1>2, <1>3, <1>4, <1>5, PTL
=============================================================================
