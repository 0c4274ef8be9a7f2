------------------------------ MODULE AnswerProofs ------------------------------
(***************************************************************************)
(* The answer of rootOwner is the root the pod had at some moment of the   *)
(* walk.                                                                   *)
(***************************************************************************)
EXTENDS RootOwnerProofs, WellFoundedInduction

LEMMA SmallestNat ==
    ASSUME NEW T \in SUBSET Nat, T # {}
    PROVE  \E n \in T : \A m \in T : n <= m
<1> DEFINE R == {ss \in Nat \X Nat : ss[1] < ss[2]}
<1>1. IsWellFoundedOn(R, Nat)
  BY NatLessThanWellFounded, Zenon DEF OpToRel
<1>2. \A m, n \in Nat : m < n => <<m, n>> \in R
  BY SMT
<1> HIDE DEF R
<1>3. PICK n \in T : \A m \in T : <<m, n>> \notin R
  BY <1>1, WFMin
<1>4. \A m \in T : ~(m < n)
  BY <1>2, <1>3
<1> QED
  BY <1>4

LEMMA Induction ==
    ASSUME NEW Q, 0 \in Q, \A n \in Nat : n \in Q => n + 1 \in Q
    PROVE  Nat \subseteq Q
<1> SUFFICES ASSUME Nat \ Q # {} PROVE FALSE
  OBVIOUS
<1>1. PICK n \in Nat \ Q : \A m \in Nat \ Q : n <= m
  BY SmallestNat
<1>2. n - 1 \in Nat /\ n = (n - 1) + 1
  BY <1>1
<1>3. n - 1 \in Q
  BY <1>1, <1>2
<1> QED
  BY <1>1, <1>2, <1>3

-----------------------------------------------------------------------------
(***************************************************************************)
(* What owner references lead to, given what each owner leads to.          *)
(***************************************************************************)
LEMMA FirstCustomIs ==
    ASSUME NEW list \in Seq(Owners), CustomAt(list) # {}
    PROVE  /\ FirstCustom(list) \in CustomAt(list)
           /\ \A j \in CustomAt(list) : FirstCustom(list) <= j
<1>1. CustomAt(list) \in SUBSET Nat
  BY DEF CustomAt
<1>2. \E i \in CustomAt(list) : \A j \in CustomAt(list) : i <= j
  BY <1>1, SmallestNat
<1> QED
  BY <1>2 DEF FirstCustom

LEMMA WalkedKnown ==
    ASSUME NEW list \in Seq(Owners), NEW i \in Walked(list)
    PROVE  i \in 1..Len(list) /\ list[i] \in Known
<1>1. i \in 1..Len(list)
  <2>1. CASE CustomAt(list) = {}
    BY <2>1 DEF Walked
  <2>2. CASE CustomAt(list) # {}
    <3>1. FirstCustom(list) \in 1..Len(list)
      BY <2>2, FirstCustomIs DEF CustomAt
    <3>2. i \in 1..(FirstCustom(list) - 1)
      BY <2>2 DEF Walked
    <3> QED
      BY <3>1, <3>2
  <2> QED
    BY <2>1, <2>2
<1>2. list[i] \notin Custom
  <2>1. CASE CustomAt(list) = {}
    BY <1>1, <2>1 DEF CustomAt
  <2>2. CASE CustomAt(list) # {}
    <3>1. /\ FirstCustom(list) \in 1..Len(list)
          /\ i \in CustomAt(list) => FirstCustom(list) <= i
      BY <2>2, FirstCustomIs DEF CustomAt
    <3>2. i < FirstCustom(list)
      BY <1>1, <2>2, <3>1 DEF Walked
    <3>3. i \notin CustomAt(list)
      BY <1>1, <3>1, <3>2
    <3> QED
      BY <1>1, <3>3 DEF CustomAt
  <2> QED
    BY <2>1, <2>2
<1> QED
  BY <1>1, <1>2 DEF Owners

\* a custom owner, or what the last reference walked leads to
LEMMA LeadsWhere ==
    ASSUME NEW list \in Seq(Owners), list # <<>>, NEW f, NEW h
    PROVE  \/ LeadsTo(f, list) = LeadsTo(h, list) /\ LeadsTo(f, list) \in Custom
           \/ \E i \in Walked(list) : LeadsTo(f, list) = f[list[i]] /\ LeadsTo(h, list) = h[list[i]]
<1>1. CASE CustomAt(list) = {}
  <2>1. Len(list) \in Walked(list)
    BY <1>1 DEF Walked
  <2>2. LeadsTo(f, list) = f[list[Len(list)]] /\ LeadsTo(h, list) = h[list[Len(list)]]
    BY <1>1 DEF LeadsTo, Last
  <2> QED
    BY <2>1, <2>2
<1>2. CASE CustomAt(list) # {}
  <2>1. FirstCustom(list) \in CustomAt(list)
    BY <1>2, FirstCustomIs
  <2> QED
    BY <1>2, <2>1 DEF LeadsTo, CustomAt
<1> QED
  BY <1>1, <1>2

LEMMA CustomHead ==
    ASSUME NEW list \in Seq(Owners), list # <<>>, Head(list) \in Custom, NEW f
    PROVE  ~Fails(f, list) /\ LeadsTo(f, list) = Head(list)
<1>1. 1 \in CustomAt(list)
  BY DEF CustomAt
<1>2. FirstCustom(list) = 1
  BY <1>1, FirstCustomIs DEF CustomAt
<1> QED
  BY <1>1, <1>2 DEF Walked, Fails, LeadsTo

LEMMA KnownHead ==
    ASSUME NEW list \in Seq(Owners), list # <<>>, Head(list) \in Known, NEW f
    PROVE  /\ Fails(f, list) <=> f[Head(list)] = Failed \/ Fails(f, Tail(list))
           /\ LeadsTo(f, list) = IF Tail(list) = <<>> THEN f[Head(list)] ELSE LeadsTo(f, Tail(list))
<1> DEFINE t == Tail(list)
           n == Len(list)
<1>1. /\ t \in Seq(Owners) /\ n \in Nat \ {0} /\ Len(t) = n - 1
      /\ \A i \in 1..(n - 1) : t[i] = list[i + 1]
      /\ Head(list) = list[1] /\ DOMAIN list = 1..n /\ DOMAIN t = 1..(n - 1)
  OBVIOUS
<1>2. 1 \notin CustomAt(list)
  BY <1>1, RootOwnerAssumption DEF CustomAt
<1>3. \A i \in 1..(n - 1) : i \in CustomAt(t) <=> i + 1 \in CustomAt(list)
  <2>1. \A i \in 1..(n - 1) : i + 1 \in 1..n
    BY <1>1
  <2> HIDE DEF t, n
  <2> QED
    BY <1>1, <2>1 DEF CustomAt
<1>4. \A i \in CustomAt(list) : i - 1 \in 1..(n - 1) /\ i - 1 \in CustomAt(t)
  <2> SUFFICES ASSUME NEW i \in CustomAt(list) PROVE i - 1 \in 1..(n - 1) /\ i - 1 \in CustomAt(t)
    OBVIOUS
  <2>1. i \in 1..n /\ i # 1
    BY <1>1, <1>2 DEF CustomAt
  <2>2. i - 1 \in 1..(n - 1) /\ (i - 1) + 1 = i
    BY <1>1, <2>1
  <2> QED
    BY <1>3, <2>2
<1>5. \A i \in CustomAt(t) : i \in 1..(n - 1)
  BY <1>1 DEF CustomAt
<1> HIDE DEF t, n
<1>6. /\ \A i \in 1..(n - 1) : i \in Walked(t) <=> i + 1 \in Walked(list)
      /\ 1 \in Walked(list)
      /\ Walked(list) \subseteq 1..n /\ Walked(t) \subseteq 1..(n - 1)
      /\ CustomAt(list) = {} <=> CustomAt(t) = {}
      /\ CustomAt(list) # {} => FirstCustom(list) = FirstCustom(t) + 1 /\ FirstCustom(t) \in 1..(n - 1)
  <2>1. CASE CustomAt(list) = {}
    <3>1. CustomAt(t) = {}
      BY <1>3, <1>5, <2>1
    <3>2. Walked(list) = 1..n /\ Walked(t) = 1..(n - 1)
      BY <1>1, <2>1, <3>1 DEF Walked
    <3> QED
      BY <1>1, <2>1, <3>1, <3>2
  <2>2. CASE CustomAt(list) # {}
    <3>1. CustomAt(t) # {}
      BY <1>4, <2>2
    <3> DEFINE F == FirstCustom(list)
               G == FirstCustom(t)
    <3>2. /\ F \in CustomAt(list) /\ \A j \in CustomAt(list) : F <= j
          /\ G \in CustomAt(t) /\ \A j \in CustomAt(t) : G <= j
      BY <1>1, <2>2, <3>1, FirstCustomIs
    <3> HIDE DEF F, G
    <3>3. F - 1 \in CustomAt(t) /\ F - 1 \in 1..(n - 1) /\ G \in 1..(n - 1) /\ G + 1 \in CustomAt(list)
      BY <1>3, <1>4, <1>5, <3>2
    <3>4. F \in Int
      BY <1>1, <3>2 DEF CustomAt
    <3>5. G <= F - 1 /\ F <= G + 1
      BY <3>2, <3>3
    <3>6. F = G + 1
      BY <3>3, <3>4, <3>5, <1>1
    <3>7. Walked(list) = 1..(F - 1) /\ Walked(t) = 1..(G - 1)
      BY <2>2, <3>1 DEF Walked, F, G
    <3>8. /\ \A i \in 1..(n - 1) : i \in 1..(G - 1) <=> i + 1 \in 1..(F - 1)
          /\ 1 \in 1..(F - 1) /\ 1..(F - 1) \subseteq 1..n /\ 1..(G - 1) \subseteq 1..(n - 1)
      BY <1>1, <3>3, <3>6
    <3> QED
      BY <2>2, <3>1, <3>3, <3>6, <3>7, <3>8 DEF F, G
  <2> QED
    BY <2>1, <2>2
<1>7. Fails(f, list) <=> f[Head(list)] = Failed \/ Fails(f, t)
  <2>1. ASSUME Fails(f, list), f[Head(list)] # Failed PROVE Fails(f, t)
    <3>1. PICK i \in Walked(list) : f[list[i]] = Failed
      BY <2>1 DEF Fails
    <3>2. i \in 1..n /\ i # 1
      BY <1>1, <1>6, <2>1, <3>1
    <3>3. i - 1 \in 1..(n - 1) /\ (i - 1) + 1 = i
      BY <1>1, <3>2
    <3>4. i - 1 \in Walked(t) /\ t[i - 1] = list[i]
      BY <1>1, <1>6, <3>3
    <3> QED
      BY <3>1, <3>4 DEF Fails
  <2>2. ASSUME Fails(f, t) PROVE Fails(f, list)
    <3>1. PICK i \in Walked(t) : f[t[i]] = Failed
      BY <2>2 DEF Fails
    <3>2. i + 1 \in Walked(list) /\ t[i] = list[i + 1]
      BY <1>1, <1>6
    <3> QED
      BY <3>1, <3>2 DEF Fails
  <2>3. f[Head(list)] = Failed => Fails(f, list)
    BY <1>1, <1>6 DEF Fails
  <2> QED
    BY <2>1, <2>2, <2>3
<1>8. LeadsTo(f, list) = IF t = <<>> THEN f[Head(list)] ELSE LeadsTo(f, t)
  <2>1. CASE CustomAt(list) = {}
    <3>1. LeadsTo(f, list) = f[list[n]]
      BY <2>1 DEF LeadsTo, Last, n
    <3>2. CASE t = <<>>
      <4>1. n = 1
        BY <1>1, <3>2
      <4> QED
        BY <1>1, <3>1, <3>2, <4>1
    <3>3. CASE t # <<>>
      <4>1. n - 1 \in 1..(n - 1)
        BY <1>1, <3>3
      <4>2. t[n - 1] = list[n]
        BY <1>1, <4>1
      <4>3. LeadsTo(f, t) = f[t[n - 1]]
        BY <1>1, <1>6, <2>1 DEF LeadsTo, Last
      <4> QED
        BY <3>1, <3>3, <4>2, <4>3
    <3> QED
      BY <3>2, <3>3
  <2>2. CASE CustomAt(list) # {}
    <3>1. CustomAt(t) # {} /\ FirstCustom(list) = FirstCustom(t) + 1 /\ FirstCustom(t) \in 1..(n - 1)
      BY <1>6, <2>2
    <3>2. t # <<>>
      BY <1>1, <3>1
    <3>3. LeadsTo(f, list) = list[FirstCustom(list)] /\ LeadsTo(f, t) = t[FirstCustom(t)]
      BY <2>2, <3>1 DEF LeadsTo
    <3> QED
      BY <1>1, <3>1, <3>2, <3>3
  <2> QED
    BY <2>1, <2>2
<1> QED
  BY <1>7, <1>8 DEF t

-----------------------------------------------------------------------------
(***************************************************************************)
(* Roots(g) is a fixpoint: the calls it allows are enough.  With one more  *)
(* call either another owner gets a root, or nothing changes any more.     *)
(***************************************************************************)
Movers == Known \cup {Pod}
Results == Objects \cup {Failed}
Nowhere == [o \in Movers |-> Failed]
Step(g, f) == [o \in Movers |-> RootOf(g, o, f)]
Depth == Cardinality(Known) + 1

\* the more calls, the more owners have a root, and they keep it
Extends(f, h) == \A o \in Known : f[o] # Failed => h[o] = f[o]
Rooted(f) == {o \in Known : f[o] # Failed}

LEMMA RootOfTyped ==
    ASSUME NEW g \in OwnerSets, NEW o \in Movers, NEW f \in [Movers -> Results]
    PROVE  RootOf(g, o, f) \in Results
<1>1. CASE g[o] = None \/ Fails(f, g[o])
  BY <1>1 DEF RootOf, Results
<1>2. CASE g[o] # None /\ ~Fails(f, g[o]) /\ g[o] = <<>>
  BY <1>2 DEF RootOf, Results, Objects, Movers
<1>3. CASE g[o] # None /\ ~Fails(f, g[o]) /\ g[o] # <<>>
  <2>1. g[o] \in Seq(Owners)
    BY <1>3 DEF OwnerSets, Movers
  <2>2. RootOf(g, o, f) = LeadsTo(f, g[o])
    BY <1>3 DEF RootOf
  <2>3. \/ LeadsTo(f, g[o]) \in Custom
        \/ \E i \in Walked(g[o]) : LeadsTo(f, g[o]) = f[g[o][i]]
    BY <1>3, <2>1, LeadsWhere
  <2>4. \A i \in Walked(g[o]) : g[o][i] \in Movers
    BY <2>1, WalkedKnown DEF Movers
  <2> QED
    BY <2>2, <2>3, <2>4 DEF Results, Objects
<1> QED
  BY <1>1, <1>2, <1>3

LEMMA RootOfExtends ==
    ASSUME NEW g \in OwnerSets, NEW o \in Movers, NEW f, NEW h, Extends(f, h), RootOf(g, o, f) # Failed
    PROVE  RootOf(g, o, h) = RootOf(g, o, f)
<1>1. g[o] # None /\ ~Fails(f, g[o])
  BY DEF RootOf
<1>2. g[o] \in Seq(Owners)
  BY <1>1 DEF OwnerSets, Movers
<1>3. \A i \in Walked(g[o]) : g[o][i] \in Known /\ h[g[o][i]] = f[g[o][i]] /\ f[g[o][i]] # Failed
  BY <1>1, <1>2, WalkedKnown DEF Fails, Extends
<1>4. ~Fails(h, g[o])
  BY <1>3 DEF Fails
<1>5. g[o] # <<>> => LeadsTo(h, g[o]) = LeadsTo(f, g[o])
  BY <1>2, <1>3, LeadsWhere
<1> QED
  BY <1>1, <1>4, <1>5 DEF RootOf

\* what an owner leads to depends on the known owners only
LEMMA StepSame ==
    ASSUME NEW g \in OwnerSets, NEW f, NEW h, \A o \in Known : f[o] = h[o]
    PROVE  Step(g, f) = Step(g, h)
<1> SUFFICES ASSUME NEW o \in Movers PROVE RootOf(g, o, f) = RootOf(g, o, h)
  BY DEF Step
<1>1. CASE RootOf(g, o, f) # Failed
  BY <1>1, RootOfExtends DEF Extends
<1>2. CASE RootOf(g, o, h) # Failed
  BY <1>2, RootOfExtends DEF Extends
<1> QED
  BY <1>1, <1>2

Chain(g, m, r) == r = [n \in 0..m |-> IF n = 0 THEN Nowhere ELSE Step(g, r[n - 1])]

LEMMA ChainExists ==
    ASSUME NEW g, NEW m \in Nat
    PROVE  \E r : Chain(g, m, r)
<1> DEFINE Q == {n \in Nat : \E r : Chain(g, n, r)}
<1>1. 0 \in Q
  <2> DEFINE r == [n \in 0..0 |-> Nowhere]
  <2>1. r = [n \in 0..0 |-> IF n = 0 THEN Nowhere ELSE Step(g, r[n - 1])]
    OBVIOUS
  <2>2. Chain(g, 0, r)
    BY <2>1 DEF Chain
  <2> QED
    BY <2>2
<1>2. ASSUME NEW n \in Nat, n \in Q PROVE n + 1 \in Q
  <2>1. PICK r : Chain(g, n, r)
    BY <1>2
  <2>2. r = [i \in 0..n |-> IF i = 0 THEN Nowhere ELSE Step(g, r[i - 1])]
    BY <2>1 DEF Chain
  <2> DEFINE s == [i \in 0..(n + 1) |-> IF i = n + 1 THEN Step(g, r[n]) ELSE r[i]]
  <2>3. \A i \in 0..(n + 1) : s[i] = IF i = 0 THEN Nowhere ELSE Step(g, s[i - 1])
    <3> TAKE i \in 0..(n + 1)
    <3>1. CASE i = n + 1
      <4>1. i # 0 /\ i - 1 = n /\ n \in 0..(n + 1) /\ n # n + 1
        BY <3>1
      <4>2. s[i - 1] = r[n]
        BY <4>1
      <4> QED
        BY <3>1, <4>1, <4>2
    <3>2. CASE i # n + 1
      <4>1. i \in 0..n
        BY <3>2
      <4>2. i # 0 => i - 1 \in 0..(n + 1) /\ i - 1 # n + 1
        BY <4>1
      <4>3. s[i] = r[i] /\ (i # 0 => s[i - 1] = r[i - 1])
        BY <3>2, <4>2
      <4> HIDE DEF s
      <4>4. r[i] = IF i = 0 THEN Nowhere ELSE Step(g, r[i - 1])
        BY <2>2, <4>1
      <4> QED
        BY <4>3, <4>4
    <3> QED
      BY <3>1, <3>2
  <2>4. s = [i \in 0..(n + 1) |-> s[i]]
    OBVIOUS
  <2> HIDE DEF s
  <2>5. s = [i \in 0..(n + 1) |-> IF i = 0 THEN Nowhere ELSE Step(g, s[i - 1])]
    BY <2>3, <2>4
  <2> QED
    BY <2>5 DEF Chain
<1> HIDE DEF Q
<1>3. m \in Q
  BY <1>1, <1>2, Induction
<1> QED
  BY <1>3 DEF Q

LEMMA RootsChain ==
    ASSUME NEW g
    PROVE  \E r : Chain(g, Depth, r) /\ Roots(g) = r[Depth]
<1> DEFINE c == CHOOSE r : r = [n \in 0..Depth |->
                    IF n = 0 THEN [o \in Movers |-> Failed]
                    ELSE [o \in Movers |-> RootOf(g, o, r[n - 1])]]
<1>1. Roots(g) = c[Depth]
  BY DEF Roots, Depth, Movers
<1>2. Depth \in Nat
  BY RootOwnerAssumption, FS_CardinalityType DEF Depth
<1>3. \E r : r = [n \in 0..Depth |-> IF n = 0 THEN [o \in Movers |-> Failed]
                                    ELSE [o \in Movers |-> RootOf(g, o, r[n - 1])]]
  <2>1. PICK r : Chain(g, Depth, r)
    BY <1>2, ChainExists
  <2> QED
    BY <2>1 DEF Chain, Nowhere, Step
<1>4. c = [n \in 0..Depth |-> IF n = 0 THEN [o \in Movers |-> Failed]
                                    ELSE [o \in Movers |-> RootOf(g, o, c[n - 1])]]
  BY <1>3
<1> HIDE DEF c
<1>5. Chain(g, Depth, c)
  BY <1>4 DEF Chain, Nowhere, Step
<1> QED
  BY <1>1, <1>5

LEMMA ChainAt ==
    ASSUME NEW g \in OwnerSets, NEW m \in Nat, NEW r, Chain(g, m, r)
    PROVE  /\ r[0] = Nowhere
           /\ \A n \in 0..m : n # m => r[n + 1] = Step(g, r[n])
<1>1. r = [n \in 0..m |-> IF n = 0 THEN Nowhere ELSE Step(g, r[n - 1])]
  BY DEF Chain
<1>2. \A n \in 0..m : r[n] = IF n = 0 THEN Nowhere ELSE Step(g, r[n - 1])
  BY <1>1
<1>3. 0 \in 0..m
  OBVIOUS
<1>4. \A n \in 0..m : n # m => n + 1 \in 0..m /\ n + 1 # 0 /\ (n + 1) - 1 = n
  OBVIOUS
<1> QED
  BY <1>2, <1>3, <1>4

LEMMA ChainTyped ==
    ASSUME NEW g \in OwnerSets, NEW m \in Nat, NEW r, Chain(g, m, r)
    PROVE  \A n \in 0..m : r[n] \in [Movers -> Results]
<1> DEFINE Q == {n \in Nat : n <= m => r[n] \in [Movers -> Results]}
<1>1. 0 \in Q
  <2>1. Nowhere \in [Movers -> Results]
    BY DEF Nowhere, Results
  <2> QED
    BY <2>1, ChainAt
<1>2. ASSUME NEW n \in Nat, n \in Q, n + 1 <= m PROVE r[n + 1] \in [Movers -> Results]
  <2>1. r[n] \in [Movers -> Results] /\ n \in 0..m /\ n # m
    BY <1>2
  <2>2. r[n + 1] = Step(g, r[n])
    BY <2>1, ChainAt
  <2>3. Step(g, r[n]) \in [Movers -> Results]
    BY <2>1, RootOfTyped DEF Step
  <2> QED
    BY <2>2, <2>3
<1>3. \A n \in Nat : n \in Q => n + 1 \in Q
  BY <1>2
<1> HIDE DEF Q
<1>4. Nat \subseteq Q
  BY <1>1, <1>3, Induction
<1> QED
  BY <1>4 DEF Q

LEMMA ChainExtends ==
    ASSUME NEW g \in OwnerSets, NEW m \in Nat, NEW r, Chain(g, m, r), NEW n \in 0..m, n # m
    PROVE  Extends(r[n], r[n + 1])
<1> DEFINE Q == {i \in Nat : i < m => Extends(r[i], r[i + 1])}
<1>1. 0 \in Q
  BY ChainAt DEF Nowhere, Extends, Movers
<1>2. ASSUME NEW i \in Nat, i \in Q, i + 1 < m PROVE Extends(r[i + 1], r[i + 2])
  <2>1. Extends(r[i], r[i + 1])
    BY <1>2
  <2>2. i \in 0..m /\ i # m /\ i + 1 \in 0..m /\ i + 1 # m /\ (i + 1) + 1 = i + 2
    BY <1>2
  <2>3. r[i + 1] = Step(g, r[i]) /\ r[i + 2] = Step(g, r[i + 1])
    BY <2>2, ChainAt
  <2>4. \A o \in Known : r[i + 1][o] # Failed => r[i + 2][o] = r[i + 1][o]
    BY <2>1, <2>3, RootOfExtends DEF Step, Movers
  <2> QED
    BY <2>4 DEF Extends
<1>3. \A i \in Nat : i \in Q => i + 1 \in Q
  <2> TAKE i \in Nat
  <2>1. (i + 1) + 1 = i + 2
    OBVIOUS
  <2> QED
    BY <1>2, <2>1
<1> HIDE DEF Q
<1>4. n \in Q
  BY <1>1, <1>3, Induction
<1>5. n < m
  OBVIOUS
<1> QED
  BY <1>4, <1>5 DEF Q

LEMMA RootedFinite ==
    ASSUME NEW f
    PROVE  IsFiniteSet(Rooted(f)) /\ Cardinality(Rooted(f)) \in 0..Cardinality(Known)
<1>1. Rooted(f) \in SUBSET Known /\ IsFiniteSet(Known)
  BY RootOwnerAssumption DEF Rooted
<1>2. IsFiniteSet(Rooted(f)) /\ Cardinality(Rooted(f)) <= Cardinality(Known)
  BY <1>1, FS_Subset
<1>3. Cardinality(Rooted(f)) \in Nat /\ Cardinality(Known) \in Nat
  BY <1>1, <1>2, FS_CardinalityType
<1> QED
  BY <1>2, <1>3

LEMMA ChainGrows ==
    ASSUME NEW g \in OwnerSets, NEW m \in Nat, NEW r, Chain(g, m, r), NEW n \in 0..m, n # m
    PROVE  \/ Cardinality(Rooted(r[n])) >= n
           \/ \A o \in Known : r[n + 1][o] = r[n][o]
<1> DEFINE Same(i) == \A o \in Known : r[i + 1][o] = r[i][o]
           size(i) == Cardinality(Rooted(r[i]))
           Q == {i \in Nat : i < m => size(i) >= i \/ Same(i)}
<1>1. \A i \in Nat : size(i) \in Nat
  BY RootedFinite
<1>2. 0 \in Q
  BY <1>1
<1>3. ASSUME NEW i \in Nat, i \in Q, i + 1 < m PROVE size(i + 1) >= i + 1 \/ Same(i + 1)
  <2>1. i \in 0..m /\ i # m /\ i + 1 \in 0..m /\ i + 1 # m
    BY <1>3
  <2>2. r[i + 1] = Step(g, r[i]) /\ r[(i + 1) + 1] = Step(g, r[i + 1])
    BY <2>1, ChainAt
  <2>3. Extends(r[i], r[i + 1])
    BY <2>1, ChainExtends
  <2>4. CASE Same(i)
    <3>1. r[(i + 1) + 1] = r[i + 1]
      BY <2>2, <2>4, StepSame
    <3> QED
      BY <3>1
  <2>5. CASE ~Same(i)
    <3>1. size(i) >= i
      BY <1>3, <2>1, <2>5
    <3>2. PICK o \in Known : r[i + 1][o] # r[i][o]
      BY <2>5
    <3>3. r[i][o] = Failed /\ r[i + 1][o] # Failed
      BY <2>3, <3>2 DEF Extends
    <3>4. o \notin Rooted(r[i]) /\ Rooted(r[i]) \cup {o} \subseteq Rooted(r[i + 1])
      BY <2>3, <3>3 DEF Extends, Rooted
    <3>5. IsFiniteSet(Rooted(r[i])) /\ IsFiniteSet(Rooted(r[i + 1]))
      BY RootedFinite
    <3>6. Cardinality(Rooted(r[i]) \cup {o}) = size(i) + 1
      BY <3>4, <3>5, FS_AddElement
    <3>7. size(i) + 1 <= size(i + 1)
      BY <3>4, <3>5, <3>6, FS_Subset
    <3>8. size(i + 1) \in Nat
      BY RootedFinite
    <3> HIDE DEF size
    <3> QED
      BY <1>1, <3>1, <3>7, <3>8
  <2> QED
    BY <2>4, <2>5
<1>4. \A i \in Nat : i \in Q => i + 1 \in Q
  BY <1>3
<1> HIDE DEF Q
<1>5. n \in Q
  BY <1>2, <1>4, Induction
<1>6. n < m
  OBVIOUS
<1> QED
  BY <1>5, <1>6 DEF Q

LEMMA RootsTyped ==
    ASSUME NEW g \in OwnerSets
    PROVE  Roots(g) \in [Movers -> Results]
<1>1. Depth \in Nat
  BY RootOwnerAssumption, FS_CardinalityType DEF Depth
<1>2. PICK r : Chain(g, Depth, r) /\ Roots(g) = r[Depth]
  BY RootsChain
<1>3. Depth \in 0..Depth
  BY <1>1
<1> QED
  BY <1>1, <1>2, <1>3, ChainTyped

LEMMA RootsFixed ==
    ASSUME NEW g \in OwnerSets, NEW o \in Movers
    PROVE  Roots(g)[o] = RootOf(g, o, Roots(g))
<1> DEFINE n == Cardinality(Known)
<1>1. n \in Nat /\ Depth = n + 1 /\ IsFiniteSet(Known)
  BY RootOwnerAssumption, FS_CardinalityType DEF Depth
<1>2. PICK r : Chain(g, Depth, r) /\ Roots(g) = r[Depth]
  BY RootsChain
<1>3. n \in 0..Depth /\ n # Depth /\ Depth \in Nat
  BY <1>1
<1>4. r[n + 1] = Step(g, r[n])
  BY <1>2, <1>3, ChainAt
<1>5. \A p \in Known : r[n + 1][p] = r[n][p]
  <2>1. CASE Cardinality(Rooted(r[n])) >= n
    <3>1. Rooted(r[n]) \in SUBSET Known /\ Cardinality(Rooted(r[n])) \in 0..n
      BY RootedFinite DEF Rooted
    <3>2. Cardinality(Rooted(r[n])) = n
      BY <1>1, <2>1, <3>1
    <3>3. Rooted(r[n]) = Known
      BY <1>1, <3>1, <3>2, FS_Subset
    <3>4. Extends(r[n], r[n + 1])
      BY <1>2, <1>3, ChainExtends
    <3> QED
      BY <3>3, <3>4 DEF Rooted, Extends
  <2>2. CASE ~(Cardinality(Rooted(r[n])) >= n)
    BY <1>2, <1>3, <2>2, ChainGrows
  <2> QED
    BY <2>1, <2>2
<1>6. Step(g, r[n + 1]) = Step(g, r[n])
  BY <1>5, StepSame
<1>7. Roots(g) = Step(g, Roots(g))
  BY <1>1, <1>2, <1>4, <1>6
<1>8. Step(g, Roots(g))[o] = RootOf(g, o, Roots(g))
  BY DEF Step
<1> QED
  BY <1>7, <1>8

-----------------------------------------------------------------------------
(***************************************************************************)
(* One owner x changes, among owners that do not own each other.  What     *)
(* another owner leads to either stays, or it is what x leads to, or it    *)
(* failed because x did, or fails because x does.                          *)
(***************************************************************************)
Alike(f, e, x, o) ==
    \/ e[o] = f[o]
    \/ f[o] = f[x] /\ e[o] = e[x]
    \/ f[x] = Failed /\ f[o] = Failed /\ e[x] # Failed
    \/ e[x] = Failed /\ e[o] = Failed /\ f[x] # Failed

ChangedAt(g, h, x) == \A o \in Movers \ {x} : h[o] = g[o]

LEMMA WalkedAbove ==
    ASSUME NEW g \in OwnerSets, NEW o \in Movers, g[o] # None, NEW i \in Walked(g[o])
    PROVE  g[o][i] \in Known \cap Above(g, o)
<1>1. g[o] \in Seq(Owners)
  BY DEF OwnerSets, Movers
<1>2. i \in 1..Len(g[o]) /\ g[o][i] \in Known
  BY <1>1, WalkedKnown
<1>3. g[o][i] \in ToSet(g[o])
  BY <1>1, <1>2 DEF ToSet
<1> QED
  BY <1>2, <1>3 DEF Above

\* the owners it walks decide what an owner leads to
LEMMA AlikeUp ==
    ASSUME NEW g \in OwnerSets, NEW x, NEW o \in Movers, NEW f, NEW e,
           \A c \in Known \cap Above(g, o) : Alike(f, e, x, c),
           f[o] = RootOf(g, o, f), e[o] = RootOf(g, o, e)
    PROVE  Alike(f, e, x, o)
<1>1. CASE g[o] = None
  BY <1>1 DEF RootOf, Alike
<1>2. CASE g[o] # None
  <2> DEFINE list == g[o]
  <2>1. list \in Seq(Owners)
    BY <1>2 DEF OwnerSets, Movers
  <2>2. \A i \in Walked(list) : Alike(f, e, x, list[i])
    BY <1>2, WalkedAbove
  <2>3. /\ f[o] = IF Fails(f, list) THEN Failed ELSE IF list = <<>> THEN o ELSE LeadsTo(f, list)
        /\ e[o] = IF Fails(e, list) THEN Failed ELSE IF list = <<>> THEN o ELSE LeadsTo(e, list)
    BY <1>2 DEF RootOf
  <2> HIDE DEF list
  <2>4. CASE Fails(f, list) /\ Fails(e, list)
    BY <2>3, <2>4 DEF Alike
  <2>5. CASE Fails(f, list) /\ ~Fails(e, list)
    <3>1. PICK i \in Walked(list) : f[list[i]] = Failed
      BY <2>5 DEF Fails
    <3>2. e[list[i]] # Failed
      BY <2>5 DEF Fails
    <3> QED
      BY <2>2, <2>3, <2>5, <3>1, <3>2 DEF Alike
  <2>6. CASE ~Fails(f, list) /\ Fails(e, list)
    <3>1. PICK i \in Walked(list) : e[list[i]] = Failed
      BY <2>6 DEF Fails
    <3>2. f[list[i]] # Failed
      BY <2>6 DEF Fails
    <3> QED
      BY <2>2, <2>3, <2>6, <3>1, <3>2 DEF Alike
  <2>7. CASE ~Fails(f, list) /\ ~Fails(e, list)
    <3>1. CASE list = <<>>
      BY <2>3, <2>7, <3>1 DEF Alike
    <3>2. CASE list # <<>>
      <4>1. f[o] = LeadsTo(f, list) /\ e[o] = LeadsTo(e, list)
        BY <2>3, <2>7, <3>2
      <4>2. CASE LeadsTo(f, list) = LeadsTo(e, list)
        BY <4>1, <4>2 DEF Alike
      <4>3. ASSUME NEW i \in Walked(list), LeadsTo(f, list) = f[list[i]], LeadsTo(e, list) = e[list[i]]
            PROVE  Alike(f, e, x, o)
        <5>1. f[o] = f[list[i]] /\ e[o] = e[list[i]]
          BY <4>1, <4>3
        <5> QED
          BY <2>2, <5>1 DEF Alike
      <4> QED
        BY <2>1, <3>2, <4>2, <4>3, LeadsWhere
    <3> QED
      BY <3>1, <3>2
  <2> QED
    BY <2>4, <2>5, <2>6, <2>7
<1> QED
  BY <1>1, <1>2

LEMMA RootsAlike ==
    ASSUME NEW g \in OwnerSets, NEW h \in OwnerSets, NEW x \in Known, ChangedAt(g, h, x), ~Cyclic(g)
    PROVE  \A o \in Known : Alike(Roots(g), Roots(h), x, o)
<1> DEFINE f == Roots(g)
           e == Roots(h)
           B == {o \in Known : ~Alike(f, e, x, o)}
<1>1. ASSUME NEW o \in B PROVE Above(g, o) \cap B # {}
  <2>1. o \in Movers /\ o # x
    BY DEF Alike, Movers
  <2>2. h[o] = g[o]
    BY <2>1 DEF ChangedAt
  <2>3. RootOf(h, o, e) = RootOf(g, o, e)
    BY <2>2 DEF RootOf
  <2>4. f[o] = RootOf(g, o, f) /\ e[o] = RootOf(g, o, e)
    BY <2>1, <2>3, RootsFixed
  <2> HIDE DEF f, e
  <2>5. \E c \in Known \cap Above(g, o) : ~Alike(f, e, x, c)
    BY <2>1, <2>4, AlikeUp
  <2> QED
    BY <2>5
<1> HIDE DEF f, e
<1>2. B \subseteq Known
  OBVIOUS
<1>3. B = {}
  <2> HIDE DEF B
  <2> QED
    BY <1>1, <1>2, CyclicIf
<1> QED
  BY <1>3 DEF f, e

\* what x itself walks does not lead back to x, and stays
LEMMA RootsBelow ==
    ASSUME NEW g \in OwnerSets, NEW h \in OwnerSets, NEW x \in Known, ChangedAt(g, h, x), ~Cyclic(g),
           NEW c \in Known \cap Above(g, x)
    PROVE  Roots(h)[c] = Roots(g)[c]
<1> DEFINE f == Roots(g)
           e == Roots(h)
           D == {o \in Known : e[o] # f[o]}
<1>1. ASSUME NEW o \in D, o # x PROVE Above(g, o) \cap D # {}
  <2>1. o \in Movers
    BY DEF Movers
  <2>2. h[o] = g[o]
    BY <1>1, <2>1 DEF ChangedAt
  <2>3. RootOf(h, o, e) = RootOf(g, o, e)
    BY <2>2 DEF RootOf
  <2>4. f[o] = RootOf(g, o, f) /\ e[o] = RootOf(g, o, e)
    BY <2>1, <2>3, RootsFixed
  <2>5. RootOf(g, o, f) # RootOf(g, o, e)
    BY <2>4
  <2>6. g[o] # None /\ g[o] \in Seq(Owners)
    BY <2>1, <2>5 DEF RootOf, OwnerSets, Movers
  <2> HIDE DEF f, e
  <2>7. \E i \in Walked(g[o]) : f[g[o][i]] # e[g[o][i]]
    <3> SUFFICES ASSUME \A i \in Walked(g[o]) : f[g[o][i]] = e[g[o][i]] PROVE FALSE
      OBVIOUS
    <3>1. Fails(f, g[o]) <=> Fails(e, g[o])
      BY DEF Fails
    <3>2. g[o] # <<>> => LeadsTo(f, g[o]) = LeadsTo(e, g[o])
      BY <2>6, LeadsWhere
    <3> QED
      BY <2>5, <3>1, <3>2 DEF RootOf
  <2> QED
    BY <2>1, <2>6, <2>7, WalkedAbove
<1> SUFFICES ASSUME c \in D PROVE FALSE
  BY DEF f, e
<1> DEFINE S == D \cup {x}
<1>2. S \subseteq Known /\ S # {}
  OBVIOUS
<1>3. \A o \in S : Above(g, o) \cap S # {}
  <2> SUFFICES ASSUME NEW o \in S PROVE Above(g, o) \cap S # {}
    OBVIOUS
  <2>1. CASE o = x
    BY <2>1
  <2>2. CASE o # x
    <3> HIDE DEF D
    <3> QED
      BY <1>1, <2>2
  <2> QED
    BY <2>1, <2>2
<1> HIDE DEF S
<1> QED
  BY <1>2, <1>3, CyclicIf

-----------------------------------------------------------------------------
(***************************************************************************)
(* What the calls under way will yield, if the owners stay as they are:    *)
(* v[k] is the result of call k.                                           *)
(***************************************************************************)
Yield(e, k, below) ==
    IF Fails(e, calls[k].left) \/ (k # Len(calls) /\ below = Failed) THEN Failed
    ELSE IF calls[k].left # <<>> THEN LeadsTo(e, calls[k].left)
    ELSE IF k # Len(calls) THEN below
    ELSE IF calls[k].found = None THEN calls[k].via ELSE calls[k].found

Yields(e, v) == \A k \in 1..Len(calls) : v[k] = Yield(e, k, v[k + 1])

\* nothing changed yet: the references that call k followed, and those left, are the owner's
Split(k) ==
    \E done \in SUBSET (Known \cap Above(refs, calls[k].via)) :
        /\ ToSet(calls[k].left) \subseteq Above(refs, calls[k].via)
        /\ k # Len(calls) => calls[k + 1].via \in done
        /\ \A c \in done : Roots(refs)[c] # Failed \/ (k # Len(calls) /\ c = calls[k + 1].via)
        /\ \A e \in [Movers -> Results] :
              LET failing == (\E c \in done : e[c] = Failed) \/ Fails(e, calls[k].left)
                  root == RootOf(refs, calls[k].via, e)
              IN  /\ failing => root = Failed
                  /\ ~failing /\ calls[k].left # <<>> => root = LeadsTo(e, calls[k].left)
                  /\ ~failing /\ calls[k].left = <<>> /\ k # Len(calls) => root = e[calls[k + 1].via]

Unchanged(v) ==
    /\ calls[1].via = Pod
    /\ \A k \in 1..Len(calls) : v[k] = Roots(refs)[calls[k].via] /\ Split(k)

AnswerInv ==
    /\ ~cyclic => ~Cyclic(refs)
    /\ Walking /\ (changes = 0 \/ (changes = 1 /\ ~cyclic)) =>
          \E v : /\ Yields(Roots(refs), v) /\ v[1] \in seen
                 /\ changes = 0 => Unchanged(v)
    /\ AnswerWasRoot

LEMMA NothingLeft ==
    ASSUME NEW f
    PROVE  ~Fails(f, <<>>)
  BY DEF Fails, Walked, CustomAt

(***************************************************************************)
(* The one change, seen from a call under way: it yields what its owner    *)
(* led to before or what it leads to now.                                  *)
(***************************************************************************)
LEMMA CallChanges ==
    ASSUME StackInv, RefsInv, NEW h \in OwnerSets, NEW x \in Known, ChangedAt(refs, h, x), ~Cyclic(refs),
           NEW v, Yields(Roots(refs), v), Unchanged(v), NEW k \in 1..Len(calls), NEW below,
           k # Len(calls) => below \in {Roots(refs)[calls[k + 1].via], Roots(h)[calls[k + 1].via]}
    PROVE  Yield(Roots(h), k, below) \in {Roots(refs)[calls[k].via], Roots(h)[calls[k].via]}
<1> DEFINE f == Roots(refs)
           e == Roots(h)
           via == calls[k].via
           left == calls[k].left
           next == calls[k + 1].via
           inner == k # Len(calls)
           result == Yield(e, k, below)
<1>1. refs \in OwnerSets
  BY DEF RefsInv, OwnerSets
<1>2. f \in [Movers -> Results] /\ e \in [Movers -> Results]
  BY <1>1, RootsTyped
<1>3. left \in Seq(Owners) /\ via \in Movers
  BY CallsTyped DEF Movers
<1>4. f[via] = RootOf(refs, via, f)
  BY <1>1, <1>3, RootsFixed
<1>5. via # x => e[via] = RootOf(refs, via, e)
  <2>1. via # x => h[via] = refs[via]
    BY <1>3 DEF ChangedAt
  <2>2. e[via] = RootOf(h, via, e)
    BY <1>3, RootsFixed
  <2> QED
    BY <2>1, <2>2 DEF RootOf
<1>6. PICK done \in SUBSET (Known \cap Above(refs, via)) :
        /\ ToSet(left) \subseteq Above(refs, via)
        /\ inner => next \in done
        /\ \A c \in done : f[c] # Failed \/ (inner /\ c = next)
        /\ \A r \in [Movers -> Results] :
              LET failing == (\E c \in done : r[c] = Failed) \/ Fails(r, left)
                  root == RootOf(refs, via, r)
              IN  /\ failing => root = Failed
                  /\ ~failing /\ left # <<>> => root = LeadsTo(r, left)
                  /\ ~failing /\ left = <<>> /\ inner => root = r[next]
  BY DEF Unchanged, Split
<1> DEFINE FF == (\E c \in done : f[c] = Failed) \/ Fails(f, left)
           FE == (\E c \in done : e[c] = Failed) \/ Fails(e, left)
<1>7. /\ FF => f[via] = Failed
      /\ ~FF /\ left # <<>> => f[via] = LeadsTo(f, left)
      /\ ~FF /\ left = <<>> /\ inner => f[via] = f[next]
  BY <1>2, <1>4, <1>6
<1>8. via # x => /\ FE => e[via] = Failed
                 /\ ~FE /\ left # <<>> => e[via] = LeadsTo(e, left)
                 /\ ~FE /\ left = <<>> /\ inner => e[via] = e[next]
  BY <1>2, <1>5, <1>6
<1>9. \A c \in Known : Alike(f, e, x, c)
  BY <1>1, RootsAlike
<1>10. inner => next \in Known /\ below \in {f[next], e[next]}
  BY <1>6
<1>11. result = IF Fails(e, left) \/ (inner /\ below = Failed) THEN Failed
                ELSE IF left # <<>> THEN LeadsTo(e, left)
                ELSE IF inner THEN below
                ELSE IF calls[k].found = None THEN via ELSE calls[k].found
  BY DEF Yield
<1>12. v[k] = f[via] /\ v[k] = Yield(f, k, v[k + 1])
  BY DEF Unchanged, Yields
<1> SUFFICES result \in {f[via], e[via]}
  OBVIOUS
<1> HIDE DEF f, e, result
<1>14. \A i \in Walked(left) : left[i] \in Known /\ left[i] \in ToSet(left)
  <2>1. \A i \in Walked(left) : i \in 1..Len(left) /\ left[i] \in Known
    BY <1>3, WalkedKnown
  <2>2. DOMAIN left = 1..Len(left)
    BY <1>3
  <2> QED
    BY <2>1, <2>2 DEF ToSet
<1>13. ~inner /\ left = <<>> => result = f[via]
  BY <1>11, <1>12, NothingLeft DEF Yield
\* nothing is different for this call
<1>15. ASSUME \A i \in Walked(left) : e[left[i]] = f[left[i]], inner => below = f[next]
       PROVE  result = f[via]
  <2>1. Fails(e, left) <=> Fails(f, left)
    BY <1>15 DEF Fails
  <2>2. left # <<>> => LeadsTo(e, left) = LeadsTo(f, left)
    BY <1>3, <1>15, LeadsWhere
  <2>3. inner => v[k + 1] = f[next]
    <3>1. inner => k + 1 \in 1..Len(calls)
      BY DEF StackInv
    <3> QED
      BY <3>1 DEF Unchanged, f
  <2>4. v[k] = IF Fails(f, left) \/ (inner /\ f[next] = Failed) THEN Failed
               ELSE IF left # <<>> THEN LeadsTo(f, left)
               ELSE IF inner THEN f[next]
               ELSE IF calls[k].found = None THEN via ELSE calls[k].found
    BY <1>12, <2>3 DEF Yield
  <2> QED
    BY <1>11, <1>12, <1>15, <2>1, <2>2, <2>4
<1>16. CASE via = x
  <2>1. \A c \in Known \cap Above(refs, via) : e[c] = f[c]
    BY <1>1, <1>16, RootsBelow DEF f, e
  <2>2. inner => below = f[next]
    BY <1>6, <1>10, <2>1
  <2> QED
    BY <1>6, <1>14, <1>15, <2>1, <2>2
<1>17. CASE via # x /\ result = Failed
  <2>1. CASE Fails(e, left)
    BY <1>8, <1>17, <2>1
  <2>2. CASE inner /\ below = Failed
    BY <1>6, <1>7, <1>8, <1>10, <1>17, <2>2
  <2>3. CASE ~Fails(e, left) /\ ~(inner /\ below = Failed) /\ left # <<>>
    <3>1. result = LeadsTo(e, left)
      BY <1>11, <2>3
    <3>2. \E i \in Walked(left) : LeadsTo(e, left) = e[left[i]]
      <4>1. Failed \notin Custom
        BY RootOwnerAssumption
      <4> QED
        BY <1>3, <1>17, <2>3, <3>1, <4>1, LeadsWhere
    <3> QED
      BY <1>17, <2>3, <3>1, <3>2 DEF Fails
  <2>4. CASE ~Fails(e, left) /\ ~(inner /\ below = Failed) /\ left = <<>>
    BY <1>13, <1>17, <1>7, <2>4, <1>11
  <2> QED
    BY <2>1, <2>2, <2>3, <2>4
<1>18. CASE via # x /\ result # Failed /\ ~FE
  <2>1. ~Fails(e, left) /\ (inner => below # Failed)
    BY <1>11, <1>18
  <2>2. CASE left # <<>>
    BY <1>8, <1>11, <1>18, <2>1, <2>2
  <2>3. CASE left = <<>> /\ inner /\ below = e[next]
    BY <1>8, <1>11, <1>18, <2>1, <2>3
  <2>4. CASE left = <<>> /\ inner /\ below = f[next]
    <3>1. ~FF
      BY <1>6, <2>1, <2>4, NothingLeft
    <3> QED
      BY <1>7, <1>11, <2>1, <2>4, <3>1
  <2>5. CASE left = <<>> /\ ~inner
    BY <1>13, <2>5
  <2> QED
    BY <1>10, <2>2, <2>3, <2>4, <2>5
<1>19. CASE via # x /\ result # Failed /\ FE
  <2>1. ~Fails(e, left) /\ (inner => below # Failed)
    BY <1>11, <1>19
  <2>2. PICK c \in done : e[c] = Failed
    BY <1>19, <2>1
  <2>3. f[c] # Failed
    BY <1>6, <1>10, <2>1, <2>2
  <2>4. e[x] = Failed /\ f[x] # Failed
    BY <1>9, <2>2, <2>3 DEF Alike
  <2>5. \A d \in Known : e[d] # Failed => e[d] = f[d]
    BY <1>9, <2>4 DEF Alike
  <2>6. inner => below = f[next]
    BY <1>10, <2>1, <2>5
  <2>7. \A i \in Walked(left) : e[left[i]] = f[left[i]]
    BY <1>14, <2>1, <2>5 DEF Fails
  <2> QED
    BY <1>15, <2>6, <2>7
<1> QED
  BY <1>16, <1>17, <1>18, <1>19

\* from the innermost call to the outermost
LEMMA CallsChange ==
    ASSUME StackInv, Walking, RefsInv, NEW h \in OwnerSets, NEW x \in Known, ChangedAt(refs, h, x), ~Cyclic(refs),
           NEW v, Yields(Roots(refs), v), Unchanged(v)
    PROVE  \E w : Yields(Roots(h), w) /\ w[1] \in {Roots(refs)[Pod], Roots(h)[Pod]}
<1> DEFINE f == Roots(refs)
           e == Roots(h)
           n == Len(calls)
           Right(w, k) == w[k] = Yield(e, k, w[k + 1]) /\ w[k] \in {f[calls[k].via], e[calls[k].via]}
           Q == {m \in Nat : m < n => \E w : \A k \in (n - m)..n : Right(w, k)}
<1>1. n \in Nat \ {0}
  BY HereTyped
<1>2. \A k \in 1..n : \A below : (k # n => below \in {f[calls[k + 1].via], e[calls[k + 1].via]})
                                    => Yield(e, k, below) \in {f[calls[k].via], e[calls[k].via]}
  BY CallChanges
<1>9. \A w, below : Yield(e, n, below) = Yield(e, n, w)
  BY DEF Yield
<1> HIDE DEF f, e, n
<1>3. 0 \in Q
  <2> DEFINE w == [k \in n..(n + 1) |-> Yield(e, n, Failed)]
  <2>2. n \in n..(n + 1) /\ n \in 1..n /\ (n - 0)..n = {n}
    BY <1>1
  <2>3. w[n] = Yield(e, n, w[n + 1])
    BY <1>9, <2>2
  <2>4. Yield(e, n, w[n + 1]) \in {f[calls[n].via], e[calls[n].via]}
    BY <1>2, <2>2
  <2> QED
    BY <2>2, <2>3, <2>4
<1>4. ASSUME NEW m \in Nat, m \in Q PROVE m + 1 \in Q
  <2> SUFFICES ASSUME m + 1 < n PROVE \E w : \A k \in (n - (m + 1))..n : Right(w, k)
    OBVIOUS
  <2>1. m < n
    BY <1>1
  <2>2. PICK w : \A k \in (n - m)..n : Right(w, k)
    BY <1>4, <2>1
  <2> DEFINE i == n - (m + 1)
             u == [k \in i..(n + 1) |-> IF k = i THEN Yield(e, i, w[n - m]) ELSE w[k]]
  <2>3. i \in 1..n /\ i # n /\ i + 1 = n - m /\ n - m \in (n - m)..n
    BY <1>1
  <2> HIDE DEF i
  <2>4. \A k \in (n - m)..n : u[k] = w[k] /\ u[k + 1] = w[k + 1]
    <3> SUFFICES ASSUME NEW k \in (n - m)..n PROVE u[k] = w[k] /\ u[k + 1] = w[k + 1]
      OBVIOUS
    <3>1. k \in i..(n + 1) /\ k # i /\ k + 1 \in i..(n + 1) /\ k + 1 # i
      BY <1>1, <2>3
    <3> QED
      BY <3>1
  <2>5. u[i] = Yield(e, i, w[n - m]) /\ u[i + 1] = w[n - m]
    <3>1. i \in i..(n + 1) /\ i + 1 \in i..(n + 1) /\ i + 1 # i
      BY <1>1, <2>3
    <3> QED
      BY <2>3, <3>1
  <2>6. \A k \in i..n : k = i \/ k \in (n - m)..n
    <3> SUFFICES ASSUME NEW k \in i..n, k # i PROVE k \in (i + 1)..n
      BY <2>3
    <3> QED
      BY <1>1, <2>3
  <2> HIDE DEF u
  <2>7. Right(u, i)
    <3>1. w[n - m] \in {f[calls[i + 1].via], e[calls[i + 1].via]}
      BY <2>2, <2>3
    <3>2. Yield(e, i, w[n - m]) \in {f[calls[i].via], e[calls[i].via]}
      BY <1>2, <2>3, <3>1
    <3> QED
      BY <2>5, <3>2
  <2>8. \A k \in (n - m)..n : Right(u, k)
    BY <2>2, <2>4
  <2>9. \A k \in i..n : Right(u, k)
    BY <2>6, <2>7, <2>8
  <2> QED
    BY <2>9 DEF i
<1> HIDE DEF Q
<1>5. n - 1 \in Q
  BY <1>1, <1>3, <1>4, Induction
<1>10. n - (n - 1) = 1 /\ n - 1 < n /\ n - 1 \in Nat
  BY <1>1
<1>6. PICK w : \A k \in 1..n : Right(w, k)
  <2>1. \E w : \A k \in (n - (n - 1))..n : Right(w, k)
    BY <1>5, <1>10 DEF Q
  <2> QED
    BY <1>10, <2>1
<1>7. Yields(e, w) /\ w[1] \in {f[calls[1].via], e[calls[1].via]}
  BY <1>1, <1>6 DEF Yields, n
<1>8. calls[1].via = Pod
  BY DEF Unchanged
<1> QED
  BY <1>7, <1>8 DEF f, e

-----------------------------------------------------------------------------
(***************************************************************************)
(* The steps of the walk keep what the calls will yield.                   *)
(***************************************************************************)
LEMMA YieldsReturns ==
    ASSUME StackInv, Walking, NEW ref \in Objects, Returns(ref), Len(calls) # 1,
           NEW e, NEW v, Yields(e, v), v[Len(calls)] = ref
    PROVE  Yields(e, v)'
<1> DEFINE n == Len(calls)
<1>1. /\ n \in Nat \ {0} /\ Len(calls') = n - 1
      /\ \A k \in 1..n - 1 : /\ calls'[k].left = calls[k].left
                             /\ calls'[k].via = calls[k].via
                             /\ calls'[k].found = IF k = n - 1 THEN ref ELSE calls[k].found
  BY HereTyped, ReturnsPops
<1>2. ref # None /\ ref # Failed
  BY RootOwnerAssumption DEF Objects
<1>3. ASSUME NEW k \in 1..(n - 1) PROVE v[k] = Yield(e, k, v[k + 1])'
  <2>1. k \in 1..n /\ k # n
    BY <1>1
  <2>2. v[k] = Yield(e, k, v[k + 1])
    BY <2>1 DEF Yields
  <2>3. CASE k = n - 1
    <3>1. k + 1 = n
      BY <1>1, <2>3
    <3>2. v[k + 1] = ref
      BY <3>1
    <3> QED
      BY <1>1, <1>2, <2>1, <2>2, <2>3, <3>2 DEF Yield
  <2>4. CASE k # n - 1
    BY <1>1, <2>1, <2>2, <2>4 DEF Yield
  <2> QED
    BY <2>3, <2>4
<1> QED
  BY <1>1, <1>3 DEF Yields

LEMMA YieldsFollows ==
    ASSUME WalkInv, Follows, NEW e, e = Roots(refs), NEW v, Yields(e, v), NEW n, n = Len(calls),
           NEW owner, owner = Head(calls[n].left), NEW w,
           w = [k \in 1..(n + 2) |-> IF k = n + 1 THEN e[owner] ELSE v[k]]
    PROVE  Yields(e, w)'
<1>1. RefsInv /\ StackInv /\ refs \in OwnerSets
  BY DEF WalkInv, RefsInv, OwnerSets
<1>2. /\ n \in Nat \ {0}
      /\ calls[n].left # <<>>
      /\ owner \in Known /\ refs[owner] # None
      /\ Len(calls') = n + 1
      /\ calls'[n + 1] = Call(owner, refs)
      /\ \A k \in 1..n : /\ calls'[k].left = IF k = n THEN Tail(calls[k].left) ELSE calls[k].left
                         /\ calls'[k].via = calls[k].via
                         /\ calls'[k].found = calls[k].found
  BY <1>1, FollowsPushes
<1>3. calls'[n + 1].left = refs[owner] /\ calls'[n + 1].via = owner /\ calls'[n + 1].found = None
  BY <1>2 DEF Call
<1>5. e[owner] = RootOf(refs, owner, e)
  BY <1>1, <1>2, RootsFixed DEF Movers
<1>6. \A k \in 1..n : w[k] = v[k]
  BY <1>2
<1>7. w[n + 1] = e[owner]
  BY <1>2
<1>8. calls[n].left \in Seq(Owners)
  BY <1>1, <1>2, CallsTyped
<1>9. ASSUME NEW k \in 1..(n + 1) PROVE w[k] = Yield(e, k, w[k + 1])'
  <2>1. CASE k = n + 1
    BY <1>2, <1>3, <1>5, <1>7, <2>1 DEF Yield, RootOf
  <2>2. CASE k = n
    <3>1. v[n] = IF Fails(e, calls[n].left) THEN Failed ELSE LeadsTo(e, calls[n].left)
      <4>1. n \in 1..Len(calls) /\ n = Len(calls)
        BY <1>2
      <4>2. v[n] = Yield(e, n, v[n + 1])
        BY <4>1 DEF Yields
      <4> QED
        BY <1>2, <4>1, <4>2 DEF Yield
    <3>2. /\ Fails(e, calls[n].left) <=> e[owner] = Failed \/ Fails(e, Tail(calls[n].left))
          /\ LeadsTo(e, calls[n].left) = IF Tail(calls[n].left) = <<>> THEN e[owner]
                                         ELSE LeadsTo(e, Tail(calls[n].left))
      BY <1>2, <1>8, KnownHead
    <3>3. k # Len(calls') /\ calls'[k].left = Tail(calls[n].left) /\ w[k + 1] = e[owner]
      BY <1>2, <1>7, <2>2
    <3>4. Yield(e, k, w[k + 1])' = IF Fails(e, Tail(calls[n].left)) \/ e[owner] = Failed THEN Failed
                                   ELSE IF Tail(calls[n].left) # <<>> THEN LeadsTo(e, Tail(calls[n].left))
                                   ELSE e[owner]
      BY <3>3 DEF Yield
    <3>5. w[k] = v[n]
      BY <1>2, <1>6, <2>2
    <3>6. w[k] = IF Fails(e, Tail(calls[n].left)) \/ e[owner] = Failed THEN Failed
                 ELSE IF Tail(calls[n].left) # <<>> THEN LeadsTo(e, Tail(calls[n].left))
                 ELSE e[owner]
      BY <3>1, <3>2, <3>5
    <3> QED
      BY <3>4, <3>6, Zenon
  <2>3. CASE k \in 1..(n - 1)
    <3>1. k \in 1..n /\ k + 1 \in 1..n /\ k # n /\ k # n + 1
      BY <1>2, <2>3
    <3>2. v[k] = Yield(e, k, v[k + 1])
      BY <3>1 DEF Yields
    <3> QED
      BY <1>2, <1>6, <3>1, <3>2 DEF Yield
  <2> QED
    BY <1>2, <2>1, <2>2, <2>3
<1> QED
  BY <1>2, <1>9 DEF Yields

\* a failure goes all the way up
LEMMA FailureYields ==
    ASSUME StackInv, Walking, NEW e, NEW v, Yields(e, v), v[Len(calls)] = Failed
    PROVE  v[1] = Failed
<1> DEFINE n == Len(calls)
           T == {k \in 1..n : v[k] = Failed}
<1>1. n \in Nat \ {0}
  BY HereTyped
<1>2. T \in SUBSET Nat /\ T # {}
  BY <1>1
<1>3. PICK k \in T : \A m \in T : k <= m
  <2> HIDE DEF T
  <2> QED
    BY <1>2, SmallestNat
<1>4. CASE k = 1
  BY <1>3, <1>4
<1>5. CASE k # 1
  <2>1. k - 1 \in 1..n /\ (k - 1) + 1 = k /\ k - 1 # n /\ ~(k <= k - 1)
    BY <1>1, <1>5
  <2>2. v[k - 1] = Yield(e, k - 1, v[k])
    BY <2>1 DEF Yields
  <2>3. v[k - 1] = Failed
    BY <2>1, <2>2 DEF Yield
  <2> QED
    BY <1>3, <2>1, <2>3
<1> QED
  BY <1>4, <1>5

(***************************************************************************)
(* They also keep the account of the references followed and left.         *)
(***************************************************************************)
LEMMA UnchangedReturns ==
    ASSUME WalkInv, Walking, NEW ref \in Objects, Returns(ref), Len(calls) # 1, refs' = refs,
           NEW v, Unchanged(v), v[Len(calls)] = ref
    PROVE  Unchanged(v)'
<1> DEFINE n == Len(calls)
<1>1. /\ n \in Nat \ {0} /\ Len(calls') = n - 1
      /\ \A k \in 1..n - 1 : /\ calls'[k].left = calls[k].left
                             /\ calls'[k].via = calls[k].via
  BY HereTyped, ReturnsPops DEF WalkInv
<1>2. ref # Failed
  BY RootOwnerAssumption DEF Objects
<1>3. ASSUME NEW k \in 1..(n - 1)
      PROVE  v[k] = Roots(refs)[calls'[k].via] /\ Split(k)'
  <2>1. k \in 1..n /\ k # n
    BY <1>1
  <2>2. v[k] = Roots(refs)[calls[k].via] /\ Split(k)
    BY <2>1 DEF Unchanged
  <2>3. CASE k # n - 1
    <3>1. k + 1 \in 1..(n - 1) /\ k # Len(calls')
      BY <1>1, <2>3
    <3>2. /\ calls'[k].left = calls[k].left /\ calls'[k].via = calls[k].via
          /\ calls'[k + 1].via = calls[k + 1].via
      BY <1>1, <3>1
    <3>3. Split(k)'
      BY <2>1, <2>2, <3>1, <3>2 DEF Split, Above
    <3> QED
      BY <2>2, <3>2, <3>3
  <2>4. CASE k = n - 1
    <3>1. k + 1 = n /\ k = Len(calls') /\ n \in 1..n
      BY <1>1, <2>4
    <3>2. calls'[k].left = calls[k].left /\ calls'[k].via = calls[k].via
      BY <1>1
    <3>3. Roots(refs)[calls[n].via] # Failed
      BY <1>2, <3>1 DEF Unchanged
    <3>4. Split(k)'
      BY <2>1, <2>2, <3>1, <3>2, <3>3 DEF Split, Above
    <3> QED
      BY <2>2, <3>2, <3>4
  <2> QED
    BY <2>3, <2>4
<1>4. calls'[1].via = Pod
  <2>1. 1 \in 1..(n - 1)
    BY <1>1
  <2> QED
    BY <1>1, <2>1 DEF Unchanged
<1> QED
  BY <1>1, <1>3, <1>4 DEF Unchanged

LEMMA UnchangedFollows ==
    ASSUME WalkInv, Follows, NEW e, e = Roots(refs), NEW v, Yields(e, v), Unchanged(v), NEW n, n = Len(calls),
           NEW owner, owner = Head(calls[n].left), NEW w,
           w = [k \in 1..(n + 2) |-> IF k = n + 1 THEN e[owner] ELSE v[k]]
    PROVE  Unchanged(w)'
<1>1. RefsInv /\ StackInv /\ refs \in OwnerSets
  BY DEF WalkInv, RefsInv, OwnerSets
<1>2. /\ n \in Nat \ {0}
      /\ calls[n].left # <<>>
      /\ owner \in Known /\ refs[owner] # None
      /\ Len(calls') = n + 1
      /\ calls'[n + 1] = Call(owner, refs)
      /\ \A k \in 1..n : /\ calls'[k].left = IF k = n THEN Tail(calls[k].left) ELSE calls[k].left
                         /\ calls'[k].via = calls[k].via
  BY <1>1, FollowsPushes
<1>3. calls'[n + 1].left = refs[owner] /\ calls'[n + 1].via = owner
  BY <1>2 DEF Call
<1>4. refs' = refs
  BY DEF Follows
<1>5. \A k \in 1..n : w[k] = v[k]
  BY <1>2
<1>6. w[n + 1] = e[owner]
  BY <1>2
<1>7. n \in 1..n /\ calls[n].left \in Seq(Owners)
  BY <1>1, <1>2, CallsTyped
<1>8. ToSet(Tail(calls[n].left)) \subseteq ToSet(calls[n].left) /\ owner \in ToSet(calls[n].left)
  BY <1>2, <1>7, ToSetTail
\* the new call has all its references left
<1>9. Split(n + 1)'
  <2>1. ToSet(refs[owner]) \subseteq Above(refs, owner)
    BY <1>2 DEF Above
  <2>2. \A r \in [Movers -> Results] :
           /\ Fails(r, refs[owner]) => RootOf(refs, owner, r) = Failed
           /\ ~Fails(r, refs[owner]) /\ refs[owner] # <<>> => RootOf(refs, owner, r) = LeadsTo(r, refs[owner])
    BY <1>2 DEF RootOf
  <2>3. {} \in SUBSET (Known \cap Above(refs, owner))
    OBVIOUS
  <2>4. n + 1 = Len(calls')
    BY <1>2
  <2> QED
    BY <1>3, <1>4, <2>1, <2>2, <2>3, <2>4 DEF Split, Above
\* the innermost call has one reference less left, the one it follows
<1>10. Split(n)'
  <2> DEFINE left == calls[n].left
             via == calls[n].via
  <2>1. PICK done \in SUBSET (Known \cap Above(refs, via)) :
          /\ ToSet(left) \subseteq Above(refs, via)
          /\ \A c \in done : Roots(refs)[c] # Failed
          /\ \A r \in [Movers -> Results] :
                LET failing == (\E c \in done : r[c] = Failed) \/ Fails(r, left)
                    root == RootOf(refs, via, r)
                IN  /\ failing => root = Failed
                    /\ ~failing => root = LeadsTo(r, left)
    <3>1. Split(n)
      BY <1>7 DEF Unchanged
    <3>2. ~(n # Len(calls)) /\ left # <<>>
      BY <1>2
    <3> HIDE DEF left, via
    <3>3. PICK done \in SUBSET (Known \cap Above(refs, via)) :
            /\ ToSet(left) \subseteq Above(refs, via)
            /\ \A c \in done : Roots(refs)[c] # Failed
            /\ \A r \in [Movers -> Results] :
                  LET failing == (\E c \in done : r[c] = Failed) \/ Fails(r, left)
                      root == RootOf(refs, via, r)
                  IN  /\ failing => root = Failed
                      /\ ~failing /\ left # <<>> => root = LeadsTo(r, left)
      BY <3>1, <3>2, Zenon DEF Split, left, via
    <3> QED
      BY <3>2, <3>3
  <2> DEFINE now == done \cup {owner}
  <2>2. now \in SUBSET (Known \cap Above(refs, via)) /\ ToSet(Tail(left)) \subseteq Above(refs, via)
    BY <1>2, <1>8, <2>1
  <2>3. \A c \in now : Roots(refs)[c] # Failed \/ c = owner
    BY <2>1
  <2>4. ASSUME NEW r \in [Movers -> Results]
        PROVE  LET failing == (\E c \in now : r[c] = Failed) \/ Fails(r, Tail(left))
                   root == RootOf(refs, via, r)
               IN  /\ failing => root = Failed
                   /\ ~failing /\ Tail(left) # <<>> => root = LeadsTo(r, Tail(left))
                   /\ ~failing /\ Tail(left) = <<>> => root = r[owner]
    <3>1. /\ Fails(r, left) <=> r[owner] = Failed \/ Fails(r, Tail(left))
          /\ LeadsTo(r, left) = IF Tail(left) = <<>> THEN r[owner] ELSE LeadsTo(r, Tail(left))
      BY <1>2, <1>7, KnownHead
    <3> QED
      BY <2>1, <3>1
  <2>5. n \in 1..n /\ n # Len(calls') /\ calls'[n].left = Tail(left) /\ calls'[n].via = via /\ calls'[n + 1].via = owner
    BY <1>2, <1>3, <1>7
  <2> HIDE DEF now, left, via
  <2> QED
    BY <1>4, <2>2, <2>3, <2>4, <2>5 DEF Split, Above, now
<1>11. ASSUME NEW k \in 1..(n - 1) PROVE Split(k)'
  <2>1. k \in 1..n /\ k + 1 \in 1..n /\ k # n /\ k # Len(calls')
    BY <1>2
  <2>2. Split(k)
    BY <2>1 DEF Unchanged
  <2>3. /\ calls'[k].left = calls[k].left /\ calls'[k].via = calls[k].via
        /\ calls'[k + 1].via = calls[k + 1].via
    BY <1>2, <2>1
  <2> QED
    BY <1>4, <2>1, <2>2, <2>3 DEF Split, Above
<1>12. ASSUME NEW k \in 1..(n + 1) PROVE w[k] = Roots(refs)[calls'[k].via]
  <2>1. CASE k = n + 1
    BY <1>3, <1>6, <2>1
  <2>2. CASE k # n + 1
    <3>1. k \in 1..n
      BY <1>2, <2>2
    <3> QED
      BY <1>2, <1>5, <3>1 DEF Unchanged
  <2> QED
    BY <2>1, <2>2
<1>13. calls'[1].via = Pod
  <2>1. 1 \in 1..n
    BY <1>2
  <2> QED
    BY <1>2, <2>1 DEF Unchanged
<1>14. ASSUME NEW k \in 1..(n + 1) PROVE Split(k)'
  <2>1. k = n + 1 \/ k = n \/ k \in 1..(n - 1)
    BY <1>2
  <2> QED
    BY <1>9, <1>10, <1>11, <2>1
<1> QED
  BY <1>2, <1>4, <1>12, <1>13, <1>14 DEF Unchanged

-----------------------------------------------------------------------------
LEMMA AnswerInit == RootOwnerInit => AnswerInv
<1> SUFFICES ASSUME RootOwnerInit PROVE AnswerInv
  OBVIOUS
<1>1. /\ calls = <<Call(Pod, refs)>> /\ answer = None /\ changes = 0
      /\ seen = {RootIn(refs)} /\ cyclic = Cyclic(refs)
  BY DEF RootOwnerInit
<1>2. RefsInv /\ StackInv /\ refs \in OwnerSets
  BY WalkInit DEF WalkInv, RefsInv, OwnerSets
<1>3. Len(calls) = 1 /\ calls[1].left = refs[Pod] /\ calls[1].via = Pod /\ calls[1].found = None
  BY <1>1 DEF Call
<1>4. Pod \in Movers /\ refs[Pod] # None
  BY <1>2 DEF RefsInv, Movers
<1> DEFINE e == Roots(refs)
           v == [k \in 1..2 |-> e[Pod]]
<1>5. e[Pod] = RootOf(refs, Pod, e)
  BY <1>2, <1>4, RootsFixed
<1>6. v[1] = e[Pod]
  OBVIOUS
<1> HIDE DEF e, v
<1>7. Yields(e, v)
  BY <1>3, <1>4, <1>5, <1>6 DEF Yields, Yield, RootOf
<1>8. Split(1)
  <2>1. ToSet(refs[Pod]) \subseteq Above(refs, Pod)
    BY <1>4 DEF Above
  <2>2. \A r \in [Movers -> Results] :
           /\ Fails(r, refs[Pod]) => RootOf(refs, Pod, r) = Failed
           /\ ~Fails(r, refs[Pod]) /\ refs[Pod] # <<>> => RootOf(refs, Pod, r) = LeadsTo(r, refs[Pod])
    BY <1>4 DEF RootOf
  <2>3. {} \in SUBSET (Known \cap Above(refs, Pod))
    OBVIOUS
  <2> QED
    BY <1>3, <2>1, <2>2, <2>3 DEF Split
<1>9. Unchanged(v)
  BY <1>3, <1>6, <1>8 DEF Unchanged, e
<1>10. v[1] \in seen
  BY <1>1, <1>6 DEF RootIn, e
<1>11. \E w : Yields(Roots(refs), w) /\ w[1] \in seen /\ (changes = 0 => Unchanged(w))
  BY <1>7, <1>9, <1>10 DEF e
<1>12. AnswerWasRoot
  BY <1>1 DEF AnswerWasRoot
<1> QED
  BY <1>1, <1>11, <1>12 DEF AnswerInv

\* a call returns what it was to yield
LEMMA AnswerReturns ==
    ASSUME WalkInv, AnswerInv, Walking, NEW ref \in Objects, Returns(ref),
           UNCHANGED <<refs, cancelled, changes, seen, cyclic>>,
           \A v : Yields(Roots(refs), v) => v[Len(calls)] = ref
    PROVE  AnswerInv'
<1>1. StackInv /\ Len(calls) \in Nat \ {0}
  BY HereTyped DEF WalkInv
<1>2. ~cyclic' => ~Cyclic(refs)'
  BY DEF AnswerInv
<1>3. (changes = 0 \/ (changes = 1 /\ ~cyclic)) =>
          \E v : /\ Yields(Roots(refs), v) /\ v[1] \in seen
                 /\ changes = 0 => Unchanged(v)
  BY DEF AnswerInv
<1>4. CASE Len(calls) = 1
  <2>1. answer' = ref /\ calls' = <<>>
    BY <1>4 DEF Returns
  <2>2. changes = 0 \/ (changes = 1 /\ ~cyclic) => answer' \in seen
    BY <1>3, <1>4, <2>1
  <2>3. changes \in Nat
    BY RootOwnerAssumption DEF WalkInv, RestInv
  <2>4. AnswerWasRoot'
    BY <2>2, <2>3 DEF AnswerWasRoot
  <2> QED
    BY <1>2, <2>1, <2>4 DEF AnswerInv, Walking
<1>5. CASE Len(calls) # 1
  <2>1. answer' = answer /\ answer = None
    BY <1>5 DEF Returns, StackInv, WalkInv, Walking
  <2>2. AnswerWasRoot'
    BY <2>1 DEF AnswerWasRoot
  <2>3. ASSUME changes' = 0 \/ (changes' = 1 /\ ~cyclic')
        PROVE  \E v : /\ Yields(Roots(refs), v)' /\ v[1] \in seen'
                      /\ changes' = 0 => Unchanged(v)'
    <3>1. PICK v : /\ Yields(Roots(refs), v) /\ v[1] \in seen
                   /\ changes = 0 => Unchanged(v)
      BY <1>3, <2>3
    <3>2. v[Len(calls)] = ref
      BY <3>1
    <3>3. Yields(Roots(refs), v)'
      <4>1. PICK e : e = Roots(refs)
        OBVIOUS
      <4>2. Yields(e, v)'
        BY <1>1, <1>5, <3>1, <3>2, <4>1, YieldsReturns
      <4>3. Roots(refs)' = e
        BY <4>1
      <4> QED
        BY <4>2, <4>3
    <3>4. changes = 0 => Unchanged(v)'
      BY <1>5, <3>1, <3>2, UnchangedReturns
    <3> QED
      BY <3>1, <3>3, <3>4
  <2> QED
    BY <1>2, <2>2, <2>3 DEF AnswerInv
<1> QED
  BY <1>4, <1>5

LEMMA AnswerFollows ==
    ASSUME WalkInv, AnswerInv, Follows
    PROVE  AnswerInv'
<1>1. UNCHANGED <<refs, answer, cancelled, changes, seen, cyclic>> /\ Walking
  BY DEF Follows
<1>2. ~cyclic' => ~Cyclic(refs)'
  BY <1>1 DEF AnswerInv
<1>3. AnswerWasRoot'
  BY <1>1 DEF AnswerInv, AnswerWasRoot
<1>4. ASSUME changes' = 0 \/ (changes' = 1 /\ ~cyclic')
      PROVE  \E v : /\ Yields(Roots(refs), v)' /\ v[1] \in seen'
                    /\ changes' = 0 => Unchanged(v)'
  <2>1. PICK v : /\ Yields(Roots(refs), v) /\ v[1] \in seen
                 /\ changes = 0 => Unchanged(v)
    BY <1>1, <1>4 DEF AnswerInv
  <2>2. PICK e : e = Roots(refs)
    OBVIOUS
  <2>3. PICK n : n = Len(calls)
    OBVIOUS
  <2>4. PICK owner : owner = Head(calls[n].left)
    OBVIOUS
  <2>5. PICK w : w = [k \in 1..(n + 2) |-> IF k = n + 1 THEN e[owner] ELSE v[k]]
    OBVIOUS
  <2>6. Yields(e, w)'
    BY <2>1, <2>2, <2>3, <2>4, <2>5, YieldsFollows
  <2>7. changes = 0 => Unchanged(w)'
    BY <2>1, <2>2, <2>3, <2>4, <2>5, UnchangedFollows
  <2>8. w[1] = v[1]
    <3>1. n \in Nat \ {0}
      BY <1>1, <2>3, HereTyped DEF WalkInv
    <3> QED
      BY <2>5, <3>1
  <2>9. Roots(refs)' = e
    BY <1>1, <2>2
  <2> QED
    BY <1>1, <2>1, <2>6, <2>7, <2>8, <2>9
<1> QED
  BY <1>2, <1>3, <1>4 DEF AnswerInv

LEMMA AnswerFails ==
    ASSUME WalkInv, AnswerInv, GetFails
    PROVE  AnswerInv'
<1>1. /\ UNCHANGED <<refs, cancelled, changes, seen, cyclic>>
      /\ Walking /\ StackInv /\ answer' = Failed /\ calls' = <<>>
      /\ Here.left # <<>> /\ Head(Here.left) \in Known
      /\ cancelled \/ refs[Head(Here.left)] = None
  BY DEF GetFails, WalkInv
<1>2. ~cyclic' => ~Cyclic(refs)'
  BY <1>1 DEF AnswerInv
<1>3. ASSUME ~cancelled, changes = 0 \/ (changes = 1 /\ ~cyclic)
      PROVE  answer' \in seen
  <2>1. PICK v : Yields(Roots(refs), v) /\ v[1] \in seen
    BY <1>1, <1>3 DEF AnswerInv
  <2> DEFINE n == Len(calls)
             owner == Head(calls[n].left)
             e == Roots(refs)
  <2>2. n \in 1..n /\ Here = calls[n] /\ calls[n].left \in Seq(Owners)
    <3>1. n \in 1..n /\ Here = calls[n]
      BY <1>1, HereTyped
    <3> QED
      BY <1>1, <3>1, CallsTyped
  <2>3. owner \in Known /\ refs[owner] = None /\ calls[n].left # <<>>
    BY <1>1, <1>3, <2>2
  <2>4. e[owner] = Failed
    <3>1. refs \in OwnerSets /\ owner \in Movers
      BY <2>3 DEF WalkInv, RefsInv, OwnerSets, Movers
    <3> QED
      BY <2>3, <3>1, RootsFixed DEF RootOf
  <2>5. Fails(e, calls[n].left)
    BY <2>2, <2>3, <2>4, KnownHead
  <2>6. v[n] = Failed
    BY <2>1, <2>2, <2>5 DEF Yields, Yield
  <2>7. v[1] = Failed
    BY <1>1, <2>1, <2>6, FailureYields
  <2> QED
    BY <1>1, <2>1, <2>7
<1>4. changes \in Nat
  BY RootOwnerAssumption DEF WalkInv, RestInv
<1>5. AnswerWasRoot'
  BY <1>1, <1>3, <1>4 DEF AnswerWasRoot, WalkInv, RestInv
<1> QED
  BY <1>1, <1>2, <1>5 DEF AnswerInv, Walking

LEMMA AnswerChanges ==
    ASSUME WalkInv, AnswerInv, NEW x \in Known, OwnerChanges(x)
    PROVE  AnswerInv'
<1>1. /\ UNCHANGED <<calls, answer, cancelled>> /\ Walking
      /\ changes' = changes + 1 /\ seen' = seen \cup {RootIn(refs')}
      /\ cyclic' = (cyclic \/ Cyclic(refs'))
      /\ changes \in Nat /\ cyclic \in BOOLEAN
  BY RootOwnerAssumption DEF OwnerChanges, WalkInv, RestInv
<1>2. ~cyclic' => ~Cyclic(refs)'
  BY <1>1
<1>3. AnswerWasRoot'
  <2>1. answer = None
    BY <1>1 DEF WalkInv, StackInv, Walking
  <2> QED
    BY <1>1, <2>1 DEF AnswerWasRoot
<1>4. ASSUME changes' = 0 \/ (changes' = 1 /\ ~cyclic')
      PROVE  \E v : /\ Yields(Roots(refs), v)' /\ v[1] \in seen'
                    /\ changes' = 0 => Unchanged(v)'
  <2>1. changes = 0 /\ changes' = 1 /\ ~cyclic /\ ~Cyclic(refs)
    BY <1>1, <1>4 DEF AnswerInv
  <2>2. PICK v : Yields(Roots(refs), v) /\ v[1] \in seen /\ Unchanged(v)
    BY <1>1, <2>1 DEF AnswerInv
  <2>3. RefsInv /\ RefsInv' /\ StackInv
    BY OwnerChangesStep DEF WalkInv
  <2>4. PICK h \in OwnerSets : h = refs'
    BY <2>3 DEF RefsInv, OwnerSets
  <2>5. ChangedAt(refs, h, x)
    BY <2>3, <2>4 DEF OwnerChanges, ChangedAt, RefsInv, Movers
  <2>6. PICK w : Yields(Roots(h), w) /\ w[1] \in {Roots(refs)[Pod], Roots(h)[Pod]}
    BY <1>1, <2>1, <2>2, <2>3, <2>5, CallsChange
  <2>7. PICK e : e = Roots(h)
    OBVIOUS
  <2>8. Yields(e, w)'
    BY <1>1, <2>6, <2>7 DEF Yields, Yield
  <2>9. Roots(refs)' = e
    BY <2>4, <2>7
  <2>10. Roots(refs)[Pod] \in seen
    <3>1. 1 \in 1..Len(calls)
      BY <1>1, <2>3, HereTyped
    <3> QED
      BY <2>2, <3>1 DEF Unchanged
  <2>11. Roots(h)[Pod] \in seen'
    BY <1>1, <2>4 DEF RootIn
  <2>12. w[1] \in seen'
    BY <1>1, <2>6, <2>10, <2>11
  <2> QED
    BY <2>1, <2>8, <2>9, <2>12
<1> QED
  BY <1>2, <1>3, <1>4 DEF AnswerInv

LEMMA AnswerSame ==
    ASSUME AnswerInv, UNCHANGED <<refs, calls, answer, changes, seen, cyclic>>, cancelled => cancelled'
    PROVE  AnswerInv'
<1>1. AnswerWasRoot'
  BY DEF AnswerInv, AnswerWasRoot
<1>2. \A v : /\ Yields(Roots(refs), v) => Yields(Roots(refs), v)'
             /\ Unchanged(v) => Unchanged(v)'
  <2>1. \A v : Yields(Roots(refs), v) => Yields(Roots(refs), v)'
    BY DEF Yields, Yield
  <2>2. \A k : Split(k) => Split(k)'
    <3> SUFFICES ASSUME NEW k, Split(k) PROVE Split(k)'
      OBVIOUS
    <3>1. refs' = refs /\ calls' = calls
      OBVIOUS
    <3> QED
      BY <3>1 DEF Split, Above
  <2>3. ASSUME NEW v, Unchanged(v) PROVE Unchanged(v)'
    BY <2>2, <2>3 DEF Unchanged
  <2> QED
    BY <2>1, <2>3
<1> QED
  BY <1>1, <1>2 DEF AnswerInv, Walking

LEMMA AnswerKept == WalkInv /\ AnswerInv /\ [RootOwnerNext]_rootVars => AnswerInv'
<1> SUFFICES ASSUME WalkInv, AnswerInv, [RootOwnerNext]_rootVars PROVE AnswerInv'
  OBVIOUS
<1>1. ASSUME Walking
      PROVE  /\ Len(calls) \in 1..Len(calls) /\ Here = calls[Len(calls)]
             /\ Here.left \in Seq(Owners) /\ Here.via \in Known \cup {Pod}
             /\ Here.found \in Objects \cup {None}
  <2>1. StackInv
    BY DEF WalkInv
  <2>2. Len(calls) \in 1..Len(calls) /\ Here = calls[Len(calls)]
    BY <1>1, <2>1, HereTyped
  <2> QED
    BY <2>1, <2>2, CallsTyped
<1>2. ASSUME EndOfReferences PROVE AnswerInv'
  <2> DEFINE ref == IF Here.found = None THEN Here.via ELSE Here.found
  <2>1. /\ Walking /\ Returns(ref) /\ Here.left = <<>>
        /\ UNCHANGED <<refs, cancelled, changes, seen, cyclic>>
    BY <1>2 DEF EndOfReferences
  <2>2. ref \in Objects
    BY <1>1, <2>1 DEF Objects
  <2>3. \A v : Yields(Roots(refs), v) => v[Len(calls)] = ref
    BY <1>1, <2>1, NothingLeft DEF Yields, Yield
  <2> HIDE DEF ref
  <2> QED
    BY <2>1, <2>2, <2>3, AnswerReturns
<1>3. ASSUME MeetsCustom PROVE AnswerInv'
  <2> DEFINE ref == Head(Here.left)
  <2>1. /\ Walking /\ Returns(ref) /\ Here.left # <<>> /\ ref \in Custom
        /\ UNCHANGED <<refs, cancelled, changes, seen, cyclic>>
    BY <1>3 DEF MeetsCustom
  <2>2. ref \in Objects
    BY <2>1 DEF Objects
  <2>3. \A v : Yields(Roots(refs), v) => v[Len(calls)] = ref
    <3>1. \A f : ~Fails(f, Here.left) /\ LeadsTo(f, Here.left) = ref
      BY <1>1, <2>1, CustomHead
    <3> QED
      BY <1>1, <2>1, <3>1 DEF Yields, Yield
  <2> HIDE DEF ref
  <2> QED
    BY <2>1, <2>2, <2>3, AnswerReturns
<1>4. CASE Cancelled
  BY <1>4, AnswerSame DEF Cancelled
<1>5. CASE UNCHANGED rootVars
  BY <1>5, AnswerSame DEF rootVars
<1> QED
  BY <1>2, <1>3, <1>4, <1>5, AnswerFollows, AnswerFails, AnswerChanges DEF RootOwnerNext, WalkStep

(***************************************************************************)
(* For any owners, although rootOwner reads them one after the other       *)
(* (utils.go:201): unless more than one of them changes meanwhile, or one  *)
(* in a cycle does, it answers with the root the pod had at some moment,   *)
(* and fails only where that root could not be reached at some moment, or  *)
(* the caller is gone.                                                     *)
(***************************************************************************)
THEOREM AnswerWasRootEver == RootOwnerSpec => []AnswerWasRoot
<1>1. AnswerInv => AnswerWasRoot
  BY DEF AnswerInv
<1> QED
  BY <1>1, WalkInit, WalkKept, AnswerInit, AnswerKept, PTL DEF RootOwnerSpec
=============================================================================
