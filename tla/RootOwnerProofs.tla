--------------------------- MODULE RootOwnerProofs ---------------------------
(***************************************************************************)
(* The recursion of rootOwner as a stack of calls keeps its shape, for any *)
(* owners and any changes among them: an answer is one of them or Failed,  *)
(* never nil, and there is one exactly when no call is left.               *)
(***************************************************************************)
EXTENDS RootOwner, FiniteSetTheorems, TLAPS

Owners == Known \cup Custom
Calls == [left: Seq(Owners), via: Known \cup {Pod}, found: Objects \cup {None}]

RefsInv ==
    /\ refs \in [Known \cup {Pod} -> Seq(Owners) \cup {None}]
    /\ \A o \in Known \cup {Pod} : refs[o] \in Lists(o) \cup {None}
    /\ refs[Pod] # None

StackInv ==
    /\ calls \in Seq(Calls)
    /\ answer \in Objects \cup {None, Failed}
    /\ answer = None <=> calls # <<>>

RestInv ==
    /\ cancelled \in BOOLEAN
    /\ changes \in 0..MaxChanges
    /\ cyclic \in BOOLEAN

WalkInv == RefsInv /\ StackInv /\ RestInv

-----------------------------------------------------------------------------
LEMMA ListsOfOwners ==
    ASSUME NEW o \in Known \cup {Pod}
    PROVE  Lists(o) \subseteq Seq(Owners)
<1>1. MayOwn[o] \subseteq Owners
  BY RootOwnerAssumption, Zenon DEF Owners
<1>2. SUFFICES ASSUME NEW n \in 0..2, NEW list \in [1..n -> MayOwn[o]] PROVE list \in Seq(Owners)
  BY DEF Lists
<1>3. list \in [1..n -> Owners]
  BY <1>1
<1> QED
  BY <1>3

\* all but the last of a sequence
LEMMA FrontTyped ==
    ASSUME NEW S, NEW s \in Seq(S), Len(s) > 1
    PROVE  Front(s) \in Seq(S) /\ Len(Front(s)) = Len(s) - 1
  BY DEF Front

LEMMA CallTyped ==
    ASSUME RefsInv, NEW o \in Known \cup {Pod}, refs[o] # None
    PROVE  Call(o, refs) \in Calls
<1>1. refs[o] \in Seq(Owners)
  BY ListsOfOwners DEF RefsInv
<1> QED
  BY <1>1 DEF Call, Calls

LEMMA HereTyped ==
    ASSUME StackInv, Walking
    PROVE  /\ calls[Len(calls)] \in Calls
           /\ Here = calls[Len(calls)]
           /\ Len(calls) \in Nat \ {0}
<1>1. Len(calls) \in Nat \ {0}
  BY DEF StackInv, Walking
<1> QED
  BY <1>1 DEF StackInv, Here, Last

(***************************************************************************)
(* A return answers, or hands the reference to the call below.             *)
(***************************************************************************)
LEMMA ReturnsStep ==
    ASSUME StackInv, Walking, NEW ref \in Objects, Returns(ref)
    PROVE  StackInv'
<1>1. ref # None /\ ref # Failed
  BY RootOwnerAssumption DEF Objects
<1>2. Len(calls) \in Nat \ {0}
  BY HereTyped
<1>3. CASE Len(calls) = 1
  <2>1. answer' = ref /\ calls' = <<>>
    BY <1>3 DEF Returns
  <2>2. <<>> \in Seq(Calls)
    OBVIOUS
  <2> QED
    BY <1>1, <2>1, <2>2 DEF StackInv
<1>4. CASE Len(calls) # 1
  <2> DEFINE n == Len(calls) - 1
  <2>1. n \in Nat \ {0}
    BY <1>2, <1>4
  <2>2. Front(calls) \in Seq(Calls) /\ Len(Front(calls)) = n
    <3>1. Len(calls) > 1
      BY <1>2, <1>4
    <3>2. calls \in Seq(Calls)
      BY DEF StackInv
    <3> HIDE DEF Calls
    <3> QED
      BY <3>1, <3>2, FrontTyped
  <2>3. answer' = answer /\ calls' = [Front(calls) EXCEPT ![n].found = ref]
    BY <1>4 DEF Returns
  <2>4. Front(calls)[n] \in Calls
    BY <2>1, <2>2
  <2>5. [Front(calls)[n] EXCEPT !.found = ref] \in Calls
    BY <2>4 DEF Calls
  <2>6. calls' \in Seq(Calls) /\ Len(calls') = n
    BY <2>1, <2>2, <2>3, <2>5
  <2>7. calls' # <<>>
    BY <2>1, <2>6
  <2>8. answer = None
    BY DEF StackInv, Walking
  <2> QED
    BY <2>3, <2>6, <2>7, <2>8 DEF StackInv
<1> QED
  BY <1>3, <1>4

\* the owners as they are after somebody changed them
LEMMA RefsTyped ==
    ASSUME NEW g, NEW D, NEW R, g \in [D -> R],
           D = Known \cup {Pod},
           \A o \in D : g[o] \in Lists(o) \cup {None}
    PROVE  g \in [Known \cup {Pod} -> Seq(Owners) \cup {None}]
<1>1. \A o \in D : g[o] \in Seq(Owners) \cup {None}
  BY ListsOfOwners
<1> QED
  BY <1>1

LEMMA WalkInit == RootOwnerInit => WalkInv
<1> SUFFICES ASSUME RootOwnerInit PROVE WalkInv
  OBVIOUS
<1>1. \A o \in Known \cup {Pod} : refs[o] \in Lists(o) \cup (IF o = Pod THEN {} ELSE {None})
  BY DEF RootOwnerInit
<1>2. \A o \in Known \cup {Pod} : refs[o] \in Lists(o) \cup {None}
  BY <1>1
<1>3. refs \in [Known \cup {Pod} -> UNION {Lists(o) \cup {None} : o \in Known \cup {Pod}}]
  BY DEF RootOwnerInit
<1>4. refs[Pod] # None
  BY <1>1, NoneAssumption
<1>5. RefsInv
  <2> HIDE DEF Lists
  <2> QED
    BY <1>2, <1>3, <1>4, RefsTyped DEF RefsInv
<1>6. StackInv
  <2>1. Call(Pod, refs) \in Calls
    BY <1>4, <1>5, CallTyped
  <2>2. calls = <<Call(Pod, refs)>> /\ answer = None
    BY DEF RootOwnerInit
  <2> HIDE DEF Call, Calls
  <2>3. calls \in Seq(Calls) /\ calls # <<>>
    BY <2>1, <2>2
  <2>4. answer \in Objects \cup {None, Failed}
    BY <2>2
  <2> QED
    BY <2>2, <2>3, <2>4 DEF StackInv
<1>7. cyclic \in BOOLEAN
  BY DEF RootOwnerInit, Cyclic
<1>8. RestInv
  <2>1. cancelled = FALSE /\ changes = 0
    BY DEF RootOwnerInit
  <2>2. 0 \in 0..MaxChanges
    BY RootOwnerAssumption
  <2> QED
    BY <1>7, <2>1, <2>2 DEF RestInv
<1> QED
  BY <1>5, <1>6, <1>8 DEF WalkInv

-----------------------------------------------------------------------------
LEMMA EndOfReferencesStep ==
    ASSUME WalkInv, EndOfReferences
    PROVE  StackInv'
<1>1. StackInv /\ Walking
  BY DEF WalkInv, EndOfReferences
<1>2. Here \in Calls
  BY <1>1, HereTyped
<1> DEFINE ref == IF Here.found = None THEN Here.via ELSE Here.found
<1>3. ref \in Objects
  BY <1>2 DEF Calls, Objects
<1>4. Returns(ref)
  BY DEF EndOfReferences
<1> HIDE DEF ref
<1> QED
  BY <1>1, <1>3, <1>4, ReturnsStep

LEMMA MeetsCustomStep ==
    ASSUME WalkInv, MeetsCustom
    PROVE  StackInv'
<1>1. StackInv /\ Walking /\ Returns(Head(Here.left))
  BY DEF WalkInv, MeetsCustom
<1>2. Head(Here.left) \in Objects
  BY DEF MeetsCustom, Objects
<1> QED
  BY <1>1, <1>2, ReturnsStep

LEMMA FollowsStep ==
    ASSUME WalkInv, Follows
    PROVE  StackInv'
<1>1. StackInv /\ Walking /\ RefsInv
  BY DEF WalkInv, Follows
<1> DEFINE owner == Head(Here.left)
           n == Len(calls)
           rest == [calls EXCEPT ![n].left = Tail(@)]
<1>2. owner \in Known /\ refs[owner] # None /\ Here.left # <<>>
  BY DEF Follows
<1>3. Call(owner, refs) \in Calls
  BY <1>1, <1>2, CallTyped
<1>4. calls[n] \in Calls /\ Here = calls[n] /\ n \in Nat \ {0}
  BY <1>1, HereTyped
<1>5. [calls[n] EXCEPT !.left = Tail(@)] \in Calls
  <2>1. calls[n].left \in Seq(Owners) /\ calls[n].left # <<>>
    BY <1>2, <1>4 DEF Calls
  <2>2. Tail(calls[n].left) \in Seq(Owners)
    BY <2>1
  <2> QED
    BY <1>4, <2>2 DEF Calls
<1>6. calls' = Append(rest, Call(owner, refs)) /\ answer' = answer
  BY DEF Follows
<1>7. rest \in Seq(Calls)
  <2> HIDE DEF Calls
  <2> QED
    BY <1>1, <1>4, <1>5 DEF StackInv
<1> HIDE DEF rest, owner
<1>8. calls' \in Seq(Calls) /\ calls' # <<>>
  BY <1>3, <1>6, <1>7
<1>9. answer = None
  BY <1>1 DEF StackInv, Walking
<1> QED
  BY <1>6, <1>8, <1>9 DEF StackInv

LEMMA GetFailsStep ==
    ASSUME WalkInv, GetFails
    PROVE  StackInv'
<1>1. answer' = Failed /\ calls' = <<>>
  BY DEF GetFails
<1>2. Failed # None
  BY RootOwnerAssumption
<1>3. <<>> \in Seq(Calls)
  OBVIOUS
<1> QED
  BY <1>1, <1>2, <1>3 DEF StackInv

LEMMA OwnerChangesStep ==
    ASSUME WalkInv, NEW o \in Known, OwnerChanges(o)
    PROVE  WalkInv'
<1>1. PICK list \in Lists(o) \cup {None} : refs' = [refs EXCEPT ![o] = list]
  BY DEF OwnerChanges
<1>2. /\ refs \in [Known \cup {Pod} -> Seq(Owners) \cup {None}]
      /\ \A q \in Known \cup {Pod} : refs[q] \in Lists(q) \cup {None}
      /\ refs[Pod] # None
  BY DEF WalkInv, RefsInv
<1>3. list \in Seq(Owners) \cup {None}
  BY ListsOfOwners
<1>4. o # Pod
  BY RootOwnerAssumption
<1>5. RefsInv'
  <2> HIDE DEF Lists
  <2>1. refs' \in [Known \cup {Pod} -> Seq(Owners) \cup {None}]
    BY <1>1, <1>2, <1>3
  <2>2. \A q \in Known \cup {Pod} : refs'[q] \in Lists(q) \cup {None}
    BY <1>1, <1>2
  <2>3. refs'[Pod] # None
    BY <1>1, <1>2, <1>4
  <2> QED
    BY <2>1, <2>2, <2>3 DEF RefsInv
<1>6. StackInv'
  BY DEF WalkInv, OwnerChanges, StackInv
<1>7. cyclic' \in BOOLEAN
  BY DEF OwnerChanges
<1>8. changes' \in 0..MaxChanges /\ cancelled' \in BOOLEAN
  BY RootOwnerAssumption DEF OwnerChanges, WalkInv, RestInv
<1> QED
  BY <1>5, <1>6, <1>7, <1>8 DEF WalkInv, RestInv

LEMMA WalkKept == WalkInv /\ [RootOwnerNext]_rootVars => WalkInv'
<1> SUFFICES ASSUME WalkInv, [RootOwnerNext]_rootVars PROVE WalkInv'
  OBVIOUS
<1>1. CASE WalkStep
  <2>1. RefsInv'
    BY <1>1 DEF WalkInv, RefsInv, WalkStep, EndOfReferences, MeetsCustom, Follows, GetFails
  <2>2. RestInv'
    BY <1>1 DEF WalkInv, RestInv, WalkStep, EndOfReferences, MeetsCustom, Follows, GetFails
  <2>3. StackInv'
    BY <1>1, EndOfReferencesStep, MeetsCustomStep, FollowsStep, GetFailsStep DEF WalkStep
  <2> QED
    BY <2>1, <2>2, <2>3 DEF WalkInv
<1>2. CASE Cancelled
  BY <1>2 DEF WalkInv, RefsInv, StackInv, RestInv, Cancelled
<1>3. ASSUME NEW o \in Known, OwnerChanges(o) PROVE WalkInv'
  BY <1>3, OwnerChangesStep
<1>4. CASE UNCHANGED rootVars
  BY <1>4 DEF WalkInv, RefsInv, StackInv, RestInv, rootVars
<1> QED
  BY <1>1, <1>2, <1>3, <1>4 DEF RootOwnerNext

(***************************************************************************)
(* For any owners, bounds and changes rootOwner answers with an owner or   *)
(* the pod, or fails, exactly when its outermost call returns: the caller  *)
(* never has a nil reference to look into (mutator.go:322,                 *)
(* validator.go:142).                                                      *)
(***************************************************************************)
THEOREM RootOwnerTypeCorrect == RootOwnerSpec => []RootOwnerTypeOK
<1>1. WalkInv => RootOwnerTypeOK
  <2> SUFFICES ASSUME WalkInv PROVE RootOwnerTypeOK
    OBVIOUS
  <2>1. \A i \in DOMAIN calls : /\ calls[i].via \in Known \cup {Pod}
                               /\ calls[i].found \in Objects \cup {None}
    <3>1. \A i \in DOMAIN calls : calls[i] \in Calls
      <4> HIDE DEF Calls
      <4> QED
        BY DEF WalkInv, StackInv
    <3> QED
      BY <3>1 DEF Calls
  <2> QED
    BY <2>1 DEF WalkInv, RefsInv, StackInv, RestInv, RootOwnerTypeOK
<1> QED
  BY <1>1, WalkInit, WalkKept, PTL DEF RootOwnerSpec

-----------------------------------------------------------------------------
(***************************************************************************)
(* What a return and a recursive call do to the stack.                     *)
(***************************************************************************)
LEMMA CallsTyped ==
    ASSUME StackInv, NEW k \in 1..Len(calls)
    PROVE  /\ calls[k] \in Calls
           /\ calls[k].left \in Seq(Owners)
           /\ calls[k].via \in Known \cup {Pod}
           /\ calls[k].found \in Objects \cup {None}
<1>1. calls[k] \in Calls
  <2> HIDE DEF Calls
  <2> QED
    BY DEF StackInv
<1> QED
  BY <1>1 DEF Calls

LEMMA ReturnsPops ==
    ASSUME StackInv, Walking, NEW ref, Returns(ref)
    PROVE  /\ Len(calls') = Len(calls) - 1
           /\ Len(calls) = 1 => answer' = ref
           /\ Len(calls) # 1 => answer' = answer
           /\ \A k \in 1..Len(calls) - 1 :
                 /\ calls'[k].left = calls[k].left
                 /\ calls'[k].via = calls[k].via
                 /\ calls'[k].found = IF k = Len(calls) - 1 THEN ref ELSE calls[k].found
<1>1. Len(calls) \in Nat \ {0} /\ calls \in Seq(Calls)
  BY HereTyped DEF StackInv
<1>2. CASE Len(calls) = 1
  BY <1>2 DEF Returns
<1>3. CASE Len(calls) # 1
  <2> DEFINE n == Len(calls) - 1
  <2>0. Len(calls) \in Nat \ {0}
    BY <1>1
  <2>1. n \in Nat \ {0} /\ Len(calls) > 1
    BY <1>3, <2>0
  <2>2. /\ Front(calls) \in Seq(Calls) /\ Len(Front(calls)) = n
        /\ \A k \in 1..n : Front(calls)[k] = calls[k]
    <3> HIDE DEF Calls
    <3>1. \A k \in 1..n : Front(calls)[k] = calls[k]
      BY <1>1, <2>1 DEF Front
    <3> QED
      BY <1>1, <2>1, <3>1, FrontTyped
  <2>3. answer' = answer /\ calls' = [Front(calls) EXCEPT ![n].found = ref]
    BY <1>3 DEF Returns
  <2>4. Len(calls') = n
    BY <2>1, <2>2, <2>3
  <2>5. ASSUME NEW k \in 1..n
        PROVE  /\ calls'[k].left = calls[k].left
               /\ calls'[k].via = calls[k].via
               /\ calls'[k].found = IF k = n THEN ref ELSE calls[k].found
    <3>1. calls[k] \in Calls
      <4> HIDE DEF Calls
      <4> QED
        BY <1>1, <2>1
    <3>2. calls'[k] = IF k = n THEN [calls[k] EXCEPT !.found = ref] ELSE calls[k]
      <4> HIDE DEF Calls
      <4> QED
        BY <2>1, <2>2, <2>3
    <3> QED
      BY <3>1, <3>2 DEF Calls
  <2> QED
    BY <1>3, <2>3, <2>4, <2>5
<1> QED
  BY <1>2, <1>3

LEMMA PushedSeq ==
    ASSUME NEW S, NEW s \in Seq(S), Len(s) # 0, NEW e \in S, NEW d \in S
    PROVE  LET t == Append([s EXCEPT ![Len(s)] = e], d)
           IN  /\ Len(t) = Len(s) + 1
               /\ t[Len(s) + 1] = d
               /\ \A k \in 1..Len(s) : t[k] = IF k = Len(s) THEN e ELSE s[k]
OBVIOUS

LEMMA FollowsPushes ==
    ASSUME RefsInv, StackInv, Follows
    PROVE  LET n == Len(calls)
               owner == Head(calls[n].left)
           IN  /\ n \in Nat \ {0}
               /\ calls[n].left # <<>>
               /\ owner \in Known /\ refs[owner] # None
               /\ Len(calls') = n + 1
               /\ calls'[n + 1] = Call(owner, refs)
               /\ \A k \in 1..n : /\ calls'[k].left = IF k = n THEN Tail(calls[k].left) ELSE calls[k].left
                                  /\ calls'[k].via = calls[k].via
                                  /\ calls'[k].found = calls[k].found
<1> DEFINE n == Len(calls)
           owner == Head(calls[n].left)
           rest == [calls EXCEPT ![n].left = Tail(@)]
<1>1. n \in Nat \ {0} /\ Here = calls[n] /\ calls \in Seq(Calls)
  BY HereTyped DEF StackInv, Follows
<1>2. calls[n].left # <<>> /\ owner \in Known /\ refs[owner] # None
  BY <1>1 DEF Follows
<1>3. calls' = Append(rest, Call(owner, refs))
  BY <1>1 DEF Follows
<1>4. calls[n] \in Calls
  BY <1>1, CallsTyped
<1>5. [calls[n] EXCEPT !.left = Tail(@)] \in Calls
  <2>1. Tail(calls[n].left) \in Seq(Owners)
    BY <1>2, <1>4 DEF Calls
  <2> QED
    BY <1>4, <2>1 DEF Calls
<1>6. Call(owner, refs) \in Calls
  BY <1>2, CallTyped
<1>7. /\ Len(calls') = n + 1
      /\ calls'[n + 1] = Call(owner, refs)
      /\ \A k \in 1..n : calls'[k] = IF k = n THEN [calls[n] EXCEPT !.left = Tail(@)] ELSE calls[k]
  <2> HIDE DEF Calls, owner
  <2> QED
    BY <1>1, <1>3, <1>5, <1>6, PushedSeq
<1>8. ASSUME NEW k \in 1..n
      PROVE  /\ calls'[k].left = IF k = n THEN Tail(calls[k].left) ELSE calls[k].left
             /\ calls'[k].via = calls[k].via
             /\ calls'[k].found = calls[k].found
  <2>1. calls[k] \in Calls
    BY CallsTyped
  <2> QED
    BY <1>7, <2>1 DEF Calls
<1> QED
  BY <1>1, <1>2, <1>7, <1>8

-----------------------------------------------------------------------------
(***************************************************************************)
(* Every call was led to by an owner reference that the owner before it    *)
(* has, or had before the one change of the walk.  If there are more calls *)
(* than owners, some owner is called on twice, and what is called on in    *)
(* between is a cycle: among the owners as they were or as they are.       *)
(***************************************************************************)
OwnerSets == [Known \cup {Pod} -> Seq(Owners) \cup {None}]
Above(g, o) == IF g[o] = None THEN {} ELSE ToSet(g[o])

PathIn(old) ==
    \A k \in 1..Len(calls) :
        /\ ToSet(calls[k].left) \subseteq Above(old, calls[k].via) \cup Above(refs, calls[k].via)
        /\ k # 1 => /\ calls[k].via \in Known
                    /\ calls[k].via \in Above(old, calls[k - 1].via) \cup Above(refs, calls[k - 1].via)

OneChange(old, x) ==
    /\ changes = 0 => old = refs
    /\ \A o \in (Known \cup {Pod}) \ {x} : old[o] = refs[o]
    /\ ~cyclic => ~Cyclic(old) /\ ~Cyclic(refs)

PathInv == changes <= 1 => \E old \in OwnerSets, x \in Known \cup {Pod} : OneChange(old, x) /\ PathIn(old)

LEMMA CyclicIf ==
    ASSUME NEW g, NEW S, S \subseteq Known, S # {}, \A o \in S : Above(g, o) \cap S # {}
    PROVE  Cyclic(g)
  BY DEF Cyclic, Above

LEMMA DeepCycles ==
    ASSUME StackInv, NEW old, NEW x \in Known \cup {Pod}, PathIn(old),
           \A o \in (Known \cup {Pod}) \ {x} : old[o] = refs[o],
           Len(calls) > Cardinality(Known) + 1
    PROVE  Cyclic(old) \/ Cyclic(refs)
<1> DEFINE n == Len(calls)
           via(k) == calls[k].via
           f == [k \in 2..n |-> via(k)]
<1>1. n \in Nat /\ Cardinality(Known) \in Nat /\ IsFiniteSet(Known)
  BY RootOwnerAssumption, FS_CardinalityType DEF StackInv
<1>2. IsFiniteSet(2..n) /\ Cardinality(Known) < Cardinality(2..n)
  <2>1. n > 1
    BY <1>1
  <2>2. Cardinality(2..n) = n - 2 + 1 /\ IsFiniteSet(2..n)
    BY <1>1, <2>1, FS_Interval
  <2> QED
    BY <1>1, <2>2
<1>3. f \in [2..n -> Known]
  BY <1>1 DEF PathIn
<1>4. \E a, b \in 2..n : a # b /\ f[a] = f[b]
  <2> HIDE DEF f, n
  <2> QED
    BY <1>1, <1>2, <1>3, FS_PigeonHole
<1>5. PICK i \in 2..n, j \in 2..n : i < j /\ via(i) = via(j)
  <2>1. PICK a \in 2..n, b \in 2..n : a # b /\ via(a) = via(b)
    BY <1>4
  <2>2. a < b \/ b < a
    BY <1>1, <2>1
  <2> QED
    BY <2>1, <2>2
<1> DEFINE S == {via(k) : k \in i..(j - 1)}
<1>6. S \subseteq Known /\ S # {}
  <2>1. \A k \in i..(j - 1) : via(k) \in Known
    BY <1>1, <1>5 DEF PathIn
  <2>2. i \in i..(j - 1)
    BY <1>1, <1>5
  <2> QED
    BY <2>1, <2>2
<1>7. \A o \in S : (Above(old, o) \cup Above(refs, o)) \cap S # {}
  <2> SUFFICES ASSUME NEW k \in i..(j - 1)
               PROVE  (Above(old, via(k)) \cup Above(refs, via(k))) \cap S # {}
    OBVIOUS
  <2>1. k + 1 \in 1..n /\ k + 1 # 1 /\ (k + 1) - 1 = k
    BY <1>1, <1>5
  <2>2. via(k + 1) \in Above(old, via(k)) \cup Above(refs, via(k))
    BY <2>1 DEF PathIn
  <2>3. via(k + 1) \in S
    <3>1. CASE k + 1 = j
      <4>1. i \in i..(j - 1)
        BY <1>1, <1>5
      <4> QED
        BY <3>1, <4>1, <1>5
    <3>2. CASE k + 1 # j
      <4>1. k + 1 \in i..(j - 1)
        BY <3>2, <1>1, <1>5
      <4> QED
        BY <4>1
    <3> QED
      BY <3>1, <3>2
  <2> QED
    BY <2>2, <2>3
<1> HIDE DEF S
<1>8. \A o \in S \ {x} : Above(old, o) = Above(refs, o)
  BY <1>6 DEF Above
<1>9. CASE x \in S /\ Above(old, x) \cap S # {}
  <2>1. \A o \in S : Above(old, o) \cap S # {}
    BY <1>7, <1>8, <1>9
  <2> QED
    BY <1>6, <2>1, CyclicIf
<1>10. CASE ~(x \in S /\ Above(old, x) \cap S # {})
  <2>1. \A o \in S : Above(refs, o) \cap S # {}
    BY <1>7, <1>8, <1>10
  <2> QED
    BY <1>6, <2>1, CyclicIf
<1> QED
  BY <1>9, <1>10

LEMMA PathInit == RootOwnerInit => PathInv
<1> SUFFICES ASSUME RootOwnerInit PROVE PathInv
  OBVIOUS
<1>1. RefsInv /\ StackInv
  BY WalkInit DEF WalkInv
<1>2. refs \in OwnerSets
  BY <1>1 DEF RefsInv, OwnerSets
<1>3. OneChange(refs, Pod)
  BY DEF RootOwnerInit, OneChange
<1>4. PathIn(refs)
  <2>1. Len(calls) = 1 /\ calls[1] = Call(Pod, refs)
    BY DEF RootOwnerInit
  <2>2. calls[1].left = refs[Pod] /\ calls[1].via = Pod
    BY <2>1 DEF Call
  <2>3. ToSet(calls[1].left) = Above(refs, Pod)
    BY <1>1, <2>2 DEF Above, RefsInv
  <2> QED
    BY <2>1, <2>2, <2>3 DEF PathIn
<1> QED
  BY <1>2, <1>3, <1>4 DEF PathInv

LEMMA ToSetTail ==
    ASSUME NEW S, NEW s \in Seq(S), s # <<>>
    PROVE  ToSet(Tail(s)) \subseteq ToSet(s) /\ Head(s) \in ToSet(s)
<1>1. \A i \in 1..Len(Tail(s)) : Tail(s)[i] = s[i + 1] /\ i + 1 \in 1..Len(s)
  OBVIOUS
<1>2. DOMAIN Tail(s) = 1..Len(Tail(s)) /\ DOMAIN s = 1..Len(s)
  OBVIOUS
<1> QED
  BY <1>1, <1>2 DEF ToSet

LEMMA PathFollows ==
    ASSUME WalkInv, Follows, NEW old \in OwnerSets, PathIn(old)
    PROVE  PathIn(old)'
<1> DEFINE n == Len(calls)
           owner == Head(calls[n].left)
<1>1. RefsInv /\ StackInv
  BY DEF WalkInv
<1>2. /\ n \in Nat \ {0}
      /\ calls[n].left # <<>>
      /\ owner \in Known /\ refs[owner] # None
      /\ Len(calls') = n + 1
      /\ calls'[n + 1] = Call(owner, refs)
      /\ \A k \in 1..n : /\ calls'[k].left = IF k = n THEN Tail(calls[k].left) ELSE calls[k].left
                         /\ calls'[k].via = calls[k].via
  BY <1>1, FollowsPushes
<1>3. refs' = refs
  BY DEF Follows
<1>4. ToSet(Tail(calls[n].left)) \subseteq ToSet(calls[n].left) /\ owner \in ToSet(calls[n].left)
  BY <1>1, <1>2, CallsTyped, ToSetTail
<1>5. /\ calls'[n + 1].left = refs[owner] /\ calls'[n + 1].via = owner
  BY <1>2 DEF Call
<1>6. ToSet(calls'[n + 1].left) = Above(refs, owner)
  BY <1>2, <1>5 DEF Above
<1> HIDE DEF owner
<1> SUFFICES ASSUME NEW k \in 1..(n + 1)
             PROVE  /\ ToSet(calls'[k].left) \subseteq Above(old, calls'[k].via) \cup Above(refs, calls'[k].via)
                    /\ k # 1 => /\ calls'[k].via \in Known
                                /\ calls'[k].via \in Above(old, calls'[k - 1].via) \cup Above(refs, calls'[k - 1].via)
  BY <1>2, <1>3 DEF PathIn, Above
<1>7. CASE k = n + 1
  <2>1. n \in 1..n /\ k - 1 = n /\ calls'[n].via = calls[n].via
    BY <1>2, <1>7
  <2>2. owner \in Above(old, calls[n].via) \cup Above(refs, calls[n].via)
    BY <1>4, <2>1 DEF PathIn
  <2> QED
    BY <1>2, <1>5, <1>6, <1>7, <2>1, <2>2
<1>8. CASE k # n + 1
  <2>1. k \in 1..n
    BY <1>2, <1>8
  <2>2. k # 1 => k - 1 \in 1..n
    BY <2>1, <1>2
  <2>3. /\ calls'[k].via = calls[k].via
        /\ k # 1 => calls'[k - 1].via = calls[k - 1].via
        /\ ToSet(calls'[k].left) \subseteq ToSet(calls[k].left)
    BY <1>2, <1>4, <2>1, <2>2
  <2> QED
    BY <2>1, <2>2, <2>3 DEF PathIn
<1> QED
  BY <1>7, <1>8

LEMMA PathReturns ==
    ASSUME StackInv, Walking, NEW ref, Returns(ref), refs' = refs, NEW old, PathIn(old)
    PROVE  PathIn(old)'
<1> DEFINE n == Len(calls)
<1>1. /\ n \in Nat \ {0} /\ Len(calls') = n - 1
      /\ \A k \in 1..n - 1 : calls'[k].left = calls[k].left /\ calls'[k].via = calls[k].via
  BY HereTyped, ReturnsPops
<1> SUFFICES ASSUME NEW k \in 1..(n - 1)
             PROVE  /\ ToSet(calls'[k].left) \subseteq Above(old, calls'[k].via) \cup Above(refs, calls'[k].via)
                    /\ k # 1 => /\ calls'[k].via \in Known
                                /\ calls'[k].via \in Above(old, calls'[k - 1].via) \cup Above(refs, calls'[k - 1].via)
  BY <1>1 DEF PathIn, Above
<1>2. k \in 1..n /\ (k # 1 => k - 1 \in 1..n - 1)
  BY <1>1
<1> QED
  BY <1>1, <1>2 DEF PathIn

\* the first change: what was is kept as old, and the changed owner is x
LEMMA PathChanges ==
    ASSUME WalkInv, PathInv, NEW x \in Known, OwnerChanges(x)
    PROVE  PathInv'
<1>1. SUFFICES ASSUME changes' <= 1 PROVE PathInv'
  BY DEF PathInv
<1>2. changes = 0 /\ changes' = 1
  BY <1>1 DEF OwnerChanges, WalkInv, RestInv
<1>3. PICK old \in OwnerSets, y \in Known \cup {Pod} : OneChange(old, y) /\ PathIn(old)
  BY <1>2 DEF PathInv
<1>4. old = refs /\ PathIn(refs) /\ (~cyclic => ~Cyclic(refs))
  BY <1>2, <1>3 DEF OneChange
<1>5. PICK list \in Lists(x) \cup {None} : refs' = [refs EXCEPT ![x] = list]
  BY DEF OwnerChanges
<1>6. \A o \in (Known \cup {Pod}) \ {x} : refs[o] = refs'[o]
  BY <1>5 DEF WalkInv, RefsInv
<1>7. ~cyclic' => ~Cyclic(refs) /\ ~Cyclic(refs')
  BY <1>4 DEF OwnerChanges
<1>8. calls' = calls
  BY DEF OwnerChanges
<1>9. \E o \in OwnerSets : o = refs
  BY DEF WalkInv, RefsInv, OwnerSets
<1>10. PICK was \in OwnerSets : was = refs
  BY <1>9
<1>11. OneChange(was, x)'
  BY <1>2, <1>6, <1>7, <1>10 DEF OneChange
<1>12. PathIn(was)'
  BY <1>4, <1>8, <1>10 DEF PathIn
<1> QED
  BY <1>11, <1>12 DEF PathInv

LEMMA PathKept == WalkInv /\ PathInv /\ [RootOwnerNext]_rootVars => PathInv'
<1> SUFFICES ASSUME WalkInv, PathInv, [RootOwnerNext]_rootVars PROVE PathInv'
  OBVIOUS
<1>1. ASSUME UNCHANGED <<refs, changes, cyclic>>,
             \A old \in OwnerSets : PathIn(old) => PathIn(old)'
      PROVE  PathInv'
  BY <1>1 DEF PathInv, OneChange
<1>2. CASE EndOfReferences
  <2>1. StackInv /\ Walking /\ UNCHANGED <<refs, changes, cyclic>>
    BY <1>2 DEF EndOfReferences, WalkInv
  <2>2. Returns(IF Here.found = None THEN Here.via ELSE Here.found)
    BY <1>2 DEF EndOfReferences
  <2> QED
    BY <1>1, <2>1, <2>2, PathReturns
<1>3. CASE MeetsCustom
  <2>1. StackInv /\ Walking /\ UNCHANGED <<refs, changes, cyclic>> /\ Returns(Head(Here.left))
    BY <1>3 DEF MeetsCustom, WalkInv
  <2> QED
    BY <1>1, <2>1, PathReturns
<1>4. CASE Follows
  <2>1. UNCHANGED <<refs, changes, cyclic>>
    BY <1>4 DEF Follows
  <2> QED
    BY <1>1, <1>4, <2>1, PathFollows
<1>5. CASE GetFails
  <2>1. UNCHANGED <<refs, changes, cyclic>> /\ calls' = <<>>
    BY <1>5 DEF GetFails
  <2>2. \A old \in OwnerSets : PathIn(old)'
    BY <2>1 DEF PathIn
  <2> QED
    BY <1>1, <2>1, <2>2
<1>6. CASE Cancelled
  <2>1. UNCHANGED <<refs, changes, cyclic, calls>>
    BY <1>6 DEF Cancelled
  <2> QED
    BY <1>1, <2>1 DEF PathIn
<1>7. ASSUME NEW o \in Known, OwnerChanges(o) PROVE PathInv'
  BY <1>7, PathChanges
<1>8. CASE UNCHANGED rootVars
  <2>1. UNCHANGED <<refs, changes, cyclic, calls>>
    BY <1>8 DEF rootVars
  <2> QED
    BY <1>1, <2>1 DEF PathIn
<1> QED
  BY <1>2, <1>3, <1>4, <1>5, <1>6, <1>7, <1>8 DEF RootOwnerNext, WalkStep

(***************************************************************************)
(* For any owners, rootOwner is never deeper in its recursion              *)
(* (utils.go:206) than there are owners, unless owners own each other or   *)
(* more than one of them changes under it.                                 *)
(***************************************************************************)
THEOREM DeepOnlyInCyclesEver == RootOwnerSpec => []DeepOnlyInCycles
<1>1. WalkInv /\ PathInv => DeepOnlyInCycles
  <2> SUFFICES ASSUME WalkInv, PathInv, Len(calls) > Cardinality(Known) + 1, ~cyclic, changes <= 1
               PROVE  FALSE
    BY DEF DeepOnlyInCycles, WalkInv, RestInv
  <2>1. PICK old \in OwnerSets, x \in Known \cup {Pod} : OneChange(old, x) /\ PathIn(old)
    BY DEF PathInv
  <2>2. StackInv
    BY DEF WalkInv
  <2>3. /\ ~Cyclic(old) /\ ~Cyclic(refs)
        /\ \A o \in (Known \cup {Pod}) \ {x} : old[o] = refs[o]
    BY <2>1 DEF OneChange
  <2> QED
    BY <2>1, <2>2, <2>3, DeepCycles
<1> QED
  BY <1>1, WalkInit, WalkKept, PathInit, PathKept, PTL DEF RootOwnerSpec
=============================================================================
