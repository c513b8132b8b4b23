------------------------- MODULE DeleteSlotsProofs -------------------------
(***************************************************************************)
(* What the loop of GetMaxReplicaCountAndDeleteSlots returns, proved for   *)
(* every number of replicas and every finite set of delete slots, and what *)
(* that means for a user who scales with the helpers.                      *)
(***************************************************************************)
EXTENDS ScaleByOrdinal, FiniteSetTheorems, WellFoundedInduction, TLAPS

\* A subset of the annotation's slots is finite and has a size.
LEMMA SlotsFinite ==
  ASSUME NEW D \in SUBSET Slots
  PROVE  IsFiniteSet(D) /\ Cardinality(D) \in Nat
BY LoopAssumption, FS_Subset, FS_CardinalityType

\* The ordinals below n fall into those in K and the rest.
LEMMA IntervalSplit ==
  ASSUME NEW n \in Nat, NEW K \in SUBSET (0 .. n - 1)
  PROVE  /\ IsFiniteSet((0 .. n - 1) \ K)
         /\ Cardinality((0 .. n - 1) \ K) = n - Cardinality(K)
<1> DEFINE I == 0 .. n - 1
<1>1. IsFiniteSet(I) /\ Cardinality(I) = n
  BY FS_Interval
<1>2. I \cap K = K
  OBVIOUS
<1> HIDE DEF I
<1>3. /\ IsFiniteSet(I \ K)
      /\ Cardinality(I \ K) = Cardinality(I) - Cardinality(I \cap K)
  BY <1>1, FS_Difference
<1>4. /\ IsFiniteSet(I \ K)
      /\ Cardinality(I \ K) = n - Cardinality(K)
  BY <1>1, <1>2, <1>3
<1> QED
  BY <1>4 DEF I

-----------------------------------------------------------------------------
(* The fold. What a recursive function over the subsets of D computes is   *)
(* shown with a least counterexample: of any family of subsets of a finite *)
(* set, one contains no other.                                             *)

MinimalIn(S, F) == S \in F /\ \A T \in F : T \subseteq S => T = S

\* A family of subsets of a finite set has a minimal member.
LEMMA MinimalSubset ==
  ASSUME NEW D, IsFiniteSet(D), NEW F, F \subseteq SUBSET D, F # {}
  PROVE  \E S : MinimalIn(S, F)
<1>1. IsWellFoundedOn(StrictSubsetOrdering(D), SUBSET D)
  BY FS_StrictSubsetOrderingWellFounded, FS_FiniteSubsetsOfFinite
<1>2. PICK S \in F : \A T \in F : ~ (<<T, S>> \in StrictSubsetOrdering(D))
  BY <1>1, WFMin
<1>3. \A T \in F : T \subseteq S => T = S
  <2> SUFFICES ASSUME NEW T \in F, T \subseteq S, T # S PROVE FALSE
    OBVIOUS
  <2>1. <<T, S>> \in StrictSubsetOrdering(D)
    BY DEF StrictSubsetOrdering
  <2> QED
    BY <1>2, <2>1
<1> QED
  BY <1>3 DEF MinimalIn

\* A finite set of integers has a greatest element.
LEMMA MaxExists ==
  ASSUME NEW D \in SUBSET Int, IsFiniteSet(D), D # {}
  PROVE  Max(D) \in D /\ \A d \in D : d <= Max(D)
<1> DEFINE F == {S \in SUBSET D : S # {} /\ ~ \E m \in S : \A s \in S : m >= s}
<1>1. F = {}
  <2> SUFFICES ASSUME F # {} PROVE FALSE
    OBVIOUS
  <2>1. PICK S \in F : \A T \in F : T \subseteq S => T = S
    <3>1. F \subseteq SUBSET D
      OBVIOUS
    <3> HIDE DEF F
    <3>2. PICK S : MinimalIn(S, F)
      BY <3>1, MinimalSubset
    <3> QED
      BY <3>2 DEF MinimalIn
  <2>2. PICK x \in S : x \in Int
    BY <2>1
  <2>3. S \ {x} \notin F
    BY <2>1, <2>2
  <2>4. CASE S = {x}
    BY <2>1, <2>2, <2>4
  <2>5. CASE S # {x}
    <3>1. PICK m \in S \ {x} : \A s \in S \ {x} : m >= s
      BY <2>1, <2>2, <2>3, <2>5
    <3>2. CASE m >= x
      BY <2>1, <2>2, <3>1, <3>2
    <3>3. CASE ~ (m >= x)
      <4>1. m \in Int /\ S \subseteq Int
        BY <2>1, <3>1
      <4>2. \A s \in S : x >= s
        BY <2>2, <3>1, <3>3, <4>1
      <4> QED
        BY <2>1, <2>2, <4>2
    <3> QED
      BY <3>2, <3>3
  <2> QED
    BY <2>4, <2>5
<1>2. \E m \in D : \A d \in D : m >= d
  BY <1>1
<1>3. Max(D) \in D /\ \A d \in D : Max(D) >= d
  BY <1>2 DEF Max
<1> QED
  BY <1>3

\* One round of the fold, from what the rounds before it left.
Round(f, r, D, S) ==
  IF S = {} THEN [replicaCount |-> r, deleteSlots |-> D]
  ELSE VisitSlot(f[S \ {Max(S)}], Max(S))

\* The recursive function of the fold exists: it visits the slots in ascending
\* order, one round per slot.
LEMMA FoldUnfolds ==
  ASSUME NEW r, NEW D \in SUBSET Int, IsFiniteSet(D)
  PROVE  \E f : /\ \A S \in SUBSET D : f[S] = Round(f, r, D, S)
               /\ GetMaxReplicaCountAndDeleteSlots(r, D) = f[D]
<1> DEFINE Good(U) == \E h : \A S \in SUBSET U : h[S] = Round(h, r, D, S)
           F == {U \in SUBSET D : ~ Good(U)}
<1>1. Good(D)
  <2> SUFFICES ASSUME F # {} PROVE FALSE
    OBVIOUS
  <2>1. PICK U \in F : \A T \in F : T \subseteq U => T = U
    <3>1. F \subseteq SUBSET D
      OBVIOUS
    <3> HIDE DEF F
    <3>2. PICK U : MinimalIn(U, F)
      BY <3>1, MinimalSubset
    <3> QED
      BY <3>2 DEF MinimalIn
  <2>2. CASE U = {}
    <3> DEFINE h == [S \in SUBSET D |-> [replicaCount |-> r, deleteSlots |-> D]]
    <3>1. \A S \in SUBSET U : h[S] = Round(h, r, D, S)
      BY <2>2 DEF Round
    <3> QED
      BY <2>1, <3>1
  <2>3. CASE U # {}
    <3>0. U \in SUBSET Int /\ U \in SUBSET D
      BY <2>1
    <3>1. \A S \in SUBSET U : S # {} => Max(S) \in S /\ \A s \in S : s <= Max(S)
      BY <3>0, MaxExists, FS_Subset
    <3>2. U \ {Max(U)} \notin F
      BY <2>1, <2>3, <3>1
    <3>3. PICK g : \A S \in SUBSET (U \ {Max(U)}) : g[S] = Round(g, r, D, S)
      BY <3>0, <3>2
    <3> DEFINE h == [S \in SUBSET D |-> Round(g, r, D, S)]
    <3>4. \A S \in SUBSET (U \ {Max(U)}) : h[S] = g[S]
      BY <3>0, <3>3
    <3>5. ASSUME NEW S \in SUBSET U, S # {}
          PROVE  S \ {Max(S)} \subseteq U \ {Max(U)}
      <4>1. Max(S) \in S /\ Max(U) \in U /\ \A u \in U : u <= Max(U)
        BY <2>3, <3>1, <3>5
      <4>2. Max(U) \in S => Max(S) = Max(U)
        <5>1. Max(U) \in S => Max(U) <= Max(S)
          BY <3>1, <3>5
        <5>2. Max(S) \in Int /\ Max(U) \in Int /\ Max(S) <= Max(U)
          BY <3>0, <4>1
        <5> QED
          BY <5>1, <5>2
      <4> QED
        BY <4>2
    <3>6. \A S \in SUBSET U : h[S] = Round(h, r, D, S)
      <4> SUFFICES ASSUME NEW S \in SUBSET U PROVE h[S] = Round(h, r, D, S)
        OBVIOUS
      <4>1. h[S] = Round(g, r, D, S)
        BY <3>0
      <4> HIDE DEF h
      <4>2. S # {} => g[S \ {Max(S)}] = h[S \ {Max(S)}]
        BY <3>4, <3>5
      <4> QED
        BY <4>1, <4>2 DEF Round
    <3> QED
      BY <2>1, <3>6
  <2> QED
    BY <2>2, <2>3
<1>2. PICK h : \A S \in SUBSET D : h[S] = Round(h, r, D, S)
  BY <1>1
<1> DEFINE Body(f) == [S \in SUBSET D |->
                         IF S = {} THEN [replicaCount |-> r, deleteSlots |-> D]
                         ELSE VisitSlot(f[S \ {Max(S)}], Max(S))]
           it == CHOOSE f : f = Body(f)
<1>3. GetMaxReplicaCountAndDeleteSlots(r, D) = it[D]
  BY DEF GetMaxReplicaCountAndDeleteSlots, MapThenFoldSet
<1>4. \E f : f = Body(f)
  <2> DEFINE k == [S \in SUBSET D |-> h[S]]
  <2>1. \A S \in SUBSET D : k[S] = Round(k, r, D, S)
    <3> SUFFICES ASSUME NEW S \in SUBSET D PROVE k[S] = Round(k, r, D, S)
      OBVIOUS
    <3>1. k[S] = Round(h, r, D, S)
      BY <1>2
    <3>2. S \ {Max(S)} \in SUBSET D
      OBVIOUS
    <3>3. k[S \ {Max(S)}] = h[S \ {Max(S)}]
      BY <3>2
    <3> HIDE DEF k
    <3> QED
      BY <3>1, <3>3 DEF Round
  <2>2. k = [S \in SUBSET D |-> k[S]]
    OBVIOUS
  <2> HIDE DEF k
  <2>3. k = Body(k)
    BY <2>1, <2>2 DEF Round
  <2> QED
    BY <2>3
<1>5. it = Body(it)
  BY <1>4
<1> HIDE DEF it
<1>6. \A S \in SUBSET D : it[S] = Round(it, r, D, S)
  BY <1>5 DEF Round
<1> QED
  BY <1>3, <1>6

-----------------------------------------------------------------------------
(* One round, whoever runs it: the state machine or the fold. *)

\* The arguments cannot make the int32 counter wrap around.
Sound(r, D) ==
  r \in Nat /\ D \in SUBSET Nat /\ IsFiniteSet(D) /\ r + Cardinality(D) <= MaxInt32

\* LoopFacts, of any counter and slots a, with the slots T to be visited.
Facts(r, D, a, T) ==
  /\ a \in [replicaCount : Int, deleteSlots : SUBSET D]
  /\ a.replicaCount = r + Cardinality(a.deleteSlots \ T)
  /\ T \subseteq a.deleteSlots
  /\ \A k \in a.deleteSlots \ T : k < a.replicaCount
  /\ \A d \in D \ a.deleteSlots : a.replicaCount <= d
  /\ \A d \in D \ T : \A t \in T : d < t

\* A round keeps the facts. A kept slot raises the counter by one and adds one
\* to the kept slots; a dropped slot is above the counter, and so are all the
\* slots after it, which is why the counter never overtakes one.
LEMMA RoundKeepsFacts ==
  ASSUME NEW r, NEW D, Sound(r, D), NEW a, NEW T, Facts(r, D, a, T),
         NEW slot \in T, \A t \in T : slot <= t
  PROVE  Facts(r, D, VisitSlot(a, slot), T \ {slot})
<1> DEFINE b == VisitSlot(a, slot)
           K == a.deleteSlots \ T
<1>1. /\ slot \in Nat /\ slot \in a.deleteSlots /\ slot \notin K
      /\ a \in [replicaCount : Int, deleteSlots : SUBSET D] /\ a.deleteSlots \subseteq D
      /\ D \subseteq Nat /\ T \subseteq D /\ r \in Nat
  BY DEF Sound, Facts
<1>2. IsFiniteSet(K) /\ Cardinality(K) \in Nat /\ Cardinality(D) \in Nat
  BY <1>1, FS_Subset, FS_CardinalityType DEF Sound
<1>3. \A d \in D \ (T \ {slot}) : \A t \in T \ {slot} : d < t
  BY <1>1 DEF Facts
<1>4. CASE slot < a.replicaCount
  <2>1. /\ IsFiniteSet(K \union {slot})
        /\ Cardinality(K \union {slot}) = Cardinality(K) + 1
    BY <1>1, <1>2, FS_AddElement
  <2>2. Cardinality(K \union {slot}) <= Cardinality(D)
    <3>1. K \union {slot} \subseteq D
      BY <1>1
    <3> QED
      BY <3>1, FS_Subset DEF Sound
  <2>3. a.replicaCount < MaxInt32
    BY <1>1, <1>2, <2>1, <2>2, MaxInt32Assumption DEF Sound, Facts
  <2>4. b = [a EXCEPT !.replicaCount = a.replicaCount + 1]
    BY <1>1, <1>4, <2>3, MaxInt32Assumption DEF VisitSlot, Inc32
  <2>5. /\ b.replicaCount = a.replicaCount + 1 /\ b.deleteSlots = a.deleteSlots
        /\ b \in [replicaCount : Int, deleteSlots : SUBSET D]
    BY <1>1, <2>4
  <2> HIDE DEF b
  <2>6. b.deleteSlots \ (T \ {slot}) = K \union {slot}
    BY <1>1, <2>5
  <2>7. b.replicaCount = r + Cardinality(b.deleteSlots \ (T \ {slot}))
    BY <1>1, <1>2, <2>1, <2>5, <2>6 DEF Facts
  <2>8. \A k \in b.deleteSlots \ (T \ {slot}) : k < b.replicaCount
    <3> SUFFICES ASSUME NEW k \in K \union {slot} PROVE k < a.replicaCount + 1
      BY <2>5, <2>6
    <3>1. k < a.replicaCount /\ k \in Nat /\ a.replicaCount \in Int
      BY <1>1, <1>4 DEF Facts
    <3> QED
      BY <3>1
  <2>9. \A d \in D \ a.deleteSlots : a.replicaCount + 1 <= d
    BY <1>1, <1>4 DEF Facts
  <2>10. T \ {slot} \subseteq b.deleteSlots
    BY <2>5 DEF Facts
  <2> QED
    BY <1>3, <2>5, <2>7, <2>8, <2>9, <2>10 DEF Facts, b
<1>5. CASE ~ (slot < a.replicaCount)
  <2>1. b = [a EXCEPT !.deleteSlots = a.deleteSlots \ {slot}]
    BY <1>1, <1>5 DEF VisitSlot
  <2>2. /\ b.replicaCount = a.replicaCount /\ b.deleteSlots = a.deleteSlots \ {slot}
        /\ b \in [replicaCount : Int, deleteSlots : SUBSET D]
    BY <1>1, <2>1
  <2> HIDE DEF b
  <2>3. b.deleteSlots \ (T \ {slot}) = K
    BY <1>1, <2>2
  <2>4. \A d \in D \ b.deleteSlots : b.replicaCount <= d
    BY <1>1, <1>5, <2>2 DEF Facts
  <2>5. T \ {slot} \subseteq b.deleteSlots
    BY <2>2 DEF Facts
  <2> QED
    BY <1>3, <2>2, <2>3, <2>4, <2>5 DEF Facts, b
<1> QED
  BY <1>4, <1>5

\* The facts give the result when no slot is left.
LEMMA FactsResult ==
  ASSUME NEW r, NEW D, Sound(r, D), NEW a, Facts(r, D, a, {})
  PROVE  FirstFree(r, D, {o \in 0 .. a.replicaCount - 1 : o \notin a.deleteSlots})
<1> DEFINE n == a.replicaCount
           Res == {o \in 0 .. n - 1 : o \notin a.deleteSlots}
<1>1. /\ a.deleteSlots \subseteq D /\ D \subseteq Nat /\ r \in Nat /\ n \in Int
      /\ a.deleteSlots \ {} = a.deleteSlots
  BY DEF Facts, Sound
<1>2. Cardinality(a.deleteSlots) \in Nat
  BY <1>1, FS_Subset, FS_CardinalityType DEF Sound
<1>3. n = r + Cardinality(a.deleteSlots) /\ n \in Nat
  BY <1>1, <1>2 DEF Facts
<1>4. a.deleteSlots \subseteq 0 .. n - 1
  <2>1. \A k \in a.deleteSlots : k \in Nat /\ k < n
    BY <1>1 DEF Facts
  <2> QED
    BY <1>3, <2>1
<1>5. Res = (0 .. n - 1) \ a.deleteSlots
  OBVIOUS
<1>6. IsFiniteSet(Res) /\ Cardinality(Res) = r
  BY <1>1, <1>2, <1>3, <1>4, <1>5, IntervalSplit
<1>7. Res \subseteq Nat \ D
  <2> SUFFICES ASSUME NEW o \in Res PROVE o \in Nat /\ o \notin D
    OBVIOUS
  <2>1. o \in 0 .. n - 1 /\ o \notin a.deleteSlots
    BY <1>5
  <2> QED
    BY <1>1, <1>3, <2>1 DEF Facts
<1>8. \A s \in Res : \A m \in 0 .. s - 1 : m \in D \union Res
  BY <1>1, <1>3, <1>5
<1> QED
  BY <1>6, <1>7, <1>8 DEF FirstFree

-----------------------------------------------------------------------------
(* The loop. *)

\* The type invariant is preserved by every step of the loop.
LEMMA LoopTypeStep ==
  ASSUME TypeOK, [Next]_vars
  PROVE  TypeOK'
<1>1. CASE \E slot \in todo : Visit(slot)
  BY <1>1, MaxInt32Assumption DEF TypeOK, Visit, VisitSlot, Inc32
<1>2. CASE UNCHANGED vars
  BY <1>2 DEF TypeOK, vars
<1>3. QED
  BY <1>1, <1>2 DEF Next

\* The loop invariant holds initially.
LEMMA LoopInvInit == Init => TypeOK /\ LoopInv
<1> SUFFICES ASSUME Init PROVE TypeOK /\ LoopInv
  OBVIOUS
<1>1. TypeOK
  BY LoopAssumption DEF Init, TypeOK
<1>2. Kept = {}
  BY DEF Init, Kept
<1>3. LoopInv
  BY <1>2, FS_EmptySet, LoopAssumption DEF Init, LoopInv, LoopFacts, Kept
<1>4. QED
  BY <1>1, <1>3

\* What the loop invariant says is what a round keeps.
LEMMA LoopFactsAreFacts ==
  ASSUME TypeOK
  PROVE  /\ SaneArguments => Sound(replicas, deleteSlots)
         /\ LoopFacts <=> Facts(replicas, deleteSlots, acc, todo)
<1>1. SaneArguments => Sound(replicas, deleteSlots)
  BY LoopAssumption, SlotsFinite DEF TypeOK, SaneArguments, Sound
<1>2. LoopFacts <=> Facts(replicas, deleteSlots, acc, todo)
  BY DEF TypeOK, LoopFacts, Facts, Kept
<1> QED
  BY <1>1, <1>2

\* The loop invariant is inductive.
LEMMA LoopInvStep ==
  ASSUME TypeOK, LoopInv, [Next]_vars
  PROVE  LoopInv'
<1>1. CASE UNCHANGED vars
  BY <1>1 DEF LoopInv, LoopFacts, SaneArguments, Kept, vars
<1>2. CASE \E slot \in todo : Visit(slot)
  <2> SUFFICES ASSUME SaneArguments'
               PROVE  LoopFacts'
    BY DEF LoopInv
  <2>1. PICK slot \in todo : Visit(slot)
    BY <1>2
  <2>2. SaneArguments /\ LoopFacts
    BY <2>1 DEF Visit, SaneArguments, LoopInv
  <2>3. Sound(replicas, deleteSlots) /\ Facts(replicas, deleteSlots, acc, todo)
    BY <2>2, LoopFactsAreFacts
  <2>4. /\ acc' = VisitSlot(acc, slot) /\ todo' = todo \ {slot}
        /\ UNCHANGED <<replicas, deleteSlots>> /\ \A t \in todo : slot <= t
    BY <2>1 DEF Visit
  <2>5. Facts(replicas', deleteSlots', acc', todo')
    BY <2>3, <2>4, RoundKeepsFacts
  <2> QED
    BY <2>5 DEF Facts, LoopFacts, Kept
<1>3. QED
  BY <1>1, <1>2 DEF Next

\* The loop invariant gives the result when no slot is left.
LEMMA LoopInvResult ==
  ASSUME TypeOK, LoopInv
  PROVE  ResultIsFirstFree
<1> SUFFICES ASSUME SaneArguments, todo = {}
             PROVE  FirstFree(replicas, deleteSlots, Result)
  BY DEF ResultIsFirstFree
<1>1. Sound(replicas, deleteSlots) /\ Facts(replicas, deleteSlots, acc, {})
  BY LoopFactsAreFacts DEF LoopInv
<1> QED
  BY <1>1, FactsResult DEF Result

\* Between two rounds of GetMaxReplicaCountAndDeleteSlots the counter accounts
\* for exactly the slots kept so far, for every spec.replicas and every finite
\* set of slots that cannot overflow it.
THEOREM LoopCounts == Spec => []LoopInv
<1>1. TypeOK /\ LoopInv /\ [Next]_vars => TypeOK' /\ LoopInv'
  BY LoopTypeStep, LoopInvStep
<1> QED
  BY <1>1, LoopInvInit, PTL DEF Spec

\* For every spec.replicas and every finite set of non-negative delete slots
\* that cannot overflow the counter, the loop of
\* GetMaxReplicaCountAndDeleteSlots ends with exactly the first `replicas`
\* ordinals that are not delete slots.
THEOREM ResultCorrect == Spec => []ResultIsFirstFree
<1>1. Init => TypeOK /\ LoopInv
  BY LoopInvInit
<1>2. TypeOK /\ LoopInv /\ [Next]_vars => TypeOK' /\ LoopInv'
  BY LoopTypeStep, LoopInvStep
<1>3. TypeOK /\ LoopInv => ResultIsFirstFree
  BY LoopInvResult
<1>4. QED
  BY <1>1, <1>2, <1>3, PTL DEF Spec

-----------------------------------------------------------------------------
(* What the fold that the other modules use computes. *)

\* The recursive function of the fold.
Rounds(r, D) ==
  CHOOSE f : /\ \A S \in SUBSET D : f[S] = Round(f, r, D, S)
             /\ GetMaxReplicaCountAndDeleteSlots(r, D) = f[D]

\* It is one.
LEMMA RoundsIsTheFold ==
  ASSUME NEW r, NEW D \in SUBSET Int, IsFiniteSet(D)
  PROVE  /\ \A S \in SUBSET D : Rounds(r, D)[S] = Round(Rounds(r, D), r, D, S)
         /\ GetMaxReplicaCountAndDeleteSlots(r, D) = Rounds(r, D)[D]
<1>1. \E f : /\ \A S \in SUBSET D : f[S] = Round(f, r, D, S)
            /\ GetMaxReplicaCountAndDeleteSlots(r, D) = f[D]
  BY FoldUnfolds
<1> QED
  BY <1>1 DEF Rounds

\* A slot above the visited ones is the last to be folded.
LEMMA RoundOfNext ==
  ASSUME NEW r, NEW D \in SUBSET Int, IsFiniteSet(D), NEW S \in SUBSET D,
         NEW slot \in D, \A s \in S : s < slot
  PROVE  Rounds(r, D)[S \union {slot}] = VisitSlot(Rounds(r, D)[S], slot)
<1> DEFINE U == S \union {slot}
<1>1. U \in SUBSET D /\ U # {} /\ U \in SUBSET Int /\ IsFiniteSet(U)
  <2>1. U \in SUBSET D /\ U # {} /\ U \in SUBSET Int
    OBVIOUS
  <2> HIDE DEF U
  <2> QED
    BY <2>1, FS_Subset
<1>2. Max(U) \in U /\ \A u \in U : u <= Max(U)
  BY <1>1, MaxExists
<1>3. Max(U) = slot
  <2>1. slot <= Max(U) /\ Max(U) \in Int /\ slot \in Int
    BY <1>1, <1>2
  <2>2. Max(U) \in S => Max(U) < slot
    OBVIOUS
  <2> QED
    BY <1>2, <2>1, <2>2
<1>4. U \ {slot} = S
  <2>1. slot \notin S
    OBVIOUS
  <2> QED
    BY <2>1
<1>5. Rounds(r, D)[U] = Round(Rounds(r, D), r, D, U)
  BY <1>1, RoundsIsTheFold
<1> HIDE DEF U
<1>6. Rounds(r, D)[U] = VisitSlot(Rounds(r, D)[S], slot)
  BY <1>1, <1>3, <1>4, <1>5 DEF Round
<1> QED
  BY <1>6 DEF U

\* GetPodOrdinals returns the first `replicas` ordinals that are not delete
\* slots, for every number of replicas and every finite set of slots that
\* cannot overflow the int32 counter.
THEOREM OrdinalsAreFirstFree ==
  ASSUME NEW r, NEW D, Sound(r, D)
  PROVE  FirstFree(r, D, GetPodOrdinalsFromReplicasAndDeleteSlots(r, D))
<1> DEFINE Lower == {S \in SUBSET D : \A d \in S : \A t \in D \ S : d < t}
           Bad == {S \in Lower : ~ Facts(r, D, Rounds(r, D)[S], D \ S)}
<1>0. D \in SUBSET Int /\ IsFiniteSet(D) /\ r \in Nat
  BY DEF Sound
<1>1. Bad = {}
  <2> SUFFICES ASSUME Bad # {} PROVE FALSE
    OBVIOUS
  <2>1. PICK S : MinimalIn(S, Bad)
    <3>1. Bad \subseteq SUBSET D
      OBVIOUS
    <3> HIDE DEF Bad
    <3> QED
      BY <1>0, <3>1, MinimalSubset
  <2>2. S \in Lower /\ S \in SUBSET D /\ ~ Facts(r, D, Rounds(r, D)[S], D \ S)
        /\ \A T \in Bad : T \subseteq S => T = S
    BY <2>1 DEF MinimalIn
  <2>3. CASE S = {}
    <3>1. Rounds(r, D)[{}] = [replicaCount |-> r, deleteSlots |-> D]
      BY <1>0, RoundsIsTheFold DEF Round
    <3>2. Facts(r, D, [replicaCount |-> r, deleteSlots |-> D], D)
      BY <1>0, FS_EmptySet DEF Facts
    <3>3. D \ {} = D
      OBVIOUS
    <3> QED
      BY <2>2, <2>3, <3>1, <3>2, <3>3
  <2>4. CASE S # {}
    <3> DEFINE m == Max(S)
               R == S \ {m}
    <3>1. m \in S /\ (\A s \in S : s <= m) /\ S \subseteq Int
      BY <1>0, <2>2, <2>4, MaxExists, FS_Subset
    <3> HIDE DEF m
    <3>2. R \in SUBSET D /\ m \in D /\ D \ R = (D \ S) \union {m}
      BY <2>2, <3>1
    <3>3. \A s \in R : s < m
      BY <3>1
    <3>4. \A t \in D \ R : m <= t
      <4>1. \A t \in D \ S : m < t /\ t \in Int /\ m \in Int
        BY <1>0, <2>2, <3>1
      <4> QED
        BY <3>1, <3>2, <4>1
    <3>5. R \in Lower
      <4>1. \A d \in R : \A t \in D \ S : d < t
        BY <2>2
      <4> QED
        BY <3>2, <3>3, <4>1
    <3>6. Facts(r, D, Rounds(r, D)[R], D \ R)
      <4>1. R \subseteq S /\ R # S
        BY <3>1
      <4>2. R \notin Bad
        BY <2>2, <4>1
      <4> HIDE DEF R, Lower
      <4> QED
        BY <3>5, <4>2
    <3>7. S = R \union {m} /\ (D \ R) \ {m} = D \ S /\ m \in D \ R
      BY <2>2, <3>1
    <3> HIDE DEF R
    <3>8. Rounds(r, D)[S] = VisitSlot(Rounds(r, D)[R], m)
      BY <1>0, <3>2, <3>3, <3>7, RoundOfNext
    <3>9. Facts(r, D, VisitSlot(Rounds(r, D)[R], m), (D \ R) \ {m})
      BY <3>4, <3>6, <3>7, RoundKeepsFacts
    <3> QED
      BY <2>2, <3>7, <3>8, <3>9
  <2> QED
    BY <2>3, <2>4
<1>2. Facts(r, D, Rounds(r, D)[D], {})
  <2>1. D \in Lower /\ D \ D = {}
    OBVIOUS
  <2> QED
    BY <1>1, <2>1
<1>3. Facts(r, D, GetMaxReplicaCountAndDeleteSlots(r, D), {})
  BY <1>0, <1>2, RoundsIsTheFold
<1> QED
  BY <1>3, FactsResult DEF GetPodOrdinalsFromReplicasAndDeleteSlots

-----------------------------------------------------------------------------
(* What the result means to a user who scales at a chosen ordinal. *)

\* Of two sets of the first r free ordinals, each contains the other.
LEMMA FirstFreeContained ==
  ASSUME NEW r, NEW D, NEW S, NEW T, FirstFree(r, D, S), FirstFree(r, D, T)
  PROVE  S \subseteq T
<1> SUFFICES ASSUME NEW s \in S, s \notin T PROVE FALSE
  OBVIOUS
<1>1. S \subseteq Nat \ D /\ T \subseteq Nat \ D
  BY DEF FirstFree
<1>2. \A t \in T : t \in S
  <2> SUFFICES ASSUME NEW t \in T PROVE t \in S
    OBVIOUS
  <2>1. ~ (s < t)
    <3> SUFFICES ASSUME s < t PROVE FALSE
      OBVIOUS
    <3>1. s \in 0 .. t - 1
      BY <1>1
    <3>2. QED
      BY <3>1, <1>1 DEF FirstFree
  <2>2. t \in 0 .. s - 1
    BY <2>1, <1>1
  <2>3. QED
    BY <2>2, <1>1 DEF FirstFree
<1>3. T \subseteq S \ {s}
  BY <1>2
<1>4. /\ IsFiniteSet(S) /\ Cardinality(S) = r
      /\ IsFiniteSet(T) /\ Cardinality(T) = r
  BY DEF FirstFree
<1>5. IsFiniteSet(S \ {s}) /\ Cardinality(S \ {s}) = r - 1
  BY <1>4, FS_RemoveElement
<1>6. Cardinality(T) <= Cardinality(S \ {s})
  BY <1>3, <1>5, FS_Subset
<1>7. r \in Nat
  BY <1>4, FS_CardinalityType
<1>8. QED
  BY <1>4, <1>5, <1>6, <1>7

\* The ordinals of a set are determined by spec.replicas and its delete slots:
\* the controller and every client that calls GetPodOrdinals agree on them.
LEMMA FirstFreeUnique ==
  ASSUME NEW r, NEW D, NEW S, NEW T, FirstFree(r, D, S), FirstFree(r, D, T)
  PROVE  S = T
BY FirstFreeContained

\* Scaling in at a chosen ordinal (README.md, "scale in at an arbitrary
\* position"): AddDeleteSlots of the ordinal s of a pod, together with one
\* replica less, leaves every other ordinal as it is.
LEMMA ScaleInAtOrdinal ==
  ASSUME NEW r, NEW D, NEW S, NEW s \in S, NEW T,
         FirstFree(r, D, S), FirstFree(r - 1, D \union {s}, T)
  PROVE  T = S \ {s}
<1>1. FirstFree(r - 1, D \union {s}, S \ {s})
  <2>1. S \ {s} \subseteq Nat \ (D \union {s})
    BY DEF FirstFree
  <2>2. IsFiniteSet(S \ {s}) /\ Cardinality(S \ {s}) = r - 1
    BY FS_RemoveElement DEF FirstFree
  <2>3. \A t \in S \ {s} : \A n \in 0 .. t - 1 :
            n \in (D \union {s}) \union (S \ {s})
    BY DEF FirstFree
  <2>4. QED
    BY <2>1, <2>2, <2>3 DEF FirstFree
<1>2. QED
  BY <1>1, FirstFreeUnique

-----------------------------------------------------------------------------
(* Sets of the first free ordinals. *)

\* A set of naturals that is not empty has a least element.
LEMMA LeastNatural ==
  ASSUME NEW S \in SUBSET Nat, S # {}
  PROVE  \E o \in S : \A p \in S : o <= p
<1>1. PICK s \in S : s \in Nat
  OBVIOUS
<1> DEFINE F == {0 .. p : p \in {q \in S : q <= s}}
<1>2. F \subseteq SUBSET (0 .. s) /\ F # {}
  <2>1. 0 .. s \in F
    BY <1>1
  <2>2. \A p \in S : p <= s => 0 .. p \subseteq 0 .. s
    BY <1>1
  <2> QED
    BY <2>1, <2>2
<1>6. IsFiniteSet(0 .. s)
  BY <1>1, FS_Interval
<1>3. PICK I : MinimalIn(I, F)
  <2> HIDE DEF F
  <2> QED
    BY <1>2, <1>6, MinimalSubset
<1>4. PICK o \in S : I = 0 .. o /\ o <= s /\ o \in Nat
  BY <1>3 DEF MinimalIn
<1>5. \A p \in S : o <= p
  <2> SUFFICES ASSUME NEW p \in S, p < o PROVE FALSE
    BY <1>4
  <2>1. p \in Nat /\ p <= s
    BY <1>1, <1>4
  <2>2. 0 .. p \in F /\ 0 .. p \subseteq 0 .. o
    BY <1>4, <2>1
  <2>3. 0 .. p = 0 .. o
    BY <1>3, <1>4, <2>2 DEF MinimalIn
  <2>4. o \in 0 .. o /\ o \notin 0 .. p
    BY <1>4, <2>1
  <2> QED
    BY <2>3, <2>4
<1> QED
  BY <1>5

\* A finite set of naturals that is not empty has a greatest element.
LEMMA GreatestNatural ==
  ASSUME NEW S \in SUBSET Nat, IsFiniteSet(S), S # {}
  PROVE  \E o \in S : \A p \in S : p <= o
<1>1. S \in SUBSET Int
  OBVIOUS
<1> QED
  BY <1>1, MaxExists

\* Some replica is wanted: there is an ordinal.
LEMMA SomeOrdinal ==
  ASSUME NEW r \in Nat \ {0}, NEW D, NEW S, FirstFree(r, D, S)
  PROVE  S # {} /\ S \in SUBSET Nat /\ IsFiniteSet(S)
BY FS_EmptySet DEF FirstFree

\* One replica less at the end takes the last ordinal away and moves no other.
LEMMA OneLess ==
  ASSUME NEW r \in Nat \ {0}, NEW D, NEW S, NEW T, NEW m \in S, \A p \in S : p <= m,
         FirstFree(r, D, S), FirstFree(r - 1, D, T)
  PROVE  T = S \ {m}
<1>1. S \subseteq Nat \ D
  BY DEF FirstFree
<1>2. IsFiniteSet(S \ {m}) /\ Cardinality(S \ {m}) = r - 1
  BY FS_RemoveElement DEF FirstFree
<1>3. \A s \in S \ {m} : \A n \in 0 .. s - 1 : n \in D \union (S \ {m})
  <2> SUFFICES ASSUME NEW s \in S \ {m}, NEW n \in 0 .. s - 1 PROVE n \in D \union (S \ {m})
    OBVIOUS
  <2>1. n \in D \union S
    BY DEF FirstFree
  <2>2. s <= m /\ s \in Nat /\ m \in Nat /\ n < s
    BY <1>1
  <2> QED
    BY <2>1, <2>2
<1>4. FirstFree(r - 1, D, S \ {m})
  BY <1>1, <1>2, <1>3 DEF FirstFree
<1> QED
  BY <1>4, FirstFreeUnique

\* Giving a delete slot below the last ordinal back, with one replica more,
\* adds that ordinal and moves no other.
LEMMA OneBack ==
  ASSUME NEW r, NEW D \in SUBSET Nat, NEW s \in D, NEW S, NEW T, NEW m \in S, s < m,
         FirstFree(r, D, S), FirstFree(r + 1, D \ {s}, T)
  PROVE  T = S \union {s}
<1>1. S \subseteq Nat \ D /\ s \notin S
  BY DEF FirstFree
<1>2. IsFiniteSet(S \union {s}) /\ Cardinality(S \union {s}) = r + 1
  BY <1>1, FS_AddElement DEF FirstFree
<1>3. S \union {s} \subseteq Nat \ (D \ {s})
  BY <1>1
<1>4. \A t \in S \union {s} : \A n \in 0 .. t - 1 : n \in (D \ {s}) \union (S \union {s})
  <2> SUFFICES ASSUME NEW t \in S \union {s}, NEW n \in 0 .. t - 1 PROVE n \in D \union S
    OBVIOUS
  <2>1. CASE t \in S
    BY <2>1 DEF FirstFree
  <2>2. CASE t = s
    <3>1. n \in 0 .. m - 1
      BY <1>1, <2>2
    <3> QED
      BY <3>1 DEF FirstFree
  <2> QED
    BY <2>1, <2>2
<1>5. FirstFree(r + 1, D \ {s}, S \union {s})
  BY <1>2, <1>3, <1>4 DEF FirstFree
<1> QED
  BY <1>5, FirstFreeUnique

-----------------------------------------------------------------------------
(* The updates. *)

\* What is read from an annotation is what was written to it.
LEMMA AnnotationsRead ==
  /\ \A a \in Annotations : GetDeleteSlots(a) \in SUBSET Slots
  /\ \A a \in Annotations, D \in SUBSET Slots :
       SetDeleteSlots(a, D) \in Annotations /\ GetDeleteSlots(SetDeleteSlots(a, D)) = D
<1>1. \A a \in Annotations : GetDeleteSlots(a) \in SUBSET Slots
  BY DEF Annotations, GetDeleteSlots, Absent, Malformed, Listed
<1>2. ASSUME NEW a, NEW D \in SUBSET Slots
      PROVE  SetDeleteSlots(a, D) \in Annotations /\ GetDeleteSlots(SetDeleteSlots(a, D)) = D
  <2>1. CASE D = {}
    BY <2>1 DEF Annotations, GetDeleteSlots, SetDeleteSlots, Absent
  <2>2. CASE D # {}
    BY <2>2 DEF Annotations, GetDeleteSlots, SetDeleteSlots, Listed
  <2> QED
    BY <2>1, <2>2
<1> QED
  BY <1>1, <1>2

\* The annotation and the loop go together.
ScaleInv ==
  /\ TypeOK
  /\ ann \in Annotations
  /\ deleteSlots = GetDeleteSlots(ann)
  /\ LoopInv

\* Every update is one of a set with an annotation that can be read.
LEMMA EveryUpdate ==
  ASSUME ScaleInv, ScaleNext
  PROVE  (Next /\ UNCHANGED ann) \/ \E n \in Replicas, a \in Annotations : Update(n, a)
<1>1. CASE ScaleOut \/ ScaleIn
  BY <1>1 DEF ScaleOut, ScaleIn, ScaleInv, Update
<1>2. ASSUME NEW s \in Slots, ScaleInAt(s) \/ ScaleOutAt(s)
      PROVE  \E n \in Replicas, a \in Annotations : Update(n, a)
  <2>1. /\ AddDeleteSlots(ann, {s}) \in Annotations
        /\ SetDeleteSlots(ann, GetDeleteSlots(ann) \ {s}) \in Annotations
    BY AnnotationsRead DEF ScaleInv, AddDeleteSlots
  <2> QED
    BY <1>2, <2>1 DEF ScaleInAt, ScaleOutAt, Update
<1> QED
  BY <1>1, <1>2 DEF ScaleNext

\* The controller starts over with every update.
LEMMA ScaleStep ==
  ASSUME ScaleInv, [ScaleNext]_scaleVars
  PROVE  ScaleInv'
<1>1. CASE (Next /\ UNCHANGED ann) \/ UNCHANGED scaleVars
  <2>1. [Next]_vars /\ UNCHANGED ann
    BY <1>1 DEF scaleVars
  <2>2. UNCHANGED deleteSlots
    BY <2>1 DEF Next, Visit, vars
  <2> QED
    BY <2>1, <2>2, LoopTypeStep, LoopInvStep DEF ScaleInv
<1>2. ASSUME NEW n \in Replicas, NEW a \in Annotations, Update(n, a) PROVE ScaleInv'
  <2>1. /\ ann' = a /\ deleteSlots' = GetDeleteSlots(a) /\ replicas' \in Replicas
        /\ acc' = [replicaCount |-> replicas', deleteSlots |-> deleteSlots']
        /\ todo' = deleteSlots'
    BY <1>2 DEF Update
  <2>2. deleteSlots' \in SUBSET Slots
    BY <2>1, AnnotationsRead
  <2>3. Init'
    BY <2>1, <2>2 DEF Init
  <2>4. (Init => TypeOK /\ LoopInv)'
    BY LoopInvInit, PTL
  <2> QED
    BY <2>1, <2>3, <2>4 DEF ScaleInv, Annotations
<1> QED
  BY <1>1, <1>2, EveryUpdate

\* The invariant holds of every sequence of updates.
LEMMA ScaleInvHolds == ScaleSpec => []ScaleInv
<1>1. ScaleInit => ScaleInv
  BY LoopInvInit DEF ScaleInit, ScaleInv
<1>2. ScaleInv /\ [ScaleNext]_scaleVars => ScaleInv'
  BY ScaleStep
<1> QED
  BY <1>1, <1>2, PTL DEF ScaleSpec

\* The ordinals of the set are the first free ones.
LEMMA OrdinalsNow ==
  ASSUME ScaleInv, SaneArguments
  PROVE  FirstFree(replicas, deleteSlots, Ordinals)
<1>1. Sound(replicas, deleteSlots)
  BY LoopFactsAreFacts DEF ScaleInv
<1> QED
  BY <1>1, OrdinalsAreFirstFree DEF ScaleInv, Ordinals, GetPodOrdinals

\* And so after an update.
LEMMA OrdinalsThen ==
  ScaleInv' /\ SaneArguments' => FirstFree(replicas', deleteSlots', Ordinals')
<1>1. (ScaleInv /\ SaneArguments => FirstFree(replicas, deleteSlots, Ordinals))'
  BY OrdinalsNow, PTL
<1> QED
  BY <1>1

\* GetMaxPodOrdinal is the last ordinal, if there is one.
LEMMA MaxOrdinal ==
  \A r \in Nat \ {0} : \A D : FirstFree(r, D, Ordinals) =>
    GetMaxPodOrdinal \in Ordinals /\ \A p \in Ordinals : p <= GetMaxPodOrdinal
<1> SUFFICES ASSUME NEW r \in Nat \ {0}, NEW D, FirstFree(r, D, Ordinals)
             PROVE  GetMaxPodOrdinal \in Ordinals /\ \A p \in Ordinals : p <= GetMaxPodOrdinal
  OBVIOUS
<1>1. Ordinals # {} /\ Ordinals \in SUBSET Nat /\ IsFiniteSet(Ordinals)
  BY SomeOrdinal
<1> QED
  BY <1>1, GreatestNatural DEF GetMaxPodOrdinal

-----------------------------------------------------------------------------
(* Theorems. *)

\* Through any sequence of updates the loop of the controller keeps its
\* invariant and ends with the first free ordinals.
THEOREM LoopThroughUpdates ==
  ScaleSpec => [](LoopInv /\ ResultIsFirstFree)
<1>1. ScaleInv => LoopInv /\ ResultIsFirstFree
  BY LoopInvResult DEF ScaleInv
<1> QED
  BY <1>1, ScaleInvHolds, PTL

\* GetMinPodOrdinal is the ordinal of a pod that exists, and all ordinals below
\* it are delete slots, whatever the annotation.
THEOREM MinOrdinalIsFree == ScaleSpec => []MinIsLeastFree
<1>1. ScaleInv => MinIsLeastFree
  <2> SUFFICES ASSUME ScaleInv, SaneArguments, replicas > 0
               PROVE  /\ GetMinPodOrdinal \in Ordinals
                      /\ \A n \in 0 .. GetMinPodOrdinal - 1 : n \in GetDeleteSlots(ann)
    BY DEF MinIsLeastFree
  <2>1. FirstFree(replicas, deleteSlots, Ordinals) /\ deleteSlots = GetDeleteSlots(ann)
    BY OrdinalsNow DEF ScaleInv
  <2>2. replicas \in Nat \ {0}
    BY LoopAssumption DEF ScaleInv, TypeOK
  <2>3. Ordinals # {} /\ Ordinals \in SUBSET Nat
    BY <2>1, <2>2, SomeOrdinal
  <2> DEFINE m == GetMinPodOrdinal
  <2>4. m \in Ordinals /\ \A p \in Ordinals : m <= p
    BY <2>3, LeastNatural DEF GetMinPodOrdinal
  <2> HIDE DEF m
  <2>5. \A n \in 0 .. m - 1 : n \in deleteSlots
    <3> SUFFICES ASSUME NEW n \in 0 .. m - 1 PROVE n \in deleteSlots
      OBVIOUS
    <3>1. n \in deleteSlots \union Ordinals
      BY <2>1, <2>4 DEF FirstFree
    <3>2. n \notin Ordinals
      BY <2>3, <2>4
    <3> QED
      BY <3>1, <3>2
  <2> QED
    BY <2>1, <2>4, <2>5 DEF m
<1> QED
  BY <1>1, ScaleInvHolds, PTL

\* README.md, "scale in at arbitrary position": adding the ordinal of one pod to
\* the delete slots and taking one from spec.replicas removes that pod and
\* moves no other.
THEOREM ScaleInAtIsExact == ScaleSpec => ScaleInAtRemovesOnlyThatPod
<1>1. ASSUME ScaleInv, ScaleInv', NEW s \in Slots, Sane, ScaleInAt(s)
      PROVE  Ordinals' = Ordinals \ {s}
  <2>1. s \in Ordinals /\ Update(replicas - 1, AddDeleteSlots(ann, {s}))
    BY <1>1 DEF ScaleInAt
  <2>2. replicas' = replicas - 1 /\ deleteSlots' = deleteSlots \union {s}
    <3>1. GetDeleteSlots(ann) \union {s} \in SUBSET Slots
      BY <1>1, AnnotationsRead DEF ScaleInv
    <3> QED
      BY <1>1, <2>1, <3>1, AnnotationsRead DEF Update, ScaleInv, AddDeleteSlots
  <2>3. FirstFree(replicas, deleteSlots, Ordinals)
    BY <1>1, OrdinalsNow DEF Sane
  <2>4. FirstFree(replicas', deleteSlots', Ordinals')
    BY <1>1, OrdinalsThen DEF Sane
  <2> QED
    BY <2>1, <2>2, <2>3, <2>4, ScaleInAtOrdinal
<1>2. ScaleInv /\ ScaleInv' /\ [ScaleNext]_scaleVars
        => [\A s \in Slots : Sane /\ ScaleInAt(s) => Ordinals' = Ordinals \ {s}]_scaleVars
  BY <1>1
<1> QED
  BY <1>2, ScaleInvHolds, PTL DEF ScaleSpec, ScaleInAtRemovesOnlyThatPod

\* One replica more or less at the end moves no other pod: it adds an ordinal
\* above, or removes the one at, GetMaxPodOrdinal.
THEOREM ScaleAtEndIsExact == ScaleSpec => ScaleAtEndMovesNoPod
<1>1. ASSUME ScaleInv, ScaleInv', Sane, ScaleIn
      PROVE  Ordinals' = Ordinals \ {GetMaxPodOrdinal}
  <2>1. replicas' = replicas - 1 /\ deleteSlots' = deleteSlots /\ replicas \in Nat \ {0}
    BY <1>1, LoopAssumption DEF ScaleIn, Update, ScaleInv, TypeOK
  <2>2. FirstFree(replicas, deleteSlots, Ordinals)
    BY <1>1, OrdinalsNow DEF Sane
  <2>3. FirstFree(replicas - 1, deleteSlots, Ordinals')
    BY <1>1, <2>1, OrdinalsThen DEF Sane
  <2>4. GetMaxPodOrdinal \in Ordinals /\ \A p \in Ordinals : p <= GetMaxPodOrdinal
    BY <2>1, <2>2, MaxOrdinal
  <2> QED
    BY <2>1, <2>2, <2>3, <2>4, OneLess
<1>2. ASSUME ScaleInv, ScaleInv', Sane, ScaleOut
      PROVE  /\ Ordinals = Ordinals' \ {GetMaxPodOrdinal'}
             /\ GetMaxPodOrdinal' > GetMaxPodOrdinal
  <2>1. replicas' = replicas + 1 /\ deleteSlots' = deleteSlots /\ replicas \in Nat
        /\ replicas' \in Nat \ {0} /\ replicas' - 1 = replicas
    BY <1>2, LoopAssumption DEF ScaleOut, Update, ScaleInv, TypeOK
  <2>2. FirstFree(replicas' - 1, deleteSlots', Ordinals)
    BY <1>2, <2>1, OrdinalsNow DEF Sane
  <2>3. FirstFree(replicas', deleteSlots', Ordinals')
    BY <1>2, OrdinalsThen DEF Sane
  <2>4. GetMaxPodOrdinal' \in Ordinals' /\ \A p \in Ordinals' : p <= GetMaxPodOrdinal'
    <3>1. (\A r \in Nat \ {0} : \A D : FirstFree(r, D, Ordinals) =>
             GetMaxPodOrdinal \in Ordinals /\ \A p \in Ordinals : p <= GetMaxPodOrdinal)'
      BY MaxOrdinal, PTL
    <3> QED
      BY <2>1, <2>3, <3>1
  <2>5. Ordinals = Ordinals' \ {GetMaxPodOrdinal'}
    BY <2>1, <2>2, <2>3, <2>4, OneLess
  <2>6. Ordinals' \subseteq Nat /\ Ordinals \subseteq Nat
    BY <2>2, <2>3 DEF FirstFree
  <2>7. CASE Ordinals = {}
    <3>1. GetMaxPodOrdinal = -1
      BY <2>7 DEF GetMaxPodOrdinal
    <3>2. GetMaxPodOrdinal' \in Nat
      BY <2>4, <2>6
    <3> QED
      BY <2>5, <3>1, <3>2
  <2>8. CASE Ordinals # {}
    <3>1. replicas \in Nat \ {0}
      BY <2>1, <2>2, <2>8, FS_EmptySet DEF FirstFree
    <3>2. GetMaxPodOrdinal \in Ordinals
      BY <2>1, <2>2, <3>1, MaxOrdinal
    <3>3. /\ GetMaxPodOrdinal \in Ordinals' /\ GetMaxPodOrdinal # GetMaxPodOrdinal'
          /\ GetMaxPodOrdinal \in Nat /\ GetMaxPodOrdinal' \in Nat
          /\ GetMaxPodOrdinal <= GetMaxPodOrdinal'
      BY <2>4, <2>5, <2>6, <3>2
    <3> QED
      BY <2>5, <3>3
  <2> QED
    BY <2>5, <2>7, <2>8
<1>3. ScaleInv /\ ScaleInv' /\ [ScaleNext]_scaleVars
        => [/\ Sane /\ ScaleIn => Ordinals' = Ordinals \ {GetMaxPodOrdinal}
            /\ Sane /\ ScaleOut => /\ Ordinals = Ordinals' \ {GetMaxPodOrdinal'}
                                   /\ GetMaxPodOrdinal' > GetMaxPodOrdinal]_scaleVars
  BY <1>1, <1>2
<1> QED
  BY <1>3, ScaleInvHolds, PTL DEF ScaleSpec, ScaleAtEndMovesNoPod

\* Dropping a delete slot below the last pod and adding one replica brings that
\* ordinal back and moves no other.
THEOREM ScaleOutAtIsExact == ScaleSpec => ScaleOutAtBringsBackThatPod
<1>1. ASSUME ScaleInv, ScaleInv', NEW s \in Slots, Sane, ScaleOutAt(s), s < GetMaxPodOrdinal
      PROVE  Ordinals' = Ordinals \union {s}
  <2>1. /\ s \in GetDeleteSlots(ann)
        /\ Update(replicas + 1, SetDeleteSlots(ann, GetDeleteSlots(ann) \ {s}))
    BY <1>1 DEF ScaleOutAt
  <2>2. /\ replicas' = replicas + 1 /\ deleteSlots' = deleteSlots \ {s}
        /\ s \in deleteSlots /\ deleteSlots \in SUBSET Nat /\ replicas \in Nat
    <3>1. GetDeleteSlots(ann) \ {s} \in SUBSET Slots
      BY <1>1, AnnotationsRead DEF ScaleInv
    <3> QED
      BY <1>1, <2>1, <3>1, AnnotationsRead, LoopAssumption
         DEF Update, ScaleInv, Sane, SaneArguments, TypeOK
  <2>3. FirstFree(replicas, deleteSlots, Ordinals)
    BY <1>1, OrdinalsNow DEF Sane
  <2>4. FirstFree(replicas + 1, deleteSlots \ {s}, Ordinals')
    BY <1>1, <2>2, OrdinalsThen DEF Sane
  <2>5. Ordinals # {}
    <3> SUFFICES ASSUME Ordinals = {} PROVE FALSE
      OBVIOUS
    <3>1. GetMaxPodOrdinal = -1 /\ s \in Nat
      BY <2>2 DEF GetMaxPodOrdinal
    <3> QED
      BY <1>1, <3>1
  <2>6. replicas \in Nat \ {0}
    BY <2>2, <2>3, <2>5, FS_EmptySet DEF FirstFree
  <2>7. GetMaxPodOrdinal \in Ordinals
    BY <2>3, <2>6, MaxOrdinal
  <2> QED
    BY <1>1, <2>2, <2>3, <2>4, <2>7, OneBack
<1>2. ScaleInv /\ ScaleInv' /\ [ScaleNext]_scaleVars
        => [\A s \in Slots : Sane /\ ScaleOutAt(s) /\ s < GetMaxPodOrdinal
              => Ordinals' = Ordinals \union {s}]_scaleVars
  BY <1>1
<1> QED
  BY <1>2, ScaleInvHolds, PTL DEF ScaleSpec, ScaleOutAtBringsBackThatPod

=============================================================================
