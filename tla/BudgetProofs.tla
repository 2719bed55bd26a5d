---------------------------- MODULE BudgetProofs ----------------------------
(***************************************************************************)
(* What the VMs on a host add up to, for every number of VMs, slots, sizes *)
(* and restarts: how many there are, and how much CPU and RAM they take.   *)
(***************************************************************************)
EXTENDS VMManagerProofs, FiniteSetTheorems

(***************************************************************************)
(* Sums over finite sets.  MapThenSumSet is a recursive function on the    *)
(* subsets of its argument: it has to be shown to exist before anything    *)
(* can be said of it.  The induction is on a set of subsets, through a     *)
(* minimal subset outside it.                                              *)
(***************************************************************************)
LEMMA SubsetInduction ==
  ASSUME NEW S, IsFiniteSet(S), NEW P,
         \A s \in SUBSET S : (\A x \in s : s \ {x} \in P) => s \in P
  PROVE  S \in P
<1> DEFINE T == (SUBSET S) \ P
<1>1. SUFFICES ASSUME T # {} PROVE FALSE
  OBVIOUS
<1>2. T \subseteq FiniteSubsetsOf(S)
  BY FS_Subset DEF FiniteSubsetsOf
<1>3. PICK m \in T : \A t \in T : ~ (<<t, m>> \in StrictSubsetOrdering(S))
  <2> HIDE DEF T
  <2> QED
    BY <1>1, <1>2, WFMin, FS_StrictSubsetOrderingWellFounded, Zenon
<1>4. ASSUME NEW x \in m PROVE m \ {x} \in P
  <2>1. <<m \ {x}, m>> \in StrictSubsetOrdering(S)
    BY DEF StrictSubsetOrdering
  <2>2. m \ {x} \notin T
    BY <1>3, <2>1, Zenon
  <2> QED
    BY <2>2
<1> QED
  BY <1>4

Sum(f, S) == MapThenSumSet(LAMBDA x : f[x], S)

Pick(s) == CHOOSE x \in s : TRUE

LEMMA PickIn == ASSUME NEW s, s # {} PROVE Pick(s) \in s
BY Zenon DEF Pick

\* g is the recursive function that Sum(f, S) applies to S.
SumsUp(g, f, S) ==
  g = [s \in SUBSET S |-> IF s = {} THEN 0 ELSE f[Pick(s)] + g[s \ {Pick(s)}]]

Adder(f, S) == CHOOSE g : SumsUp(g, f, S)

LEMMA SumIs == ASSUME NEW f, NEW S PROVE Sum(f, S) = Adder(f, S)[S]
BY Zenon DEF Sum, MapThenSumSet, MapThenFoldSet, Adder, SumsUp, Pick

\* Two such functions agree wherever both are defined.
LEMMA SumAgree ==
  ASSUME NEW f, NEW S, NEW U, NEW g, NEW h, SumsUp(g, f, S), SumsUp(h, f, U),
         NEW r \in SUBSET (S \cap U), IsFiniteSet(r)
  PROVE  g[r] = h[r]
<1> DEFINE P == {s \in SUBSET r : g[s] = h[s]}
<1>1. ASSUME NEW s \in SUBSET r, \A x \in s : s \ {x} \in P PROVE s \in P
  <2>1. CASE s = {}
    BY <2>1 DEF SumsUp
  <2>2. CASE s # {}
    <3>1. g[s \ {Pick(s)}] = h[s \ {Pick(s)}]
      BY <1>1, <2>2, PickIn
    <3>2. g[s] = f[Pick(s)] + g[s \ {Pick(s)}] /\ h[s] = f[Pick(s)] + h[s \ {Pick(s)}]
      BY <2>2 DEF SumsUp
    <3> QED
      BY <3>1, <3>2
  <2> QED
    BY <2>1, <2>2
<1> HIDE DEF P
<1>2. r \in P
  BY <1>1, SubsetInduction
<1> QED
  BY <1>2 DEF P

\* On a finite set there is one, put together from those of the proper subsets.
LEMMA SumExists ==
  ASSUME NEW f, NEW S, IsFiniteSet(S)
  PROVE  SumsUp(Adder(f, S), f, S)
<1> DEFINE Good(s) == SumsUp(Adder(f, s), f, s)
           P == {s \in SUBSET S : \A t \in SUBSET s : Good(t)}
<1>1. ASSUME NEW m \in SUBSET S, \A x \in m : m \ {x} \in P PROVE m \in P
  <2> DEFINE V(s) == Adder(f, s)[s]
             h == [s \in SUBSET m |-> IF s = {} THEN 0 ELSE f[Pick(s)] + V(s \ {Pick(s)})]
  <2>1. ASSUME NEW s \in SUBSET m, s # m PROVE Good(s)
    <3>1. PICK x \in m : x \notin s
      BY <2>1
    <3>2. s \in SUBSET (m \ {x})
      BY <3>1
    <3> HIDE DEF Good
    <3> QED
      BY <1>1, <3>1, <3>2
  <2>2. ASSUME NEW s \in SUBSET m, s # m, s # {} PROVE h[s] = V(s)
    <3> DEFINE r == s \ {Pick(s)}
    <3>1. Pick(s) \in s
      BY <2>2, PickIn
    <3>2. r \in SUBSET m /\ r # m /\ r \in SUBSET (s \cap r) /\ IsFiniteSet(r)
      BY <3>1, <2>2, FS_Subset
    <3>3. Adder(f, s)[s] = f[Pick(s)] + Adder(f, s)[r]
      BY <2>1, <2>2 DEF SumsUp
    <3>4. Adder(f, s)[r] = Adder(f, r)[r]
      <4>1. SumsUp(Adder(f, s), f, s) /\ SumsUp(Adder(f, r), f, r)
        BY <2>1, <2>2, <3>2
      <4> HIDE DEF r
      <4> QED
        BY <3>2, <4>1, SumAgree
    <3> QED
      BY <2>2, <3>3, <3>4
  <2>3. h[{}] = 0 /\ (m # {} => V({}) = 0)
    <3>1. m # {} => SumsUp(Adder(f, {}), f, {})
      BY <2>1
    <3> QED
      BY <3>1 DEF SumsUp
  <2>4. SumsUp(h, f, m)
    <3>1. ASSUME NEW s \in SUBSET m, s # {} PROVE h[s \ {Pick(s)}] = V(s \ {Pick(s)})
      <4>1. Pick(s) \in s
        BY <3>1, PickIn
      <4>2. s \ {Pick(s)} \in SUBSET m /\ s \ {Pick(s)} # m /\ m # {}
        BY <4>1
      <4> HIDE DEF h, V
      <4> QED
        BY <4>2, <2>2, <2>3
    <3> QED
      BY <3>1 DEF SumsUp
  <2>5. Good(m)
    <3> HIDE DEF h
    <3> QED
      BY <2>4, Zenon DEF Adder
  <2> HIDE DEF Good
  <2> QED
    BY <2>1, <2>5
<1> HIDE DEF P
<1>2. S \in P
  BY <1>1, SubsetInduction
<1> QED
  BY <1>2 DEF P

LEMMA SumUnfold ==
  ASSUME NEW f, NEW S, IsFiniteSet(S)
  PROVE  Sum(f, S) = IF S = {} THEN 0 ELSE f[Pick(S)] + Sum(f, S \ {Pick(S)})
<1> DEFINE r == S \ {Pick(S)}
<1>1. IsFiniteSet(r)
  BY FS_Subset
<1>2. SumsUp(Adder(f, S), f, S) /\ SumsUp(Adder(f, r), f, r)
  BY <1>1, SumExists
<1>3. Sum(f, S) = Adder(f, S)[S] /\ Sum(f, r) = Adder(f, r)[r]
  BY SumIs
<1>4. Adder(f, S)[r] = Adder(f, r)[r]
  BY <1>1, <1>2, SumAgree
<1>5. Adder(f, S)[S] = IF S = {} THEN 0 ELSE f[Pick(S)] + Adder(f, S)[r]
  BY <1>2 DEF SumsUp
<1> QED
  BY <1>3, <1>4, <1>5

LEMMA SumEmpty == ASSUME NEW f PROVE Sum(f, {}) = 0
BY SumUnfold, FS_EmptySet

LEMMA SumType ==
  ASSUME NEW f, NEW S, IsFiniteSet(S), \A x \in S : f[x] \in Int
  PROVE  Sum(f, S) \in Int
<1> DEFINE P == {s \in SUBSET S : Sum(f, s) \in Int}
<1>1. ASSUME NEW s \in SUBSET S, \A x \in s : s \ {x} \in P PROVE s \in P
  <2>1. CASE s = {}
    BY <2>1, SumEmpty
  <2>2. CASE s # {}
    <3>1. Pick(s) \in s /\ s \ {Pick(s)} \in P
      BY <1>1, <2>2, PickIn
    <3>2. IsFiniteSet(s)
      BY FS_Subset
    <3>3. Sum(f, s) = f[Pick(s)] + Sum(f, s \ {Pick(s)})
      BY <2>2, <3>2, SumUnfold
    <3> QED
      BY <3>1, <3>3
  <2> QED
    BY <2>1, <2>2
<1> HIDE DEF P
<1>2. S \in P
  BY <1>1, SubsetInduction
<1> QED
  BY <1>2 DEF P

\* The order of the additions does not matter: any element can come off first.
LEMMA SumRemove ==
  ASSUME NEW f, NEW S, IsFiniteSet(S), \A y \in S : f[y] \in Int, NEW x \in S
  PROVE  Sum(f, S) = f[x] + Sum(f, S \ {x})
<1> DEFINE Splits(s, z) == Sum(f, s) = f[z] + Sum(f, s \ {z})
           P == {s \in SUBSET S : \A z \in s : Splits(s, z)}
<1>1. ASSUME NEW s \in SUBSET S, \A z \in s : s \ {z} \in P PROVE s \in P
  <2> SUFFICES ASSUME NEW z \in s PROVE Splits(s, z)
    OBVIOUS
  <2> DEFINE y == Pick(s)
             q == (s \ {y}) \ {z}
  <2>1. y \in s
    BY PickIn
  <2>2. Sum(f, s) = f[y] + Sum(f, s \ {y})
    BY FS_Subset, SumUnfold
  <2>3. CASE y = z
    BY <2>2, <2>3
  <2>4. CASE y # z
    <3>1. Splits(s \ {y}, z) /\ Splits(s \ {z}, y)
      <4> HIDE DEF Splits, y
      <4> QED
        BY <1>1, <2>1, <2>4
    <3>2. (s \ {z}) \ {y} = q
      OBVIOUS
    <3>3. Sum(f, q) \in Int /\ f[y] \in Int /\ f[z] \in Int
      <4>1. IsFiniteSet(q)
        BY FS_Subset
      <4> QED
        BY <2>1, <4>1, SumType
    <3>4. Sum(f, s \ {y}) = f[z] + Sum(f, q)
      BY <3>1
    <3>5. Sum(f, s \ {z}) = f[y] + Sum(f, q)
      BY <3>1, <3>2
    <3> HIDE DEF q, y
    <3> QED
      BY <2>2, <3>3, <3>4, <3>5
  <2> QED
    BY <2>3, <2>4
<1> HIDE DEF P
<1>2. S \in P
  BY <1>1, SubsetInduction
<1> QED
  BY <1>2 DEF P

LEMMA SumMonotone ==
  ASSUME NEW f, NEW S, IsFiniteSet(S), \A x \in S : f[x] \in Nat, NEW R \in SUBSET S
  PROVE  Sum(f, R) <= Sum(f, S)
<1>1. \A s \in SUBSET S : IsFiniteSet(s) /\ Sum(f, s) \in Int
  BY FS_Subset, SumType
<1> DEFINE P == {s \in SUBSET S : R \subseteq s => Sum(f, R) <= Sum(f, s)}
<1>2. ASSUME NEW s \in SUBSET S, \A x \in s : s \ {x} \in P PROVE s \in P
  <2> SUFFICES ASSUME R \subseteq s, R # s PROVE Sum(f, R) <= Sum(f, s)
    BY <1>1
  <2>1. PICK x \in s : x \notin R
    OBVIOUS
  <2>2. Sum(f, s) = f[x] + Sum(f, s \ {x})
    BY <1>1, SumRemove
  <2>3. Sum(f, R) <= Sum(f, s \ {x})
    BY <1>2, <2>1
  <2> QED
    BY <1>1, <2>2, <2>3
<1> HIDE DEF P
<1>3. S \in P
  BY <1>2, SubsetInduction
<1> QED
  BY <1>3 DEF P

LEMMA SumSame ==
  ASSUME NEW f, NEW g, NEW S, IsFiniteSet(S), \A x \in S : g[x] = f[x]
  PROVE  Sum(g, S) = Sum(f, S)
<1> DEFINE P == {s \in SUBSET S : Sum(g, s) = Sum(f, s)}
<1>1. ASSUME NEW s \in SUBSET S, \A x \in s : s \ {x} \in P PROVE s \in P
  <2>1. CASE s = {}
    BY <2>1, SumEmpty
  <2>2. CASE s # {}
    <3>1. Pick(s) \in s /\ s \ {Pick(s)} \in P
      BY <1>1, <2>2, PickIn
    <3>2. IsFiniteSet(s)
      BY FS_Subset
    <3>3. /\ Sum(f, s) = f[Pick(s)] + Sum(f, s \ {Pick(s)})
          /\ Sum(g, s) = g[Pick(s)] + Sum(g, s \ {Pick(s)})
      BY <2>2, <3>2, SumUnfold
    <3> QED
      BY <3>1, <3>3
  <2> QED
    BY <2>1, <2>2
<1> HIDE DEF P
<1>2. S \in P
  BY <1>1, SubsetInduction
<1> QED
  BY <1>2 DEF P

LEMMA SumUnion ==
  ASSUME NEW f, NEW A, NEW B, IsFiniteSet(A), IsFiniteSet(B), A \cap B = {},
         \A x \in A \cup B : f[x] \in Int
  PROVE  Sum(f, A \cup B) = Sum(f, A) + Sum(f, B)
<1>1. IsFiniteSet(A \cup B)
  BY FS_Union
<1>2. \A s \in SUBSET A : /\ IsFiniteSet(s) /\ Sum(f, s) \in Int
                          /\ IsFiniteSet(s \cup B) /\ Sum(f, s \cup B) \in Int
  BY <1>1, FS_Subset, SumType
<1>3. Sum(f, B) \in Int
  BY SumType
<1> DEFINE P == {s \in SUBSET A : Sum(f, s \cup B) = Sum(f, s) + Sum(f, B)}
<1>4. ASSUME NEW s \in SUBSET A, \A x \in s : s \ {x} \in P PROVE s \in P
  <2>1. CASE s = {}
    BY <1>3, <2>1, SumEmpty
  <2>2. CASE s # {}
    <3>1. PICK x \in s : s \ {x} \in P
      BY <1>4, <2>2
    <3>2. Sum(f, s) = f[x] + Sum(f, s \ {x})
      <4>1. IsFiniteSet(s) /\ \A y \in s : f[y] \in Int
        BY <1>2
      <4> QED
        BY <4>1, SumRemove
    <3>3. Sum(f, s \cup B) = f[x] + Sum(f, (s \cup B) \ {x})
      <4>1. IsFiniteSet(s \cup B) /\ x \in s \cup B /\ \A y \in s \cup B : f[y] \in Int
        BY <1>2
      <4> QED
        BY <4>1, SumRemove
    <3>4. (s \cup B) \ {x} = (s \ {x}) \cup B
      OBVIOUS
    <3>5. Sum(f, (s \ {x}) \cup B) = Sum(f, s \ {x}) + Sum(f, B)
      BY <3>1
    <3>6. f[x] \in Int /\ Sum(f, s \ {x}) \in Int
      BY <1>2
    <3> HIDE DEF P
    <3>7. Sum(f, s \cup B) = Sum(f, s) + Sum(f, B)
      <4>1. Sum(f, s \cup B) = f[x] + (Sum(f, s \ {x}) + Sum(f, B))
        BY <3>3, <3>4, <3>5, Zenon
      <4> QED
        BY <1>3, <3>2, <3>6, <4>1
    <3> QED
      BY <3>7 DEF P
  <2> QED
    BY <2>1, <2>2
<1> HIDE DEF P
<1>5. A \in P
  BY <1>4, SubsetInduction
<1> QED
  BY <1>5 DEF P

\* A set split into n parts that add up to at most c each.
LEMMA SumOfLanes ==
  ASSUME NEW f, NEW S, IsFiniteSet(S), \A x \in S : f[x] \in Int, NEW n \in Nat, NEW c \in Nat,
         NEW a, \A x \in S : a[x] \in 1 .. n,
         \A l \in 1 .. n : Sum(f, {x \in S : a[x] = l}) <= c
  PROVE  Sum(f, S) <= n * c
<1> DEFINE In(L) == {x \in S : a[x] \in L}
           P == {L \in SUBSET (1 .. n) : Sum(f, In(L)) <= Cardinality(L) * c}
<1>1. IsFiniteSet(1 .. n) /\ Cardinality(1 .. n) = n
  BY FS_Interval
<1>2. ASSUME NEW T \in SUBSET S PROVE IsFiniteSet(T) /\ Sum(f, T) \in Int
  BY FS_Subset, SumType
<1>3. ASSUME NEW L \in SUBSET (1 .. n), \A l \in L : L \ {l} \in P PROVE L \in P
  <2>1. CASE L = {}
    <3>1. In(L) = {} /\ Cardinality(L) = 0
      BY <2>1, FS_EmptySet
    <3> HIDE DEF In
    <3> QED
      BY <3>1, SumEmpty
  <2>2. CASE L # {}
    <3>1. PICK l \in L : L \ {l} \in P
      BY <1>3, <2>2
    <3> DEFINE R == In(L \ {l})
               Q == {x \in S : a[x] = l}
               k == Cardinality(L \ {l})
    <3>2. In(L) = R \cup Q /\ R \cap Q = {} /\ R \in SUBSET S /\ Q \in SUBSET S
      OBVIOUS
    <3>3. Sum(f, R) <= k * c /\ Sum(f, Q) <= c
      BY <3>1
    <3>4. IsFiniteSet(L) /\ k \in Nat /\ Cardinality(L) = k + 1
      <4>1. IsFiniteSet(L) /\ IsFiniteSet(L \ {l})
        BY <1>1, FS_Subset
      <4>2. Cardinality(L) \in Nat /\ k \in Nat
        BY <4>1, FS_CardinalityType
      <4>3. k = Cardinality(L) - 1
        BY <4>1, FS_RemoveElement
      <4> QED
        BY <4>1, <4>2, <4>3
    <3> HIDE DEF In, R, Q, k, P
    <3>5. Sum(f, In(L)) = Sum(f, R) + Sum(f, Q)
      BY <1>2, <3>2, SumUnion
    <3>6. (k + 1) * c = k * c + c /\ k * c \in Int
      BY <3>4
    <3>7. Sum(f, In(L)) <= Cardinality(L) * c
      BY <1>2, <3>2, <3>3, <3>4, <3>5, <3>6
    <3> QED
      BY <3>7 DEF P
  <2> QED
    BY <2>1, <2>2
<1>4. In(1 .. n) = S
  OBVIOUS
<1> HIDE DEF P, In
<1>5. 1 .. n \in P
  BY <1>1, <1>3, SubsetInduction
<1> QED
  BY <1>1, <1>4, <1>5 DEF P

(***************************************************************************)
(* The number of VMs.                                                      *)
(***************************************************************************)
\* No two VMs hold one slot and slots are numbered below the CPU count, so at
\* most that many VMs are held at a time, concurrent Creates included.
THEOREM CountSafety ==
  ASSUME SerialDestroys
  PROVE  Spec => []CountBounded
<1>1. TypeOK /\ SlotsExclusive => CountBounded
  <2> SUFFICES ASSUME TypeOK, SlotsExclusive PROVE CountBounded
    OBVIOUS
  <2> DEFINE f == [id \in Held |-> slot[id]]
  <2>1. f \in Injection(Held, Slots)
    BY DEF TypeOK, BackendTypeOK, SlotsExclusive, Held, Injection, IsInjective
  <2>2. IsFiniteSet(Slots) /\ Cardinality(Slots) = CPUTotal
    BY FS_Interval, AdmissionAssumption, ManagerAssumption
  <2>3. Cardinality(Held) <= Cardinality(Slots)
    BY <2>1, <2>2, FS_Injection
  <2> QED
    BY <2>2, <2>3 DEF CountBounded, capacityCPU
<1> QED
  BY <1>1, TypeCorrect, SlotSafety, PTL

(***************************************************************************)
(* What a restart brings back.  This much of the slot invariant holds also *)
(* when Destroys of one VM overlap.                                        *)
(***************************************************************************)
\* A VM being destroyed has been created, so no Create of it writes metadata.
DestroyedAreMade ==
  \A d \in Destroyers : dpc[d] # "idle" => cpc[dvm[d]] \in {"done", "lost"}

DiskInv == Phases /\ DownIsEmpty /\ DiskTracksMemory /\ RemovedFirst /\ DestroyedAreMade

LEMMA DiskInit == Init => DiskInv
BY DEF Init, DiskInv, Phases, DownIsEmpty, DiskTracksMemory, RemovedFirst, DestroyedAreMade

LEMMA DiskStep ==
  ASSUME TypeInv, DiskInv, "rmdir" \notin Faults, [Next]_vars
  PROVE  DiskInv'
<1> USE DEF TypeInv, TypeOK, BusyHasVM, DiskInv, Phases, DownIsEmpty, DiskTracksMemory, RemovedFirst,
            DestroyedAreMade, Creating
<1>1. ASSUME NEW id \in VMs, NEW size \in Sizes, CreateAdmit(id, size) PROVE DiskInv'
  <2>1. /\ up /\ cpc[id] = "none" /\ cpc' = [cpc EXCEPT ![id] = "rootfs"]
        /\ UNCHANGED <<vms, disk, dpc, dvm, up>>
    BY <1>1, Zenon DEF CreateAdmit, newVMID, destroyVars, agentVars
  <2> QED
    BY <2>1
<1>2. ASSUME NEW id \in VMs, CreateStep(id) PROVE DiskInv'
  <2>1. UNCHANGED <<dpc, dvm, up>>
    BY <1>2, Zenon DEF CreateStep, PrepareRootfs, PrepareRootfsFails, Boot, BootFailed, CreateRmDir,
                       Persist, Register, managerVars, destroyVars, agentVars
  <2>2. CASE PrepareRootfs(id)
    BY <2>1, <2>2 DEF PrepareRootfs
  <2>3. CASE PrepareRootfsFails(id)
    BY <2>1, <2>3 DEF PrepareRootfsFails
  <2>4. CASE Boot(id)
    BY <2>1, <2>4 DEF Boot, managerVars, createVars
  <2>5. CASE BootFailed(id)
    BY <2>1, <2>5 DEF BootFailed
  <2>6. CASE CreateRmDir(id)
    BY <2>1, <2>6 DEF CreateRmDir, removeVMDir
  <2>7. CASE Persist(id)
    BY <2>1, <2>7 DEF Persist, persist
  <2>8. CASE Register(id)
    BY <2>1, <2>8 DEF Register
  <2> QED
    BY <1>2, <2>2, <2>3, <2>4, <2>5, <2>6, <2>7, <2>8, Zenon DEF CreateStep
<1>3. ASSUME NEW d \in Destroyers, NEW id \in VMs, Lookup(d, id) PROVE DiskInv'
  <2>1. /\ id \in vms /\ UNCHANGED <<vms, cpc, disk, up>>
        /\ dpc' = [dpc EXCEPT ![d] = "stop"] /\ dvm' = [dvm EXCEPT ![d] = id]
    BY <1>3, Zenon DEF Lookup, createVars, agentVars
  <2> QED
    BY <2>1
<1>4. ASSUME NEW d \in Destroyers, DestroyStep(d) PROVE DiskInv'
  <2>1. UNCHANGED <<cpc, up>> /\ dpc[d] # "idle"
    BY <1>4, Zenon DEF DestroyStep, DestroyStop, DestroyTeardown, DestroyRmDir, DestroyUnmap,
                       createVars, agentVars
  <2>2. CASE DestroyStop(d)
    BY <2>1, <2>2 DEF DestroyStop, return
  <2>3. CASE DestroyTeardown(d)
    BY <2>1, <2>3 DEF DestroyTeardown
  <2>4. CASE DestroyRmDir(d)
    BY <2>1, <2>4 DEF DestroyRmDir, removeVMDir
  <2>5. CASE DestroyUnmap(d)
    BY <2>1, <2>5 DEF DestroyUnmap, return
  <2> QED
    BY <1>4, <2>2, <2>3, <2>4, <2>5, Zenon DEF DestroyStep
<1>5. CASE Down
  <2>1. /\ ~up' /\ vms' = {} /\ UNCHANGED disk
        /\ \A d \in Destroyers : dpc'[d] = "idle"
        /\ \A id \in VMs : cpc'[id] = IF Creating(id) THEN "lost" ELSE cpc[id]
    BY <1>5 DEF Down
  <2> QED
    BY <2>1
<1>6. CASE reconcile
  <2>1. ~up /\ up' /\ vms' = restored /\ UNCHANGED <<cpc, disk, dpc, dvm>>
    BY <1>6, Zenon DEF reconcile, createVars, destroyVars
  <2> QED
    BY <2>1 DEF restored
<1>7. CASE UNCHANGED <<vms, cpc, disk, dpc, dvm, up>>
  BY <1>7
<1>8. ASSUME NEW id \in VMs, Exits(id) \/ Expire(id) \/ ReapNext(id) PROVE DiskInv'
  <2>1. \/ UNCHANGED <<vms, cpc, disk, dpc, dvm, up>>
        \/ Lookup(Reaper, id)
    BY <1>8, Zenon DEF Exits, Expire, ReapNext, managerVars, createVars, destroyVars, agentVars
  <2>2. Reaper \in Destroyers
    BY DEF Destroyers
  <2> HIDE DEF DiskInv
  <2> QED
    BY <1>3, <1>7, <2>1, <2>2, Zenon
<1>9. ASSUME NEW d \in Deleters, NEW id \in VMs, Delete(d, id) PROVE DiskInv'
  BY <1>3, <1>9, Zenon DEF Delete, Destroyers
<1>10. CASE ReapExpired \/ UNCHANGED vars
  <2>1. UNCHANGED <<vms, cpc, disk, dpc, dvm, up>>
    BY <1>10, Zenon DEF ReapExpired, vars, managerVars, createVars, destroyVars, agentVars
  <2> QED
    BY <1>7, <2>1
<1> HIDE DEF DiskInv
<1> QED
  BY <1>1, <1>2, <1>4, <1>5, <1>6, <1>8, <1>9, <1>10, Zenon DEF Next

\* No meta.json outlives its VM, so no restart brings back a VM that Destroy has
\* removed, overlapping Destroys included, as long as removeVMDir works.
THEOREM MetadataSafety ==
  ASSUME "rmdir" \notin Faults
  PROVE  Spec => []DiskTracksMemory
<1>1. TypeInv /\ DiskInv /\ [Next]_vars => (TypeInv /\ DiskInv)'
  BY TypeStep, DiskStep
<1>2. DiskInv => DiskTracksMemory
  BY DEF DiskInv
<1> QED
  BY <1>1, <1>2, TypeInit, DiskInit, PTL DEF Spec

(***************************************************************************)
(* The budget.  A VM is put in a lane when it is admitted, one in which no *)
(* Create is pending: all that lane holds is registered, so admission has  *)
(* counted it, and the lane fits the host.  While the agent is down        *)
(* nothing is held, but what is on disk will be: it has to fit as well.    *)
(***************************************************************************)
Fit(S) == Sum(vcpu, S) <= capacityCPU /\ Sum(ramMb, S) <= capacityRAMMb

Budgeted == IF up THEN Held ELSE restored

Lane(a, l) == {id \in Budgeted : a[id] = l}

LanesFit(a) == \A l \in 1 .. MaxCreates : Fit(Lane(a, l))

BudgetInv ==
  /\ \A id \in VMs : (Holder(id) \/ disk[id] = "meta") => vcpu[id] > 0 /\ ramMb[id] > 0
  /\ IsFiniteSet(Budgeted)
  /\ \E a \in [VMs -> 1 .. MaxCreates] : LanesFit(a)

\* No request asks for so much that adding it to what the host can hold leaves
\* int64: Create checks only that the size is positive.
SaneSizes ==
  \A size \in Sizes : /\ MaxCreates * capacityCPU + size.vcpu < IntHalf
                      /\ MaxCreates * capacityRAMMb + size.ramMb < IntHalf

LEMMA Capacities ==
  capacityCPU \in 0 .. IntHalf - 1 /\ capacityRAMMb \in 0 .. IntHalf - 1
<1> DEFINE n == RAMTotalMb - HostReservedRamMb
<1>1. n \in -IntHalf .. IntHalf - 1
  BY AdmissionAssumption
<1>2. Wrap(n) = n
  BY <1>1, AdmissionAssumption DEF Wrap
<1> QED
  BY <1>1, <1>2, AdmissionAssumption DEF capacityCPU, capacityRAMMb, budgetRAMMb

LEMMA WrapExact == ASSUME NEW n \in 0 .. IntHalf - 1 PROVE Wrap(n) = n
BY AdmissionAssumption DEF Wrap

\* One more VM: its size is added.
LEMMA SumGrows ==
  ASSUME NEW f, NEW g, NEW S, IsFiniteSet(S), NEW x, x \notin S, g[x] \in Int,
         \A y \in S : f[y] \in Int /\ g[y] = f[y]
  PROVE  Sum(g, S \cup {x}) = g[x] + Sum(f, S)
<1>1. IsFiniteSet(S \cup {x})
  BY FS_AddElement
<1>2. \A y \in S \cup {x} : g[y] \in Int
  OBVIOUS
<1>3. Sum(g, S \cup {x}) = g[x] + Sum(g, (S \cup {x}) \ {x})
  BY <1>1, <1>2, SumRemove
<1>4. (S \cup {x}) \ {x} = S
  OBVIOUS
<1>5. Sum(g, S) = Sum(f, S)
  BY SumSame
<1> QED
  BY <1>3, <1>4, <1>5

LEMMA BudgetInit == Init => BudgetInv
<1> SUFFICES ASSUME Init PROVE BudgetInv
  OBVIOUS
<1>1. Budgeted = {}
  BY DEF Init, Budgeted, Held, Holder
<1>2. 1 \in 1 .. MaxCreates
  BY ManagerAssumption
<1> DEFINE a == [id \in VMs |-> 1]
<1>3. a \in [VMs -> 1 .. MaxCreates]
  BY <1>2
<1>4. LanesFit(a)
  <2>1. \A l : Lane(a, l) = {}
    BY <1>1 DEF Lane
  <2> QED
    BY <2>1, SumEmpty, Capacities DEF LanesFit, Fit
<1>5. \A id \in VMs : ~(Holder(id) \/ disk[id] = "meta")
  BY DEF Init, Holder
<1> HIDE DEF a
<1> QED
  BY <1>1, <1>3, <1>4, <1>5, FS_EmptySet, Zenon DEF BudgetInv

LEMMA BudgetedSizes ==
  ASSUME TypeOK, BudgetInv, NEW S \in SUBSET Budgeted
  PROVE  /\ IsFiniteSet(S)
         /\ \A id \in S : vcpu[id] \in Nat /\ ramMb[id] \in Nat
         /\ Sum(vcpu, S) \in Nat /\ Sum(ramMb, S) \in Nat
<1>1. IsFiniteSet(S)
  BY FS_Subset DEF BudgetInv
<1>2. \A id \in S : vcpu[id] \in Nat /\ ramMb[id] \in Nat
  BY DEF TypeOK, BudgetInv, Budgeted, Held, restored
<1>3. Sum(vcpu, S) \in Int /\ Sum(ramMb, S) \in Int
  BY <1>1, <1>2, SumType
<1>4. Sum(vcpu, {}) <= Sum(vcpu, S) /\ Sum(ramMb, {}) <= Sum(ramMb, S)
  BY <1>1, <1>2, SumMonotone
<1> QED
  BY <1>1, <1>2, <1>3, <1>4, SumEmpty

\* What counts is at most as many times the host as there are lanes.
LEMMA LanesBound ==
  ASSUME TypeOK, BudgetInv, NEW S \in SUBSET Budgeted
  PROVE  /\ Sum(vcpu, S) <= MaxCreates * capacityCPU
         /\ Sum(ramMb, S) <= MaxCreates * capacityRAMMb
<1>1. PICK a \in [VMs -> 1 .. MaxCreates] : LanesFit(a)
  BY Zenon DEF BudgetInv
<1> DEFINE B == Budgeted
<1>2. B \subseteq VMs
  BY DEF Budgeted, Held, restored
<1>3. IsFiniteSet(B) /\ \A id \in B : vcpu[id] \in Nat /\ ramMb[id] \in Nat
  BY BudgetedSizes
<1>4. \A l \in 1 .. MaxCreates : /\ Sum(vcpu, {id \in B : a[id] = l}) <= capacityCPU
                                 /\ Sum(ramMb, {id \in B : a[id] = l}) <= capacityRAMMb
  BY <1>1, Zenon DEF LanesFit, Lane, Fit
<1> HIDE DEF B
<1>5. MaxCreates \in Nat /\ capacityCPU \in Nat /\ capacityRAMMb \in Nat
  BY ManagerAssumption, Capacities
<1>6. \A id \in B : a[id] \in 1 .. MaxCreates
  BY <1>1, <1>2
<1>7. (\A id \in B : vcpu[id] \in Int) /\ (\A id \in B : ramMb[id] \in Int)
  BY <1>3
<1>8. Sum(vcpu, B) <= MaxCreates * capacityCPU
  BY <1>3, <1>4, <1>5, <1>6, <1>7, SumOfLanes
<1>9. Sum(ramMb, B) <= MaxCreates * capacityRAMMb
  BY <1>3, <1>4, <1>5, <1>6, <1>7, SumOfLanes
<1>10. Sum(vcpu, S) <= Sum(vcpu, B) /\ Sum(ramMb, S) <= Sum(ramMb, B)
  BY <1>3, SumMonotone DEF B
<1>11. Sum(vcpu, S) \in Nat /\ Sum(ramMb, S) \in Nat /\ Sum(vcpu, B) \in Nat /\ Sum(ramMb, B) \in Nat
  BY BudgetedSizes DEF B
<1>12. MaxCreates * capacityCPU \in Nat /\ MaxCreates * capacityRAMMb \in Nat
  BY <1>5
<1> QED
  BY <1>8, <1>9, <1>10, <1>11, <1>12

\* Fewer Creates are pending than there are lanes, so one lane has none.
LEMMA FreeLane ==
  ASSUME NEW a \in [VMs -> 1 .. MaxCreates], IsFiniteSet(Pending), Cardinality(Pending) < MaxCreates
  PROVE  \E l \in 1 .. MaxCreates : \A id \in Pending : a[id] # l
<1> SUFFICES ASSUME \A l \in 1 .. MaxCreates : \E id \in Pending : a[id] = l PROVE FALSE
  OBVIOUS
<1> DEFINE L == 1 .. MaxCreates
           f == [l \in L |-> CHOOSE id \in Pending : a[id] = l]
<1>1. ASSUME NEW l \in L PROVE f[l] \in Pending /\ a[f[l]] = l
  <2>1. \E id \in Pending : a[id] = l
    OBVIOUS
  <2>2. f[l] = CHOOSE id \in Pending : a[id] = l
    OBVIOUS
  <2> HIDE DEF f
  <2> QED
    BY <2>1, <2>2, Zenon
<1>2. f \in Injection(L, Pending)
  <2>1. f \in [L -> Pending]
    BY <1>1
  <2> HIDE DEF f, L
  <2>2. \A l, m \in L : f[l] = f[m] => l = m
    BY <1>1, Zenon
  <2> QED
    BY <2>1, <2>2 DEF Injection, IsInjective
<1>3. Cardinality(L) = MaxCreates
  BY FS_Interval, ManagerAssumption
<1> HIDE DEF f, L
<1>4. Cardinality(L) <= Cardinality(Pending)
  BY <1>2, FS_Injection
<1> QED
  BY <1>3, <1>4, FS_CardinalityType, ManagerAssumption

\* Create's test in machine integers keeps the lane of the new VM within the real
\* budgets: what it counts, the registered VMs, are all that lane holds.
LEMMA BudgetAdmit ==
  ASSUME TypeOK, DiskInv, BudgetInv, SaneSizes,
         NEW id \in VMs, NEW size \in Sizes, CreateAdmit(id, size)
  PROVE  BudgetInv'
<1>1. /\ up /\ up' /\ cpc[id] = "none" /\ cpc' = [cpc EXCEPT ![id] = "rootfs"]
      /\ UNCHANGED <<vms, disk>> /\ size.vcpu > 0 /\ size.ramMb > 0
      /\ vcpu' = [vcpu EXCEPT ![id] = size.vcpu] /\ ramMb' = [ramMb EXCEPT ![id] = size.ramMb]
      /\ Cardinality(Pending) < MaxCreates
  BY DEF CreateAdmit, newVMID, agentVars
<1>2. size.vcpu \in Nat /\ size.ramMb \in Nat
  BY <1>1, ManagerAssumption
<1>3. /\ id \notin Budgeted /\ Budgeted' = Budgeted \cup {id}
      /\ Budgeted = vms \cup Pending
  BY <1>1 DEF DiskInv, Phases, TypeOK, Holder, Held, Budgeted, Pending
<1>4. \A j \in Budgeted : vcpu[j] \in Nat /\ ramMb[j] \in Nat
  BY BudgetedSizes
<1>5. \A j \in Budgeted : vcpu'[j] = vcpu[j] /\ ramMb'[j] = ramMb[j]
  BY <1>1, <1>3 DEF TypeOK
<1>6. vcpu'[id] = size.vcpu /\ ramMb'[id] = size.ramMb
  BY <1>1 DEF TypeOK
<1>7. PICK a \in [VMs -> 1 .. MaxCreates] : LanesFit(a)
  BY Zenon DEF BudgetInv
<1>8. PICK l \in 1 .. MaxCreates : \A j \in Pending : a[j] # l
  <2>1. IsFiniteSet(Pending)
    BY <1>3, BudgetedSizes
  <2> QED
    BY <1>1, <2>1, FreeLane, Zenon
<1>9. /\ Sum(vcpu, vms) + size.vcpu <= capacityCPU
      /\ Sum(ramMb, vms) + size.ramMb <= capacityRAMMb
  <2> DEFINE c == Sum(vcpu, vms)
             r == Sum(ramMb, vms)
  <2>1. used(vcpu, vms) = Wrap(c) /\ used(ramMb, vms) = Wrap(r)
    BY Zenon DEF used, Sum
  <2>2. /\ c \in Nat /\ r \in Nat
        /\ c <= MaxCreates * capacityCPU /\ r <= MaxCreates * capacityRAMMb
    BY <1>3, BudgetedSizes, LanesBound
  <2> HIDE DEF c, r
  <2>3. MaxCreates * capacityCPU \in Nat /\ MaxCreates * capacityRAMMb \in Nat
    BY Capacities, ManagerAssumption
  <2>4. c + size.vcpu \in 0 .. IntHalf - 1 /\ r + size.ramMb \in 0 .. IntHalf - 1
    <3>1. /\ MaxCreates * capacityCPU + size.vcpu < IntHalf
          /\ MaxCreates * capacityRAMMb + size.ramMb < IntHalf
      BY DEF SaneSizes
    <3> QED
      BY <1>2, <2>2, <2>3, <3>1, AdmissionAssumption
  <2>5. Wrap(c) = c /\ Wrap(r) = r
    BY <1>2, <2>2, <2>4, WrapExact, AdmissionAssumption
  <2>6. fits(capacityRAMMb, c, size.vcpu, r, size.ramMb)
    BY <2>1, <2>5 DEF CreateAdmit, admits
  <2>7. Wrap(c + size.vcpu) = c + size.vcpu /\ Wrap(r + size.ramMb) = r + size.ramMb
    BY <2>4, WrapExact
  <2>8. c + size.vcpu <= capacityCPU /\ r + size.ramMb <= capacityRAMMb
    BY <2>6, <2>7 DEF fits
  <2> QED
    BY <2>8, Zenon DEF c, r
<1> DEFINE b == [a EXCEPT ![id] = l]
<1>10. b \in [VMs -> 1 .. MaxCreates]
  BY <1>7, <1>8
<1>11. ASSUME NEW m \in 1 .. MaxCreates, m # l PROVE Fit(Lane(b, m))'
  <2> DEFINE S == Lane(a, m)
  <2>1. Lane(b, m)' = S /\ S \in SUBSET Budgeted
    BY <1>3, <1>7, <1>11 DEF Lane, Budgeted, Held, restored
  <2>2. IsFiniteSet(S)
    BY <2>1, BudgetedSizes
  <2> HIDE DEF S, b
  <2>3. Sum(vcpu', S) = Sum(vcpu, S) /\ Sum(ramMb', S) = Sum(ramMb, S)
    BY <1>5, <2>1, <2>2, SumSame
  <2>4. Sum(vcpu, S) <= capacityCPU /\ Sum(ramMb, S) <= capacityRAMMb
    BY <1>7, Zenon DEF LanesFit, Fit, S
  <2>5. Sum(vcpu', S) <= capacityCPU /\ Sum(ramMb', S) <= capacityRAMMb
    BY <2>3, <2>4, Zenon
  <2> QED
    BY <2>1, <2>5 DEF Fit
<1>12. Fit(Lane(b, l))'
  <2> DEFINE S == Lane(a, l)
  <2>1. Lane(b, l)' = S \cup {id} /\ S \in SUBSET Budgeted /\ S \in SUBSET vms /\ id \notin S
    BY <1>3, <1>7, <1>8 DEF Lane, Budgeted, Held, restored
  <2>2. IsFiniteSet(S) /\ IsFiniteSet(vms) /\ vms \in SUBSET Budgeted
    BY <1>3, <2>1, BudgetedSizes
  <2> HIDE DEF S, b
  <2>3. /\ Sum(vcpu', S \cup {id}) = vcpu'[id] + Sum(vcpu, S)
        /\ Sum(ramMb', S \cup {id}) = ramMb'[id] + Sum(ramMb, S)
    <3>1. /\ \A j \in S : vcpu[j] \in Int /\ vcpu'[j] = vcpu[j]
          /\ \A j \in S : ramMb[j] \in Int /\ ramMb'[j] = ramMb[j]
          /\ vcpu'[id] \in Int /\ ramMb'[id] \in Int
      BY <1>2, <1>4, <1>5, <1>6, <2>1
    <3> QED
      BY <2>1, <2>2, <3>1, SumGrows
  <2>4. Sum(vcpu, S) <= Sum(vcpu, vms) /\ Sum(ramMb, S) <= Sum(ramMb, vms)
    BY <1>4, <2>1, <2>2, SumMonotone
  <2>5. /\ Sum(vcpu, S) \in Nat /\ Sum(ramMb, S) \in Nat
        /\ Sum(vcpu, vms) \in Nat /\ Sum(ramMb, vms) \in Nat
    BY <2>1, <2>2, BudgetedSizes
  <2>6. Sum(vcpu', S \cup {id}) <= capacityCPU /\ Sum(ramMb', S \cup {id}) <= capacityRAMMb
    BY <1>2, <1>6, <1>9, <2>3, <2>4, <2>5, Capacities
  <2> QED
    BY <2>1, <2>6 DEF Fit
<1>13. LanesFit(b)'
  <2> HIDE DEF b
  <2> QED
    BY <1>11, <1>12 DEF LanesFit
<1>14. \A j \in VMs : (Holder(j) \/ disk[j] = "meta")' => vcpu'[j] > 0 /\ ramMb'[j] > 0
  BY <1>1, <1>6 DEF TypeOK, BudgetInv, Holder
<1>15. IsFiniteSet(Budgeted')
  BY <1>3, FS_AddElement DEF BudgetInv
<1> HIDE DEF b
<1> QED
  BY <1>10, <1>13, <1>14, <1>15 DEF BudgetInv

\* No other step changes a size or adds a VM to those that count.
BudgetKept ==
  /\ UNCHANGED <<vcpu, ramMb>>
  /\ Budgeted' \subseteq Budgeted
  /\ \A id \in VMs : (Holder(id) \/ disk[id] = "meta")' => Holder(id) \/ disk[id] = "meta"

LEMMA BudgetKeeps ==
  ASSUME TypeInv, DiskInv, [Next]_vars,
         ~ \E id \in VMs, size \in Sizes : CreateAdmit(id, size)
  PROVE  BudgetKept
<1> USE DEF BudgetKept, Budgeted, Held, Holder, restored
<1>1. ASSUME NEW id \in VMs, CreateStep(id) PROVE BudgetKept
  <2>1. Creating(id)
    BY <1>1, Zenon DEF CreateStep, PrepareRootfs, PrepareRootfsFails, Boot, BootFailed, CreateRmDir,
                       Persist, Register, Creating
  <2>2. up
    BY <2>1 DEF DiskInv, DownIsEmpty
  <2>3. UNCHANGED <<vcpu, ramMb, up>>
    BY <1>1, Zenon DEF CreateStep, PrepareRootfs, PrepareRootfsFails, Boot, BootFailed, CreateRmDir,
                       Persist, Register, managerVars, createVars, agentVars
  <2> USE DEF TypeInv, TypeOK
  <2>4. CASE PrepareRootfs(id)
    BY <2>2, <2>3, <2>4 DEF PrepareRootfs
  <2>5. CASE PrepareRootfsFails(id)
    BY <2>2, <2>3, <2>5 DEF PrepareRootfsFails
  <2>6. CASE Boot(id)
    BY <2>2, <2>3, <2>6 DEF Boot, managerVars, createVars
  <2>7. CASE BootFailed(id)
    BY <2>2, <2>3, <2>7 DEF BootFailed
  <2>8. CASE CreateRmDir(id)
    BY <2>2, <2>3, <2>8 DEF CreateRmDir, removeVMDir
  <2>9. CASE Persist(id)
    BY <2>2, <2>3, <2>9 DEF Persist, persist
  <2>10. CASE Register(id)
    BY <2>2, <2>3, <2>10 DEF Register
  <2> QED
    BY <1>1, <2>4, <2>5, <2>6, <2>7, <2>8, <2>9, <2>10, Zenon DEF CreateStep
<1>2. ASSUME NEW d \in Destroyers, DestroyStep(d) PROVE BudgetKept
  <2>1. UNCHANGED <<vcpu, ramMb, up, cpc>> /\ vms' \subseteq vms
    BY <1>2, Zenon DEF DestroyStep, DestroyStop, DestroyTeardown, DestroyRmDir, DestroyUnmap,
                       createVars, agentVars
  <2>2. dpc[d] # "idle"
    BY <1>2, Zenon DEF DestroyStep, DestroyStop, DestroyTeardown, DestroyRmDir, DestroyUnmap
  <2>3. up
    BY <2>2 DEF DiskInv, DownIsEmpty
  <2>4. disk' = disk \/ removeVMDir(dvm[d])
    BY <1>2, Zenon DEF DestroyStep, DestroyStop, DestroyTeardown, DestroyRmDir, DestroyUnmap
  <2>5. \A j \in VMs : disk'[j] = "meta" => disk[j] = "meta"
    BY <2>4 DEF removeVMDir, TypeInv, TypeOK
  <2> QED
    BY <2>1, <2>3, <2>5
<1>3. CASE Down
  <2>1. up /\ ~up' /\ vms' = {} /\ UNCHANGED <<vcpu, ramMb, disk>>
    BY <1>3, Zenon DEF Down
  <2>2. \A id \in VMs : cpc'[id] = IF Creating(id) THEN "lost" ELSE cpc[id]
    BY <1>3 DEF Down
  <2> QED
    BY <2>1, <2>2 DEF DiskInv, DiskTracksMemory, Creating
<1>4. CASE reconcile
  <2>1. ~up /\ up' /\ vms' = restored /\ UNCHANGED <<vcpu, ramMb, cpc, disk>>
    BY <1>4, Zenon DEF reconcile, createVars
  <2> QED
    BY <2>1 DEF DiskInv, DownIsEmpty, Creating
<1>5. CASE UNCHANGED <<vms, vcpu, ramMb, cpc, disk, up>>
  BY <1>5
<1>6. CASE \/ \E id \in VMs : Exits(id) \/ Expire(id) \/ ReapNext(id)
           \/ \E d \in Deleters, id \in VMs : Delete(d, id)
           \/ ReapExpired \/ UNCHANGED vars
  <2>1. UNCHANGED <<vms, vcpu, ramMb, cpc, disk, up>>
    BY <1>6, Zenon DEF Exits, Expire, ReapNext, Delete, Lookup, ReapExpired, vars, managerVars,
                       createVars, agentVars
  <2> QED
    BY <1>5, <2>1
<1> QED
  BY <1>1, <1>2, <1>3, <1>4, <1>6, Zenon DEF Next

LEMMA BudgetStep ==
  ASSUME TypeInv, DiskInv, BudgetInv, SaneSizes, [Next]_vars
  PROVE  BudgetInv'
<1>1. CASE \E id \in VMs, size \in Sizes : CreateAdmit(id, size)
  BY <1>1, BudgetAdmit DEF TypeInv
<1>2. CASE ~ \E id \in VMs, size \in Sizes : CreateAdmit(id, size)
  <2>1. BudgetKept
    BY <1>2, BudgetKeeps
  <2>2. PICK a \in [VMs -> 1 .. MaxCreates] : LanesFit(a)
    BY Zenon DEF BudgetInv
  <2>3. ASSUME NEW l \in 1 .. MaxCreates PROVE Fit(Lane(a, l))'
    <3> DEFINE S == Lane(a, l)
               R == Lane(a, l)'
    <3>1. R \in SUBSET S /\ S \in SUBSET Budgeted /\ R \in SUBSET Budgeted
      BY <2>1 DEF BudgetKept, Lane
    <3> HIDE DEF S, R
    <3>2. /\ IsFiniteSet(S) /\ \A id \in S : vcpu[id] \in Nat /\ ramMb[id] \in Nat
          /\ Sum(vcpu, S) \in Nat /\ Sum(ramMb, S) \in Nat
          /\ Sum(vcpu, R) \in Nat /\ Sum(ramMb, R) \in Nat
      BY <3>1, BudgetedSizes DEF TypeInv
    <3>3. Sum(vcpu, R) <= Sum(vcpu, S) /\ Sum(ramMb, R) <= Sum(ramMb, S)
      BY <3>1, <3>2, SumMonotone
    <3>4. Sum(vcpu, S) <= capacityCPU /\ Sum(ramMb, S) <= capacityRAMMb
      BY <2>2, Zenon DEF LanesFit, Fit, S
    <3>5. Sum(vcpu, R) <= capacityCPU /\ Sum(ramMb, R) <= capacityRAMMb
      BY <3>2, <3>3, <3>4, Capacities
    <3>6. vcpu' = vcpu /\ ramMb' = ramMb
      BY <2>1 DEF BudgetKept
    <3> QED
      BY <3>5, <3>6, Zenon DEF Fit, R
  <2>4. LanesFit(a)'
    BY <2>3 DEF LanesFit
  <2>5. IsFiniteSet(Budgeted')
    BY <2>1, FS_Subset DEF BudgetKept, BudgetInv
  <2> QED
    BY <2>1, <2>2, <2>4, <2>5 DEF BudgetInv, BudgetKept
<1> QED
  BY <1>1, <1>2

\* However many Creates overlap, at most MaxCreates holding a reservation at once,
\* and however Destroys, the reaper and restarts interleave with them: the VMs that
\* hold a slot need at most MaxCreates times the host's CPU and RAM budgets.  A
\* failed removal, which would bring a destroyed VM back, and requests whose size
\* overflows int64 are left out.
THEOREM OvercommitSafety ==
  ASSUME "rmdir" \notin Faults, SaneSizes
  PROVE  Spec => []OvercommitBounded
<1> DEFINE Inv == TypeInv /\ DiskInv /\ BudgetInv
<1>1. Init => Inv
  BY TypeInit, DiskInit, BudgetInit
<1>2. Inv /\ [Next]_vars => Inv'
  BY TypeStep, DiskStep, BudgetStep
<1>3. Inv => OvercommitBounded
  <2> SUFFICES ASSUME Inv PROVE OvercommitBounded
    OBVIOUS
  <2>1. Held \in SUBSET Budgeted
    BY DEF Held, Holder, Budgeted, DiskInv, DownIsEmpty, Creating
  <2>2. /\ Sum(vcpu, Held) <= MaxCreates * capacityCPU
        /\ Sum(ramMb, Held) <= MaxCreates * capacityRAMMb
    BY <2>1, LanesBound DEF TypeInv
  <2> QED
    BY <2>2, Zenon DEF OvercommitBounded, HeldWithin, Sum
<1> QED
  BY <1>1, <1>2, <1>3, PTL DEF Spec
=============================================================================
