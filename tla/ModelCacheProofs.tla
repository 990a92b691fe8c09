-------------------------- MODULE ModelCacheProofs --------------------------
(***************************************************************************)
(* Proofs about ModelCache: for any number of threads, an instance that is *)
(* marked as loaded has its artifact, when there always is a file to load, *)
(* and the races of the unlocked cache cost a bounded number of loads.     *)
(***************************************************************************)
EXTENDS ModelCache, FunctionTheorems, FiniteSetTheorems, TLAPS

(* The state is well typed, for every set of threads: in particular a      *)
(* thread past get_model holds an instance.  CacheInv is needed for the    *)
(* step that fetches it from the cache.                                    *)
ThreadsHoldInstances == \A t \in Threads : pc[t] = "fetch" => cache # NoInstance

LEMMA TypedStep ==
    ASSUME TypeOK, ThreadsHoldInstances, [Next]_vars
    PROVE  TypeOK' /\ ThreadsHoldInstances'
<1> USE DEF TypeOK, ThreadsHoldInstances, Instances, Artifacts, Steps, Getting
<1>1. CASE Arrive
    BY <1>1 DEF Arrive
<1>2. CASE Disturb
    BY <1>2, ChangesAssumption DEF Disturb
<1>3. ASSUME NEW t \in Threads, ThreadStep(t)
      PROVE  TypeOK' /\ ThreadsHoldInstances'
    <2>1. CASE Lookup(t)
        BY <2>1 DEF Lookup, Go
    <2>2. CASE Create(t)
        BY <2>2, NoInstanceAssumption DEF Create, Go
    <2>3. CASE Fetch(t)
        BY <2>3 DEF Fetch, Go
    <2>4. CASE Check(t)
        BY <2>4 DEF Check, Go
    <2>5. CASE Discover(t)
        BY <2>5 DEF Discover, Go
    <2>6. CASE ReadArtifact(t)
        BY <2>6 DEF ReadArtifact, Go
    <2>7. CASE ReadRaises(t)
        BY <2>7 DEF ReadRaises, Go
    <2>8. CASE StoreArtifact(t)
        BY <2>8 DEF StoreArtifact, Go
    <2>9. CASE MarkLoaded(t)
        BY <2>9 DEF MarkLoaded, Go
    <2>10. CASE Predict(t)
        BY <2>10 DEF Predict, Go
    <2> QED
        BY <1>3, <2>1, <2>2, <2>3, <2>4, <2>5, <2>6, <2>7, <2>8, <2>9, <2>10
        DEF ThreadStep
<1>4. CASE UNCHANGED vars
    BY <1>4 DEF vars
<1> QED
    BY <1>1, <1>2, <1>3, <1>4 DEF Next

THEOREM CacheTyped == Spec => [](TypeOK /\ ThreadsHoldInstances)
<1>1. Init => TypeOK /\ ThreadsHoldInstances
    BY ChangesAssumption
    DEF Init, TypeOK, ThreadsHoldInstances, Instances, Artifacts, Steps, Getting
<1>2. (TypeOK /\ ThreadsHoldInstances) /\ [Next]_vars
          => (TypeOK /\ ThreadsHoldInstances)'
    BY TypedStep
<1> QED
    BY <1>1, <1>2, PTL DEF Spec

LEMMA CacheInvStep ==
    ASSUME "absent" \notin DiskStates, TypeOK, CacheInv, [Next]_vars
    PROVE  CacheInv'
<1> USE DEF TypeOK, CacheInv, ConstructsOne, PredictsWithArtifact, Instances,
            Artifacts, Getting
<1>1. CASE Arrive
    BY <1>1 DEF Arrive
<1>2. CASE Disturb
    BY <1>2 DEF Disturb
<1>3. ASSUME NEW t \in Threads, ThreadStep(t)
      PROVE  CacheInv'
    <2>1. CASE Lookup(t)
        BY <2>1 DEF Lookup, Go
    <2>2. CASE Create(t)
        BY <2>2, NoInstanceAssumption DEF Create, Go
    <2>3. CASE Fetch(t)
        BY <2>3 DEF Fetch, Go
    <2>4. CASE Check(t)
        BY <2>4 DEF Check, Go
    <2>5. CASE Discover(t)
        BY <2>5 DEF Discover, Go
    <2>6. CASE ReadArtifact(t)
        BY <2>6 DEF ReadArtifact, Go
    <2>7. CASE ReadRaises(t)
        BY <2>7 DEF ReadRaises, Go
    <2>8. CASE StoreArtifact(t)
        BY <2>8 DEF StoreArtifact, Go
    <2>9. CASE MarkLoaded(t)
        BY <2>9 DEF MarkLoaded, Go
    <2>10. CASE Predict(t)
        BY <2>10 DEF Predict, Go
    <2> QED
        BY <1>3, <2>1, <2>2, <2>3, <2>4, <2>5, <2>6, <2>7, <2>8, <2>9, <2>10
        DEF ThreadStep
<1>4. CASE UNCHANGED vars
    BY <1>4 DEF vars
<1> QED
    BY <1>1, <1>2, <1>3, <1>4 DEF Next

(* Whatever the unlocked cache and ensure_loaded let the threads do to one *)
(* another, no thread predicts without an artifact, and each constructs at *)
(* most one instance, as long as the artifact file exists.                 *)
THEOREM ArtifactPresent ==
    ASSUME "absent" \notin DiskStates
    PROVE  Spec => [](CacheInv /\ PredictsWithArtifact)
<1>1. Init => CacheInv
    BY DEF Init, CacheInv, ConstructsOne, PredictsWithArtifact
<1>2. TypeOK /\ CacheInv /\ [Next]_vars => CacheInv'
    BY CacheInvStep
<1>3. CacheInv => PredictsWithArtifact
    BY DEF CacheInv
<1> QED
    BY <1>1, <1>2, <1>3, CacheTyped, PTL DEF Spec

----------------------------------------------------------------------------
(* A set of pairs that holds no pair both ways, but for those of an        *)
(* element with itself, is little more than half of all pairs.             *)
LEMMA HalfOfThePairs ==
    ASSUME NEW T, IsFiniteSet(T), NEW P \in SUBSET (T \X T),
           \A t, u \in T : <<t, u>> \in P /\ <<u, t>> \in P => t = u
    PROVE  LET n == Cardinality(T)
           IN  IsFiniteSet(P) /\ Cardinality(P) <= (n * (n + 1)) \div 2
<1> DEFINE n == Cardinality(T)
           Q == {<<p[2], p[1]>> : p \in P}
           D == P \cap Q
<1>1. n \in Nat /\ IsFiniteSet(T \X T) /\ Cardinality(T \X T) = n * n
    BY FS_CardinalityType, FS_Product
<1>2. Q \subseteq T \X T
    OBVIOUS
<1>3. /\ IsFiniteSet(P) /\ IsFiniteSet(Q) /\ IsFiniteSet(P \cup Q) /\ IsFiniteSet(D)
      /\ Cardinality(P \cup Q) <= n * n
    <2>1. P \cup Q \in SUBSET (T \X T) /\ Q \in SUBSET (T \X T) /\ D \in SUBSET (T \X T)
        BY <1>2
    <2> QED
        BY <1>1, <2>1, FS_Subset
<1>4. Cardinality(P) <= Cardinality(Q)
    <2> DEFINE turn == [p \in P |-> <<p[2], p[1]>>]
    <2>1. turn \in [P -> Q]
        OBVIOUS
    <2>2. \A p, q \in P : turn[p] = turn[q] => p = q
        OBVIOUS
    <2>3. turn \in Injection(P, Q)
        BY <2>1, <2>2 DEF Injection, IsInjective
    <2> QED
        BY <1>3, <2>3, FS_Injection
<1>5. Cardinality(D) <= n
    <2> DEFINE first == [p \in D |-> p[1]]
    <2>1. \A p \in D : p[1] \in T /\ p = <<p[1], p[1]>>
        OBVIOUS
    <2>2. first \in [D -> T] /\ \A p, q \in D : first[p] = first[q] => p = q
        BY <2>1
    <2>3. first \in Injection(D, T)
        BY <2>2 DEF Injection, IsInjective
    <2> QED
        BY <1>1, <2>3, FS_Injection
<1>6. Cardinality(P \cup Q) = Cardinality(P) + Cardinality(Q) - Cardinality(D)
    BY <1>3, FS_Union
<1>7. /\ Cardinality(P) \in Nat /\ Cardinality(Q) \in Nat
      /\ Cardinality(D) \in Nat /\ Cardinality(P \cup Q) \in Nat
    BY <1>3, FS_CardinalityType
<1> HIDE DEF n, Q, D
<1>8. n * n \in Nat /\ n * (n + 1) = n * n + n
    BY <1>1
<1>9. 2 * Cardinality(P) <= n * (n + 1)
    BY <1>1, <1>3, <1>4, <1>5, <1>6, <1>7, <1>8
<1>10. \A k, m \in Nat : 2 * k <= m => k <= m \div 2
    OBVIOUS
<1>11. n * (n + 1) \in Nat
    BY <1>1, <1>8
<1>12. Cardinality(P) <= (n * (n + 1)) \div 2
    BY <1>7, <1>9, <1>10, <1>11
<1> QED
    BY <1>3, <1>12 DEF n

(* The account of the loads: P pairs a thread with an instance whose       *)
(* artifact it read, and r ranks the instances as they were constructed.   *)
(* A thread reads for an instance at most once, since it or another has    *)
(* marked it by the time the thread comes back; and never for an instance  *)
(* older than its own, since the cache holds the youngest.                 *)
Ledger(P, r) ==
    /\ loads = Cardinality(P)
    /\ cache = NoInstance => made = {}
    /\ cache # NoInstance => \A i \in made : r[i] <= r[cache]
    /\ \A i, j \in made : r[i] = r[j] => i = j
    /\ \A t \in Threads :
          /\ pc[t] \notin {"lookup", "create"} => cache # NoInstance
          /\ pc[t] = "create" => t \notin made /\ \A i \in made : <<t, i>> \notin P
          /\ pc[t] \in {"discover", "read"} => <<t, inst[t]>> \notin P
          /\ t \in made /\ pc[t] \notin Getting => r[t] <= r[inst[t]]
          /\ \A i \in made : <<t, i>> \in P =>
                /\ loaded[i] \/ (pc[t] \in {"store", "mark"} /\ inst[t] = i)
                /\ t \in made => r[t] <= r[i]

LedgerInv == \E P \in SUBSET (Threads \X made), r \in [Instances -> Nat] : Ledger(P, r)

(* A step that reads no artifact and constructs no instance leaves the     *)
(* account as it is.                                                       *)
LEMMA LedgerKept ==
    ASSUME TypeOK, NEW P \in SUBSET (Threads \X made), NEW r \in [Instances -> Nat],
           Ledger(P, r), NEW t \in Threads
    PROVE  Lookup(t) \/ Fetch(t) \/ Check(t) \/ Discover(t) \/ ReadRaises(t)
           \/ StoreArtifact(t) \/ MarkLoaded(t) \/ Predict(t)
               => Ledger(P, r)' /\ made' = made
<1> USE DEF TypeOK, Instances, Getting, Steps, Go, Ledger
<1>1. Lookup(t) => Ledger(P, r)' /\ made' = made
    BY DEF Lookup
<1>2. Fetch(t) => Ledger(P, r)' /\ made' = made
    BY DEF Fetch
<1>3. Check(t) => Ledger(P, r)' /\ made' = made
    BY DEF Check
<1>4. Discover(t) => Ledger(P, r)' /\ made' = made
    BY DEF Discover
<1>5. ReadRaises(t) => Ledger(P, r)' /\ made' = made
    BY DEF ReadRaises
<1>6. StoreArtifact(t) => Ledger(P, r)' /\ made' = made
    BY DEF StoreArtifact
<1>7. MarkLoaded(t) => Ledger(P, r)' /\ made' = made
    BY DEF MarkLoaded
<1>8. Predict(t) => Ledger(P, r)' /\ made' = made
    BY DEF Predict
<1> QED
    BY <1>1, <1>2, <1>3, <1>4, <1>5, <1>6, <1>7, <1>8

LEMMA LedgerStep ==
    ASSUME TypeOK, IsFiniteSet(Threads), LedgerInv, [Next]_vars
    PROVE  LedgerInv'
<1>1. PICK P \in SUBSET (Threads \X made), r \in [Instances -> Nat] : Ledger(P, r)
    BY DEF LedgerInv
<1>2. IsFiniteSet(P)
    <2>1. P \in SUBSET (Threads \X Threads)
        BY DEF TypeOK, Instances
    <2> QED
        BY <2>1, FS_Product, FS_Subset
<1>3. CASE Arrive \/ Disturb \/ UNCHANGED vars
    <2>1. Ledger(P, r)' /\ made' = made
        BY <1>1, <1>3 DEF Arrive, Disturb, vars, Ledger, Getting
    <2> QED
        BY <2>1 DEF LedgerInv
<1>4. ASSUME NEW t \in Threads, ThreadStep(t)
      PROVE  LedgerInv'
    <2>1. CASE Create(t)
        <3>0. PICK rank \in Nat : \A i \in made : r[i] < rank
            <4>1. CASE cache = NoInstance
                BY <1>1, <4>1 DEF Ledger
            <4>2. CASE cache # NoInstance
                <5>1. r[cache] + 1 \in Nat /\ \A i \in made : r[i] < r[cache] + 1
                    BY <1>1, <4>2 DEF Ledger, TypeOK, Instances
                <5> QED
                    BY <5>1
            <4> QED
                BY <4>1, <4>2
        <3>1. PICK s \in [Instances -> Nat] : s = [r EXCEPT ![t] = rank]
            BY <3>0 DEF Instances
        <3>2. t \notin made /\ s[t] = rank /\ \A i \in made : s[i] = r[i] /\ r[i] < rank
            BY <1>1, <2>1, <3>0, <3>1 DEF Ledger, Create, Go, TypeOK, Instances
        <3>3. /\ made' = made \cup {t} /\ cache' = t /\ pc' = [pc EXCEPT ![t] = "fetch"]
              /\ loaded' = [loaded EXCEPT ![t] = FALSE] /\ UNCHANGED <<inst, loads>>
              /\ pc[t] = "create"
            BY <2>1 DEF Create, Go
        <3>4. P \in SUBSET (Threads \X made')
            BY <3>3
        <3>5. t # NoInstance
            BY NoInstanceAssumption
        <3>6. \A i \in made' : s[i] <= s[t]
            BY <3>0, <3>1, <3>2, <3>3 DEF TypeOK, Instances
        <3>7. \A i, j \in made' : s[i] = s[j] => i = j
            BY <1>1, <3>0, <3>1, <3>2, <3>3 DEF Ledger, TypeOK, Instances
        <3>8. ASSUME NEW u \in Threads
              PROVE  /\ pc'[u] = "create" => u \notin made' /\ \A i \in made' : <<u, i>> \notin P
                     /\ pc'[u] \in {"discover", "read"} => <<u, inst'[u]>> \notin P
                     /\ u \in made' /\ pc'[u] \notin Getting => s[u] <= s[inst'[u]]
                     /\ \A i \in made' : <<u, i>> \in P =>
                           /\ loaded'[i] \/ (pc'[u] \in {"store", "mark"} /\ inst'[u] = i)
                           /\ u \in made' => s[u] <= s[i]
            <4>1. CASE u = t
                BY <1>1, <3>2, <3>3, <4>1 DEF Ledger, TypeOK, Getting, Instances
            <4>2. CASE u # t
                BY <1>1, <3>2, <3>3, <4>2 DEF Ledger, TypeOK, Getting, Instances
            <4> QED
                BY <4>1, <4>2
        <3>9. Ledger(P, s)'
            BY <1>1, <3>3, <3>5, <3>6, <3>7, <3>8 DEF Ledger
        <3> QED
            BY <3>1, <3>4, <3>9 DEF LedgerInv
    <2>2. CASE ReadArtifact(t)
        <3>0. PICK Q : Q = P \cup {<<t, inst[t]>>}
            OBVIOUS
        <3>1. /\ pc[t] = "read" /\ pc' = [pc EXCEPT ![t] = "store"] /\ loads' = loads + 1
              /\ UNCHANGED <<cache, made, loaded, inst>>
            BY <2>2 DEF ReadArtifact, Go
        <3>2. inst[t] \in made /\ <<t, inst[t]>> \notin P
            BY <1>1, <3>1 DEF Ledger, TypeOK, Getting
        <3>3. Cardinality(Q) = Cardinality(P) + 1
            BY <1>2, <3>0, <3>2, FS_AddElement
        <3>4. Q \in SUBSET (Threads \X made')
            BY <3>0, <3>1, <3>2
        <3>5. \A u \in Threads, i \in made :
                 <<u, i>> \in Q <=> <<u, i>> \in P \/ (u = t /\ i = inst[t])
            BY <3>0
        <3>6. Ledger(Q, r)'
            BY <1>1, <3>1, <3>2, <3>3, <3>5 DEF Ledger, TypeOK, Getting, Instances
        <3> QED
            BY <3>4, <3>6 DEF LedgerInv
    <2>3. CASE \/ Lookup(t) \/ Fetch(t) \/ Check(t) \/ Discover(t) \/ ReadRaises(t)
               \/ StoreArtifact(t) \/ MarkLoaded(t) \/ Predict(t)
        <3>1. Ledger(P, r)' /\ made' = made
            BY <1>1, <2>3, LedgerKept
        <3> QED
            BY <3>1 DEF LedgerInv
    <2> QED
        BY <1>4, <2>1, <2>2, <2>3 DEF ThreadStep
<1> QED
    BY <1>3, <1>4 DEF Next

(* No two threads load for each other: of the pairs in the account none is *)
(* there both ways, and so n threads read at most n(n+1)/2 artifacts,      *)
(* however often a deployment makes them try again.                        *)
THEOREM LoadsStayBounded == Spec => []LoadsBounded
<1>1. Init => LedgerInv
    <2> SUFFICES ASSUME Init PROVE LedgerInv
        OBVIOUS
    <2>1. Ledger({}, [i \in Instances |-> 0])
        BY FS_EmptySet DEF Init, Ledger, Getting
    <2> QED
        BY <2>1 DEF LedgerInv
<1>2. TypeOK /\ LedgerInv /\ [Next]_vars => LedgerInv'
    BY LedgerStep, ThreadsAssumption
<1>3. TypeOK /\ LedgerInv => LoadsBounded
    <2> SUFFICES ASSUME TypeOK, LedgerInv PROVE LoadsBounded
        OBVIOUS
    <2>1. PICK P \in SUBSET (Threads \X made), r \in [Instances -> Nat] : Ledger(P, r)
        BY DEF LedgerInv
    <2>2. P \in SUBSET (Threads \X Threads)
        BY DEF TypeOK, Instances
    <2>3. ASSUME NEW t \in Threads, NEW u \in Threads, <<t, u>> \in P, <<u, t>> \in P
          PROVE  t = u
        <3>1. t \in made /\ u \in made
            BY <2>3
        <3>2. r[t] <= r[u] /\ r[u] <= r[t]
            BY <2>1, <2>3, <3>1 DEF Ledger
        <3>3. r[t] \in Nat /\ r[u] \in Nat
            BY DEF Instances
        <3> QED
            BY <2>1, <3>1, <3>2, <3>3 DEF Ledger
    <2>4. LET n == Cardinality(Threads) IN Cardinality(P) <= (n * (n + 1)) \div 2
        BY <2>2, <2>3, HalfOfThePairs, ThreadsAssumption
    <2> QED
        BY <2>1, <2>4 DEF LoadsBounded, Ledger
<1> QED
    BY <1>1, <1>2, <1>3, CacheTyped, PTL DEF Spec
=============================================================================
