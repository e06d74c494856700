-------------------------- MODULE ReportCycleProofs --------------------------
(***************************************************************************)
(* Proofs about ReportCycle, for any backtraces, buckets, hash,            *)
(* associativity and buffer length, any number of samples and sessions.    *)
(*                                                                         *)
(* A step of the cycle is a step of the collector (CycleCollects), so that *)
(* what CollectorProofs shows of the collector holds here.  To it come     *)
(*   DeliveredInv  no entry, read or not, counts a delivered sample;       *)
(*   NoSampleLost  itself, if set_len does not fail;                       *)
(* and the counts of a report are sums of the sizes of disjoint sets of    *)
(* samples, which DataLemmas adds up.                                      *)
(***************************************************************************)
EXTENDS ReportCycle, CollectorProofs, DataLemmas

\* The collector's inductive invariant
StoredInv == ShapeInv /\ OneEntryPerKey /\ FreshInv /\ ApartInv

\* Every hold of the lock leaves the collector alone, adds to it, clears it or
\* replaces it.
LEMMA CycleCollects ==
  ASSUME [CycleNext]_cycleVars
  PROVE  [CollectorNext]_collectorVars
<1>1. CASE Start
  BY <1>1 DEF Start
<1>2. CASE ClearingReport
  BY <1>2 DEF ClearingReport, CollectorNext, Clear, collectorVars
<1>3. CASE Stop
  BY <1>3 DEF Stop, Renew, CollectorNext, Clear, ClearOk, collectorVars
<1>4. ASSUME NEW k \in Keys, Sample(k) PROVE CollectorNext
  BY <1>4 DEF Sample, CollectorNext
<1>5. CASE UNCHANGED cycleVars
  BY <1>5 DEF cycleVars
<1> QED
  BY <1>1, <1>2, <1>3, <1>4, <1>5 DEF CycleNext

LEMMA StoredInit == CycleInit => StoredInv
<1> SUFFICES ASSUME CycleInit PROVE StoredInv
  OBVIOUS
<1>1. CollectorInit
  BY DEF CycleInit
<1>2. ShapeInv
  BY <1>1, ShapeInit
<1> QED
  BY <1>1, <1>2 DEF StoredInv, CollectorInit, EmptyBuckets, OneEntryPerKey,
     FreshInv, Counting, ApartInv, Apart, Resident, InFile

LEMMA StoredStep == StoredInv /\ [CycleNext]_cycleVars => StoredInv'
  BY CycleCollects, ShapeStep, KeyStep, ApartStep DEF StoredInv

LEMMA Stored == CycleSpec => []StoredInv
  BY StoredInit, StoredStep, PTL DEF CycleSpec

-----------------------------------------------------------------------------
(* No sample is delivered twice                                            *)

\* Every entry there is, in memory, buffered or in the file
Everywhere == Resident \cup buffer \cup InFile

\* A sample that has been delivered is of the past, and no entry counts it.
DeliveredInv ==
  \A s \in delivered :
    s[2] \in 1..clock /\ \A e \in Everywhere : s[2] \notin e.samples

\* A step adds one sample at most, and it is a new one.
LEMMA AddBrings ==
  ASSUME StoredInv, NEW k \in Keys, Add(k)
  PROVE  \A e \in Everywhere' : \A i \in e.samples :
           i = clock + 1 \/ \E f \in Everywhere : i \in f.samples
<1> DEFINE b == BucketOf[k]
           n == clock + 1
           new == [key |-> k, samples |-> {n}]
           Known(e) == \A i \in e.samples :
                         i = n \/ \E f \in Everywhere : i \in f.samples
<1>1. b \in Buckets /\ buckets[b] \subseteq Resident /\ buckets[b] \subseteq Entry
  BY CollectorAssumption
  DEF StoredInv, ShapeInv, CollectorTypeOK, Resident
<1>2. \A e \in Everywhere : Known(e)
  OBVIOUS
<1>3. Known(new)
  OBVIOUS
<1>4. ASSUME NEW S, buckets' = [buckets EXCEPT ![b] = S], \A e \in S : Known(e)
      PROVE  \A e \in Resident' : Known(e)
  <2>1. \A c \in Buckets : buckets'[c] = IF c = b THEN S ELSE buckets[c]
    BY <1>4 DEF StoredInv, ShapeInv, CollectorTypeOK
  <2>2. \A e \in Resident : Known(e)
    BY <1>2 DEF Everywhere
  <2> HIDE DEF Known, b
  <2> QED
    BY <1>4, <2>1, <2>2 DEF Resident
<1>5. ASSUME NEW e \in buckets[b],
             buckets' = [buckets EXCEPT ![b] = (buckets[b] \ {e})
               \cup {[e EXCEPT !.samples = e.samples \cup {n}]}]
      PROVE  \A x \in Resident' : Known(x)
  <2> DEFINE more == [e EXCEPT !.samples = e.samples \cup {n}]
  <2>1. e \in Entry /\ Known(e)
    BY <1>1, <1>2 DEF Everywhere
  <2>2. more.samples = e.samples \cup {n}
    BY <2>1 DEF Entry
  <2>3. Known(more)
    <3> HIDE DEF more
    <3> QED BY <2>1, <2>2
  <2>4. \A x \in (buckets[b] \ {e}) \cup {more} : Known(x)
    <3> HIDE DEF more, Known
    <3> QED BY <1>1, <1>2, <2>3 DEF Everywhere
  <2>5. buckets' = [buckets EXCEPT ![b] = (buckets[b] \ {e}) \cup {more}]
    BY <1>5
  <2> HIDE DEF more, Known, b
  <2> QED
    BY <1>4, <2>4, <2>5
<1>6. ASSUME NEW S \in SUBSET buckets[b], buckets' = [buckets EXCEPT ![b] = S \cup {new}]
      PROVE  \A x \in Resident' : Known(x)
  <2>1. \A x \in S \cup {new} : Known(x)
    <3> HIDE DEF Known, new
    <3> QED BY <1>1, <1>2, <1>3 DEF Everywhere
  <2> HIDE DEF Known, new, b
  <2> QED
    BY <1>4, <1>6, <2>1
<1>7. ASSUME UNCHANGED <<buffer, flush_n, file>>, \A x \in Resident' : Known(x)
      PROVE  \A x \in Everywhere' : Known(x)
  <2>1. InFile' = InFile
    BY <1>7 DEF InFile
  <2> HIDE DEF Known
  <2> QED
    BY <1>2, <1>7, <2>1 DEF Everywhere
<1>8. ASSUME NEW e \in buckets[b], Push(e), \A x \in Resident' : Known(x)
      PROVE  \A x \in Everywhere' : Known(x)
  <2>1. \A x \in buffer \cup {e} \cup InFile : x \in Everywhere
    BY <1>1, <1>8 DEF Everywhere
  <2>2. CASE file' = file /\ buffer' = buffer \cup {e}
    <3>1. InFile' = InFile
      BY <2>2 DEF InFile
    <3> HIDE DEF Known
    <3> QED
      BY <1>2, <1>8, <2>1, <2>2, <3>1 DEF Everywhere
  <2>3. CASE \E part \in SUBSET buffer :
               file' = Append(file, part) /\ buffer' \subseteq {e}
    <3>1. PICK part \in SUBSET buffer :
            file' = Append(file, part) /\ buffer' \subseteq {e}
      BY <2>3
    <3>2. InFile' = InFile \cup part
      BY <3>1, Appended DEF StoredInv
    <3> HIDE DEF Known
    <3> QED
      BY <1>2, <1>8, <2>1, <3>1, <3>2 DEF Everywhere
  <2> QED
    BY <1>8, <2>2, <2>3, PushMoves DEF StoredInv
<1>9. \A x \in Everywhere' : Known(x)
  <2>1. CASE Merges(buckets[b], k)
    <3>1. PICK e \in buckets[b] :
            /\ buckets' = [buckets EXCEPT ![b] = (buckets[b] \ {e})
                 \cup {[e EXCEPT !.samples = e.samples \cup {n}]}]
            /\ UNCHANGED <<buffer, flush_n, file>>
      BY <2>1 DEF Add, BucketAdd
    <3>2. \A x \in Resident' : Known(x)
      <4> HIDE DEF Known, b
      <4> QED BY <1>5, <3>1
    <3> HIDE DEF Known
    <3> QED
      BY <1>7, <3>1, <3>2
  <2>2. CASE /\ buckets' = [buckets EXCEPT ![b] = buckets[b] \cup {new}]
             /\ UNCHANGED <<buffer, flush_n, file>>
    <3>1. \A x \in Resident' : Known(x)
      <4>1. buckets[b] \in SUBSET buckets[b]
        OBVIOUS
      <4> HIDE DEF Known, b, new
      <4> QED BY <1>6, <2>2, <4>1
    <3> HIDE DEF Known
    <3> QED
      BY <1>7, <2>2, <3>1
  <2>3. CASE \E e \in LeastCounted(buckets[b]) :
               /\ buckets' = [buckets EXCEPT ![b] = (buckets[b] \ {e}) \cup {new}]
               /\ Push(e)
    <3>1. PICK e \in buckets[b] :
            /\ buckets' = [buckets EXCEPT ![b] = (buckets[b] \ {e}) \cup {new}]
            /\ Push(e)
      BY <2>3 DEF LeastCounted
    <3>2. buckets[b] \ {e} \in SUBSET buckets[b]
      OBVIOUS
    <3> HIDE DEF Known, b, n, new
    <3> QED
      BY <1>6, <1>8, <3>1, <3>2
  <2> QED
    BY <2>1, <2>2, <2>3 DEF Add, BucketAdd
<1> QED
  BY <1>9

LEMMA DeliveredStep ==
  StoredInv /\ DeliveredInv /\ [CycleNext]_cycleVars => DeliveredInv'
<1> SUFFICES ASSUME StoredInv, DeliveredInv, [CycleNext]_cycleVars
             PROVE  DeliveredInv'
  OBVIOUS
<1>1. clock \in Nat
  BY DEF StoredInv, ShapeInv, CollectorTypeOK
<1>2. ASSUME UNCHANGED <<collectorVars, delivered>>
      PROVE  DeliveredInv'
  BY <1>2 DEF DeliveredInv, Everywhere, Resident, InFile, collectorVars, storeVars
<1>3. ASSUME ClearMemory, file' = <<>> \/ file' = file
      PROVE  Everywhere' \subseteq InFile
  BY <1>3 DEF ClearMemory, EmptyBuckets, Everywhere, Resident, InFile
<1>4. CASE Start
  BY <1>2, <1>4 DEF Start
<1>5. CASE ClearingReport
  <2>1. CASE UNCHANGED <<collectorVars, delivered>>
    BY <1>2, <2>1
  <2>2. CASE ClearFails /\ UNCHANGED <<clock, delivered>>
    <3>1. Everywhere' \subseteq InFile
      BY <1>3, <2>2 DEF ClearFails
    <3> QED
      BY <2>2, <3>1 DEF DeliveredInv, Everywhere
  <2>3. CASE ClearOk /\ Delivers /\ Readable /\ UNCHANGED clock
    <3>1. InFile' = {} /\ Resident' = {} /\ buffer' = {}
      BY <2>3 DEF ClearOk, ClearMemory, EmptyBuckets, Resident, InFile
    <3>2. Everywhere' = {}
      BY <3>1 DEF Everywhere
    <3>3. 1..flush_n \subseteq 1..Len(file)
      BY DEF StoredInv, ShapeInv, CollectorTypeOK
    <3>4. Yielded \subseteq Everywhere
      BY <3>3 DEF Yielded, Flushed, InFile, Everywhere
    <3>5. \A s \in Held : s[2] \in 1..clock
      BY <3>4 DEF Held, StoredInv, FreshInv, Counting, Everywhere
    <3> QED
      BY <2>3, <3>2, <3>5 DEF DeliveredInv, Delivers
  <2> QED
    BY <1>5, <2>1, <2>2, <2>3 DEF ClearingReport, collectorVars
<1>6. CASE Stop
  <2>1. CASE Renew /\ UNCHANGED <<clock, delivered>>
    <3>1. InFile' = {} /\ Resident' = {} /\ buffer' = {}
      BY <2>1 DEF Renew, ClearMemory, EmptyBuckets, Resident, InFile
    <3> QED
      BY <2>1, <3>1 DEF DeliveredInv, Everywhere
  <2>2. CASE UNCHANGED <<collectorVars, delivered>>
    BY <1>2, <2>2
  <2> QED
    BY <1>6, <2>1, <2>2 DEF Stop, collectorVars
<1>7. ASSUME NEW k \in Keys, Sample(k) PROVE DeliveredInv'
  <2>1. clock' = clock + 1 /\ delivered' = delivered
    BY <1>7 DEF Sample, Add
  <2>2. \A e \in Everywhere' : \A i \in e.samples :
          i = clock + 1 \/ \E f \in Everywhere : i \in f.samples
    BY <1>7, AddBrings DEF Sample
  <2>3. ASSUME NEW s \in delivered, NEW e \in Everywhere'
        PROVE  s[2] \in 1..clock' /\ s[2] \notin e.samples
    <3>1. s[2] \in 1..clock
      BY DEF DeliveredInv
    <3>2. s[2] # clock + 1 /\ s[2] \in 1..clock'
      BY <1>1, <2>1, <3>1
    <3> QED
      BY <2>2, <3>2 DEF DeliveredInv
  <2>4. \A s \in delivered : s[2] \in 1..clock'
    BY <1>1, <2>1 DEF DeliveredInv
  <2> QED
    BY <2>1, <2>3, <2>4 DEF DeliveredInv
<1>8. CASE UNCHANGED cycleVars
  BY <1>2, <1>8 DEF cycleVars
<1> QED
  BY <1>4, <1>5, <1>6, <1>7, <1>8 DEF CycleNext

\* No sample is in two clearing reports, whichever calls on the file fail.
THEOREM ReportedOnce == CycleSpec => DeliveredOnce
<1>1. CycleInit => DeliveredInv
  BY DEF CycleInit, DeliveredInv
<1>2. StoredInv /\ DeliveredInv => Held \cap delivered = {}
  <2> SUFFICES ASSUME StoredInv, DeliveredInv, NEW s \in Held, s \in delivered
               PROVE  FALSE
    OBVIOUS
  <2>1. 1..flush_n \subseteq 1..Len(file)
    BY DEF StoredInv, ShapeInv, CollectorTypeOK
  <2>2. Yielded \subseteq Everywhere
    BY <2>1 DEF Yielded, Flushed, InFile, Everywhere
  <2>3. PICK e \in Yielded : s \in {e.key} \X e.samples
    BY DEF Held
  <2>4. s[2] \in e.samples
    BY <2>3
  <2> QED
    BY <2>2, <2>4 DEF DeliveredInv
<1>3. StoredInv /\ DeliveredInv /\ [CycleNext]_cycleVars
        => [delivered' # delivered => Held \cap delivered = {}]_cycleVars
  BY <1>2
<1> QED
  BY <1>1, <1>3, Stored, DeliveredStep, PTL DEF CycleSpec, DeliveredOnce

-----------------------------------------------------------------------------
(* What is yielded is what was recorded                                    *)

LEMMA WholeCycle ==
  ASSUME Fault # "set_len", StoredInv, WholeInv, [CycleNext]_cycleVars
  PROVE  WholeInv'
BY CycleCollects, WholeStep DEF StoredInv

LEMMA LostStep ==
  ASSUME Fault # "set_len", StoredInv, WholeInv, NoSampleLost,
         [CycleNext]_cycleVars
  PROVE  NoSampleLost'
<1>1. ASSUME UNCHANGED <<storeVars, recorded>>
      PROVE  NoSampleLost'
  BY <1>1 DEF NoSampleLost, Readable, Held, Yielded, Resident, Flushed, storeVars
<1>2. ASSUME ClearMemory, file' = <<>>, recorded' = {}
      PROVE  NoSampleLost'
  <2>1. Resident' = {} /\ buffer' = {} /\ Flushed' = {}
    BY <1>2 DEF ClearMemory, EmptyBuckets, Resident, Flushed
  <2>2. Held' = {}
    BY <2>1 DEF Held, Yielded
  <2> QED
    BY <1>2, <2>2 DEF NoSampleLost
<1>3. CASE Start
  BY <1>1, <1>3 DEF Start, collectorVars
<1>4. CASE ClearingReport
  BY <1>1, <1>2, <1>4 DEF ClearingReport, ClearOk, ClearFails, Delivers
<1>5. CASE Stop
  BY <1>1, <1>2, <1>5 DEF Stop, Renew
<1>6. ASSUME NEW k \in Keys, Sample(k) PROVE NoSampleLost'
  <2>1. recorded' = recorded \cup {<<k, clock + 1>>}
    BY <1>6 DEF Sample
  <2>2. Held = Pairs(Yielded) /\ Held' = Pairs(Yielded')
    BY DEF Held, Pairs
  <2>3. CASE ~Readable'
    BY <2>3 DEF NoSampleLost
  <2>4. CASE /\ Readable' = Readable
             /\ Pairs(Yielded') = Pairs(Yielded) \cup {<<k, clock + 1>>}
    BY <2>1, <2>2, <2>4 DEF NoSampleLost
  <2> QED
    BY <1>6, <2>3, <2>4, AddHeld DEF Sample, StoreInv, StoredInv
<1>7. CASE UNCHANGED cycleVars
  BY <1>1, <1>7 DEF cycleVars, collectorVars
<1> QED
  BY <1>3, <1>4, <1>5, <1>6, <1>7 DEF CycleNext

\* The inductive invariant of a session's reports
ExactInv == StoredInv /\ WholeInv /\ NoSampleLost

LEMMA Exact == Fault # "set_len" => (CycleSpec => []ExactInv)
<1> SUFFICES ASSUME Fault # "set_len"
             PROVE  CycleSpec => []ExactInv
  OBVIOUS
<1>1. CycleInit => ExactInv
  <2> SUFFICES ASSUME CycleInit PROVE ExactInv
    OBVIOUS
  <2>1. CollectorInit /\ recorded = {}
    BY DEF CycleInit
  <2>2. Resident = {} /\ buffer = {} /\ Flushed = {} /\ WholeInv
    BY <2>1 DEF CollectorInit, EmptyBuckets, Resident, Flushed, WholeInv
  <2>3. Held = {}
    BY <2>2 DEF Held, Yielded
  <2> QED
    BY <2>1, <2>2, <2>3, StoredInit DEF ExactInv, NoSampleLost
<1>2. ExactInv /\ [CycleNext]_cycleVars => ExactInv'
  BY StoredStep, WholeCycle, LostStep DEF ExactInv
<1> QED
  BY <1>1, <1>2, PTL DEF CycleSpec

\* Unless truncating the file fails, a sample is in every report until a
\* clearing report has returned it and in none afterwards, or there is no report.
THEOREM NothingLost == Fault # "set_len" => (CycleSpec => []NoSampleLost)
<1>1. ExactInv => NoSampleLost
  BY DEF ExactInv
<1> QED
  BY <1>1, Exact, PTL

-----------------------------------------------------------------------------
(* What the rows of a report count                                         *)

\* The samples of some entries
SamplesOf(S) == UNION {e.samples : e \in S}

\* Entries that try_iter yields are finitely many, as each counts samples of
\* its own; so are their samples.
LEMMA YieldedFinite ==
  ASSUME StoredInv
  PROVE  /\ IsFiniteSet(Yielded)
         /\ \A e \in Yielded : IsFiniteSet(e.samples) /\ e.samples # {}
         /\ \A e, f \in Yielded : e.samples \cap f.samples # {} => e = f
<1> DEFINE first == [e \in Yielded |-> CHOOSE i \in e.samples : TRUE]
<1>1. 1..flush_n \subseteq 1..Len(file)
  BY DEF StoredInv, ShapeInv, CollectorTypeOK
<1>2. Yielded \subseteq Resident \cup buffer \cup InFile
  BY <1>1 DEF Yielded, Flushed, InFile
<1>3. \A e \in Yielded : e.samples # {} /\ e.samples \subseteq 1..clock
  BY <1>2 DEF StoredInv, FreshInv, Counting
<1>4. IsFiniteSet(1..clock)
  BY FS_Interval DEF StoredInv, ShapeInv, CollectorTypeOK
<1>5. \A e, f \in Yielded : e.samples \cap f.samples # {} => e = f
  BY ApartImplies DEF StoredInv, NoSampleTwice
<1>6. \A e \in Yielded : first[e] \in e.samples
  BY <1>3
<1>7. first \in Injection(Yielded, 1..clock)
  <2>1. first \in [Yielded -> 1..clock]
    BY <1>3, <1>6
  <2>2. \A e, f \in Yielded : first[e] = first[f] => e = f
    <3> HIDE DEF first
    <3> QED BY <1>5, <1>6
  <2> HIDE DEF first
  <2> QED
    BY <2>1, <2>2 DEF Injection, IsInjective
<1>8. IsFiniteSet(Yielded)
  <2> HIDE DEF first
  <2> QED BY <1>4, <1>7, FS_Injection
<1> QED
  BY <1>3, <1>4, <1>5, <1>8, FS_Subset

\* The count of a row is the number of the samples its entries count.
LEMMA RowCount ==
  ASSUME StoredInv, NEW S \in SUBSET Yielded
  PROVE  TotalCount(S) = Cardinality(SamplesOf(S))
<1> DEFINE g == [e \in S |-> e.samples]
           v == [e \in S |-> Count(e)]
           F(h) == [s \in SUBSET S |->
                      IF s = {} THEN 0 ELSE Count(Pick(s)) + h[s \ {Pick(s)}]]
           V(h) == [s \in SUBSET S |->
                      IF s = {} THEN 0 ELSE v[Pick(s)] + h[s \ {Pick(s)}]]
           it == CHOOSE h : h = F(h)
<1>1. IsFiniteSet(S)
  BY YieldedFinite, FS_Subset
<1>2. Disjoint(g, S)
  BY YieldedFinite DEF Disjoint
<1>3. \A e \in S : v[e] = Cardinality(g[e])
  BY DEF Count
<1>4. TotalCount(S) = it[S]
  BY DEF TotalCount, MapThenSumSet, MapThenFoldSet, Pick
<1>5. ASSUME NEW h PROVE F(h) = V(h)
  <2>1. ASSUME NEW s \in SUBSET S, s # {} PROVE Count(Pick(s)) = v[Pick(s)]
    BY <2>1, Picked
  <2> QED
    BY <2>1
<1> HIDE DEF F, V
<1>6. Sizes(g, S) = F(Sizes(g, S))
  <2>1. Sums(Sizes(g, S), v, S)
    <3> HIDE DEF v, g
    <3> QED BY <1>1, <1>2, <1>3, SizesAdd
  <2>2. Sizes(g, S) = V(Sizes(g, S))
    BY <2>1 DEF Sums, V
  <2> QED
    BY <1>5, <2>2
<1>7. it = F(it)
  BY <1>6, Zenon
<1>8. Sums(it, v, S)
  <2>1. it = V(it)
    BY <1>5, <1>7
  <2> HIDE DEF it, v
  <2> QED BY <2>1 DEF Sums, V
<1>9. it[S] = Cardinality(Joined(g, S))
  <2> HIDE DEF it, v, g
  <2> QED BY <1>1, <1>2, <1>3, <1>8, SizesUnique
<1>10. Joined(g, S) = SamplesOf(S)
  BY DEF Joined, SamplesOf
<1> HIDE DEF it, g
<1> QED
  BY <1>4, <1>9, <1>10

\* The samples of a backtrace are as many as what the entries of the backtrace
\* count.
LEMMA SamplesOfKey ==
  ASSUME StoredInv, NoSampleLost, Readable, NEW k
  PROVE  Cardinality({s \in recorded : s[1] = k})
           = Cardinality(SamplesOf({e \in Yielded : e.key = k}))
<1> DEFINE T == SamplesOf({e \in Yielded : e.key = k})
           P == {s \in recorded : s[1] = k}
           f == [i \in T |-> <<k, i>>]
<1>1. P = {<<k, i>> : i \in T}
  BY DEF NoSampleLost, Held, SamplesOf
<1>2. IsFiniteSet(T)
  <2> DEFINE S == {e \in Yielded : e.key = k}
  <2>1. IsFiniteSet(S)
    BY YieldedFinite, FS_Subset
  <2>2. IsFiniteSet({e.samples : e \in S})
    <3> DEFINE h == [e \in S |-> e.samples]
    <3>1. IsFiniteSet({h[e] : e \in S})
      <4> HIDE DEF h, S
      <4> QED BY <2>1, Images
    <3>2. {h[e] : e \in S} = {e.samples : e \in S}
      OBVIOUS
    <3> QED
      BY <3>1, <3>2
  <2>3. \A t \in {e.samples : e \in S} : IsFiniteSet(t)
    BY YieldedFinite
  <2> QED
    BY <2>2, <2>3, FS_UNION DEF SamplesOf
<1>3. f \in Bijection(T, P)
  <2> HIDE DEF T, P
  <2> QED
    BY <1>1 DEF Bijection, Injection, Surjection, IsInjective
<1> HIDE DEF T, P, f
<1>4. Cardinality(T) = Cardinality(P)
  BY <1>2, <1>3, FS_Bijection DEF ExistsBijection
<1> QED
  BY <1>4 DEF T, P

\* An unresolved report has a row for every recorded backtrace, and its value
\* is the number of the backtrace's samples, in however many entries they are.
THEOREM RowsExact == Fault # "set_len" => (CycleSpec => []UnresolvedExact)
<1>1. ExactInv => UnresolvedExact
  <2> SUFFICES ASSUME ExactInv, Readable
               PROVE  /\ DOMAIN UnresolvedData = {s[1] : s \in recorded}
                      /\ \A k \in DOMAIN UnresolvedData :
                           UnresolvedData[k]
                             = Cardinality({s \in recorded : s[1] = k})
    BY DEF UnresolvedExact
  <2>1. DOMAIN UnresolvedData = {e.key : e \in Yielded}
    BY DEF UnresolvedData
  <2>2. \A e \in Yielded : e.samples # {}
    BY YieldedFinite DEF ExactInv
  <2>3. recorded = UNION {{e.key} \X e.samples : e \in Yielded}
    BY DEF ExactInv, NoSampleLost, Held
  <2>4. {e.key : e \in Yielded} \subseteq {s[1] : s \in recorded}
    <3>1. ASSUME NEW e \in Yielded PROVE e.key \in {s[1] : s \in recorded}
      <4>1. PICK i \in e.samples : TRUE
        BY <2>2
      <4>2. <<e.key, i>> \in recorded /\ <<e.key, i>>[1] = e.key
        BY <2>3
      <4> QED
        BY <4>2
    <3> QED
      BY <3>1
  <2>5. {s[1] : s \in recorded} \subseteq {e.key : e \in Yielded}
    BY <2>3
  <2>6. ASSUME NEW k \in DOMAIN UnresolvedData
        PROVE  UnresolvedData[k] = Cardinality({s \in recorded : s[1] = k})
    <3>1. UnresolvedData[k] = TotalCount({e \in Yielded : e.key = k})
      BY <2>1, <2>6 DEF UnresolvedData
    <3>2. {e \in Yielded : e.key = k} \in SUBSET Yielded
      OBVIOUS
    <3> QED
      BY <3>1, <3>2, RowCount, SamplesOfKey DEF ExactInv
  <2> QED
    BY <2>1, <2>4, <2>5, <2>6
<1> QED
  BY <1>1, Exact, PTL

\* A report's rows count every recorded sample of a backtrace exactly once, in
\* however many rows they are.
THEOREM ReportAddsUp == Fault # "set_len" => (CycleSpec => []ReportExact)
<1>1. ASSUME ExactInv, Readable, NEW k \in Keys
      PROVE  MapThenSumSet(LAMBDA row : ReportData[row],
                           {row \in DOMAIN ReportData : row.key = k})
               = Cardinality({s \in recorded : s[1] = k})
  <2> DEFINE rows == {row \in DOMAIN ReportData : row.key = k}
             In(row) == {e \in Yielded : FramesOf(e) = row}
             g == [row \in rows |-> SamplesOf(In(row))]
             v == ReportData
  <2>1. DOMAIN ReportData = {FramesOf(e) : e \in Yielded}
    BY DEF ReportData
  <2>2. StoredInv
    BY <1>1 DEF ExactInv
  <2>3. IsFiniteSet(rows)
    <3> DEFINE h == [e \in Yielded |-> FramesOf(e)]
    <3>1. IsFiniteSet({h[e] : e \in Yielded})
      <4> HIDE DEF h
      <4> QED BY <2>2, YieldedFinite, Images
    <3>2. {h[e] : e \in Yielded} = {FramesOf(e) : e \in Yielded}
      OBVIOUS
    <3>3. rows \subseteq {h[e] : e \in Yielded}
      BY <2>1, <3>2
    <3> HIDE DEF rows, h
    <3> QED
      BY <3>1, <3>3, FS_Subset
  <2>4. ASSUME NEW row \in rows PROVE IsFiniteSet(g[row])
    <3> DEFINE h == [e \in In(row) |-> e.samples]
    <3>1. IsFiniteSet(In(row))
      BY <2>2, YieldedFinite, FS_Subset
    <3>2. IsFiniteSet({h[e] : e \in In(row)})
      <4> HIDE DEF h, In
      <4> QED BY <3>1, Images
    <3>3. {h[e] : e \in In(row)} = {e.samples : e \in In(row)}
      OBVIOUS
    <3>4. \A t \in {e.samples : e \in In(row)} : IsFiniteSet(t)
      BY <2>2, YieldedFinite
    <3>5. IsFiniteSet(SamplesOf(In(row)))
      BY <3>2, <3>3, <3>4, FS_UNION DEF SamplesOf
    <3> HIDE DEF In
    <3> QED
      BY <3>5
  <2>5. ASSUME NEW row \in rows, NEW other \in rows, g[row] \cap g[other] # {}
        PROVE  row = other
    <3>1. PICK i : i \in SamplesOf(In(row)) /\ i \in SamplesOf(In(other))
      BY <2>5
    <3>2. PICK e \in Yielded : FramesOf(e) = row /\ i \in e.samples
      BY <3>1 DEF SamplesOf
    <3>3. PICK f \in Yielded : FramesOf(f) = other /\ i \in f.samples
      BY <3>1 DEF SamplesOf
    <3>4. e = f
      BY <2>2, <3>2, <3>3, YieldedFinite
    <3> QED
      BY <3>2, <3>3, <3>4
  <2>6. Disjoint(g, rows)
    <3> HIDE DEF g, rows
    <3> QED BY <2>4, <2>5 DEF Disjoint
  <2>7. \A row \in rows : v[row] = Cardinality(g[row])
    <3> SUFFICES ASSUME NEW row \in rows PROVE v[row] = Cardinality(g[row])
      OBVIOUS
    <3>1. v[row] = TotalCount(In(row))
      BY <2>1 DEF ReportData
    <3>2. In(row) \in SUBSET Yielded
      OBVIOUS
    <3>3. g[row] = SamplesOf(In(row))
      OBVIOUS
    <3> HIDE DEF In, g, v
    <3> QED
      BY <2>2, <3>1, <3>2, <3>3, RowCount
  <2>8. MapThenSumSet(LAMBDA row : v[row], rows) = Cardinality(Joined(g, rows))
    <3>1. MapThenSumSet(LAMBDA row : v[row], rows) = Sum(v, rows)
      <4> HIDE DEF g, v, rows
      <4> QED BY DEF MapThenSumSet, MapThenFoldSet, Sum, Pick
    <3>2. Sum(v, rows) = Cardinality(Joined(g, rows))
      <4> HIDE DEF g, v, rows
      <4> QED BY <2>3, <2>6, <2>7, SumOfSizes
    <3> QED
      BY <3>1, <3>2
  <2>9. Joined(g, rows) = SamplesOf({e \in Yielded : e.key = k})
    <3>1. \A e \in Yielded : FramesOf(e) \in rows <=> e.key = k
      BY <2>1 DEF FramesOf
    <3>2. ASSUME NEW i \in Joined(g, rows)
          PROVE  i \in SamplesOf({e \in Yielded : e.key = k})
      <4>1. PICK row \in rows : i \in SamplesOf(In(row))
        BY DEF Joined
      <4>2. PICK e \in Yielded : FramesOf(e) = row /\ i \in e.samples
        BY <4>1 DEF SamplesOf
      <4> QED
        BY <3>1, <4>2 DEF SamplesOf
    <3>3. ASSUME NEW i \in SamplesOf({e \in Yielded : e.key = k})
          PROVE  i \in Joined(g, rows)
      <4>1. PICK e \in Yielded : e.key = k /\ i \in e.samples
        BY DEF SamplesOf
      <4>2. FramesOf(e) \in rows /\ i \in SamplesOf(In(FramesOf(e)))
        BY <3>1, <4>1 DEF SamplesOf
      <4> HIDE DEF rows, In
      <4> QED
        BY <4>2 DEF Joined
    <3> QED
      BY <3>2, <3>3
  <2> HIDE DEF g
  <2> QED
    BY <1>1, <2>8, <2>9, SamplesOfKey DEF ExactInv
<1>2. ExactInv => ReportExact
  BY <1>1 DEF ReportExact
<1> QED
  BY <1>2, Exact, PTL
=============================================================================
