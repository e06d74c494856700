--------------------------- MODULE CollectorProofs ---------------------------
(***************************************************************************)
(* Proofs about Collector, for any backtraces, buckets, hash,              *)
(* associativity and buffer length, and any number of samples.             *)
(*                                                                         *)
(* The inductive invariant is a conjunction of parts:                      *)
(*   ShapeInv   types, and the bounds of the arrays;                       *)
(*   OneEntryPerKey;                                                       *)
(*   FreshInv   an entry counts some samples, none of them of the future;  *)
(*   ApartInv   an entry is in one place, and a sample in one entry, over  *)
(*              the whole file and not only the part that is read;         *)
(*   WholeInv   the file has as many parts as were flushed, which holds    *)
(*              unless set_len fails, and which the refinement needs.      *)
(* That hot entries stay (HotKept) needs FreshInv, for counts to compare.  *)
(***************************************************************************)
EXTENDS Collector, FiniteSetTheorems, TLAPS

ShapeInv ==
  /\ CollectorTypeOK
  /\ \A b \in Buckets : IsFiniteSet(buckets[b])
  /\ IsFiniteSet(buffer)
  /\ flush_n <= Len(file)

-----------------------------------------------------------------------------
(* Finite sets                                                             *)

\* An element of a finite set gives way to another: no more elements than before.
LEMMA Replaced ==
  ASSUME NEW S, IsFiniteSet(S), NEW e \in S, NEW x
  PROVE  /\ IsFiniteSet((S \ {e}) \cup {x})
         /\ Cardinality((S \ {e}) \cup {x}) <= Cardinality(S)
<1>1. /\ IsFiniteSet(S \ {e})
      /\ Cardinality(S \ {e}) = Cardinality(S) - 1
  BY FS_RemoveElement
<1>2. /\ IsFiniteSet((S \ {e}) \cup {x})
      /\ \/ Cardinality((S \ {e}) \cup {x}) = Cardinality(S \ {e})
         \/ Cardinality((S \ {e}) \cup {x}) = Cardinality(S \ {e}) + 1
  BY <1>1, FS_AddElement
<1>3. Cardinality(S) \in Nat /\ Cardinality(S \ {e}) \in Nat
  BY <1>1, FS_CardinalityType
<1> QED
  BY <1>1, <1>2, <1>3

\* An element more: at most one more.
LEMMA Extended ==
  ASSUME NEW S, IsFiniteSet(S), NEW x
  PROVE  /\ IsFiniteSet(S \cup {x})
         /\ Cardinality(S \cup {x}) <= Cardinality(S) + 1
<1>1. /\ IsFiniteSet(S \cup {x})
      /\ \/ Cardinality(S \cup {x}) = Cardinality(S)
         \/ Cardinality(S \cup {x}) = Cardinality(S) + 1
  BY FS_AddElement
<1>2. Cardinality(S) \in Nat
  BY FS_CardinalityType
<1> QED
  BY <1>1, <1>2

\* A single element
LEMMA Single ==
  ASSUME NEW x
  PROVE  IsFiniteSet({x}) /\ Cardinality({x}) = 1
BY FS_Singleton

-----------------------------------------------------------------------------
(* The shape of the store                                                  *)

\* push keeps the buffer within its length, and at least as much is written as
\* is counted.
LEMMA PushShape ==
  ASSUME ShapeInv, NEW e \in Entry, Push(e)
  PROVE  /\ buffer' \subseteq Entry /\ IsFiniteSet(buffer')
         /\ Cardinality(buffer') <= BUFFER_LENGTH
         /\ flush_n' \in Nat /\ file' \in Seq(SUBSET Entry)
         /\ flush_n' <= Len(file')
<1> USE CollectorAssumption DEF ShapeInv, CollectorTypeOK
<1>1. CASE /\ Cardinality(buffer) < BUFFER_LENGTH
           /\ buffer' = buffer \cup {e}
           /\ UNCHANGED <<flush_n, file>>
  <2>1. IsFiniteSet(buffer') /\ Cardinality(buffer') <= Cardinality(buffer) + 1
    BY <1>1, Extended
  <2>2. Cardinality(buffer) \in Nat /\ Cardinality(buffer') \in Nat
    BY <2>1, FS_CardinalityType
  <2> QED
    BY <1>1, <2>1, <2>2
<1>2. CASE Flush(e)
  <2>1. CASE file' = Append(file, buffer) /\ buffer' = {e}
    <3>1. IsFiniteSet(buffer') /\ Cardinality(buffer') = 1
      BY <2>1, Single
    <3>2. flush_n' = flush_n + 1
      BY <1>2 DEF Flush
    <3>3. file' \in Seq(SUBSET Entry) /\ Len(file') = Len(file) + 1
      BY <2>1
    <3> QED
      BY <2>1, <3>1, <3>2, <3>3
  <2>2. CASE /\ \E part \in (SUBSET buffer) \ {buffer} : file' = Append(file, part)
             /\ buffer' = {}
    <3>1. IsFiniteSet(buffer') /\ Cardinality(buffer') = 0
      BY <2>2, FS_EmptySet
    <3>2. flush_n' = flush_n + 1
      BY <1>2 DEF Flush
    <3>3. file' \in Seq(SUBSET Entry) /\ Len(file') = Len(file) + 1
      BY <2>2
    <3> QED
      BY <2>2, <3>1, <3>2, <3>3
  <2> QED
    BY <1>2, <2>1, <2>2 DEF Flush
<1> QED
  BY <1>1, <1>2 DEF Push

\* A step that leaves TempFdArray alone only has to keep the buckets' shape.
LEMMA UntouchedArray ==
  ASSUME ShapeInv, UNCHANGED <<buffer, flush_n, file>>, clock' \in Nat,
         buckets' \in [Buckets -> SUBSET Entry],
         \A c \in Buckets : /\ IsFiniteSet(buckets'[c])
                            /\ Cardinality(buckets'[c]) <= BUCKETS_ASSOCIATIVITY
  PROVE  ShapeInv'
BY DEF ShapeInv, CollectorTypeOK

\* What a bucket becomes when it takes a sample
LEMMA AddShape ==
  ASSUME ShapeInv, NEW k \in Keys, Add(k)
  PROVE  ShapeInv'
<1> DEFINE b == BucketOf[k]
           new == [key |-> k, samples |-> {clock + 1}]
<1>1. b \in Buckets /\ clock \in Nat /\ clock' = clock + 1
  BY CollectorAssumption DEF Add, ShapeInv, CollectorTypeOK
<1>2. new \in Entry
  BY <1>1 DEF Entry
<1>3. buckets[b] \subseteq Entry /\ IsFiniteSet(buckets[b])
      /\ Cardinality(buckets[b]) \in Nat
  BY <1>1, FS_CardinalityType DEF ShapeInv, CollectorTypeOK
<1>4. ASSUME NEW S, S \subseteq Entry, IsFiniteSet(S),
             Cardinality(S) <= BUCKETS_ASSOCIATIVITY,
             buckets' = [buckets EXCEPT ![b] = S]
      PROVE  /\ buckets' \in [Buckets -> SUBSET Entry]
             /\ \A c \in Buckets : /\ IsFiniteSet(buckets'[c])
                                   /\ Cardinality(buckets'[c]) <= BUCKETS_ASSOCIATIVITY
  BY <1>1, <1>4 DEF ShapeInv, CollectorTypeOK
<1>5. CASE /\ UNCHANGED <<buffer, flush_n, file>>
           /\ \E e \in buckets[b] :
                buckets' = [buckets EXCEPT ![b] = (buckets[b] \ {e})
                  \cup {[e EXCEPT !.samples = e.samples \cup {clock + 1}]}]
  <2>1. PICK e \in buckets[b] :
          buckets' = [buckets EXCEPT ![b] = (buckets[b] \ {e})
            \cup {[e EXCEPT !.samples = e.samples \cup {clock + 1}]}]
    BY <1>5
  <2> DEFINE more == [e EXCEPT !.samples = e.samples \cup {clock + 1}]
             S == (buckets[b] \ {e}) \cup {more}
  <2>2. more \in Entry
    BY <1>1, <1>3 DEF Entry
  <2>3. IsFiniteSet(S) /\ Cardinality(S) <= Cardinality(buckets[b])
    BY <1>3, Replaced
  <2>4. S \subseteq Entry /\ Cardinality(S) \in Nat
    BY <1>3, <2>2, <2>3, FS_CardinalityType
  <2>5. Cardinality(S) <= BUCKETS_ASSOCIATIVITY
    BY <1>1, <1>3, <2>3, <2>4, CollectorAssumption DEF ShapeInv, CollectorTypeOK
  <2>6. /\ buckets' \in [Buckets -> SUBSET Entry]
        /\ \A c \in Buckets : /\ IsFiniteSet(buckets'[c])
                              /\ Cardinality(buckets'[c]) <= BUCKETS_ASSOCIATIVITY
    <3> HIDE DEF S
    <3> QED BY <2>1, <2>3, <2>4, <2>5, <1>4 DEF S
  <2>7. UNCHANGED <<buffer, flush_n, file>>
    BY <1>5
  <2> QED
    BY <1>1, <2>6, <2>7, UntouchedArray
<1>6. CASE /\ UNCHANGED <<buffer, flush_n, file>>
           /\ Cardinality(buckets[b]) < BUCKETS_ASSOCIATIVITY
           /\ buckets' = [buckets EXCEPT ![b] = buckets[b] \cup {new}]
  <2> DEFINE S == buckets[b] \cup {new}
  <2>1. IsFiniteSet(S) /\ Cardinality(S) <= Cardinality(buckets[b]) + 1
    BY <1>3, Extended
  <2>2. S \subseteq Entry /\ Cardinality(S) \in Nat
    BY <1>2, <1>3, <2>1, FS_CardinalityType
  <2>3. Cardinality(S) <= BUCKETS_ASSOCIATIVITY
    BY <1>3, <1>6, <2>1, <2>2, CollectorAssumption
  <2>4. /\ buckets' \in [Buckets -> SUBSET Entry]
        /\ \A c \in Buckets : /\ IsFiniteSet(buckets'[c])
                              /\ Cardinality(buckets'[c]) <= BUCKETS_ASSOCIATIVITY
    <3> HIDE DEF S
    <3> QED BY <1>6, <2>1, <2>2, <2>3, <1>4 DEF S
  <2> QED
    BY <1>1, <1>6, <2>4, UntouchedArray
<1>7. CASE \E e \in LeastCounted(buckets[b]) :
             /\ buckets' = [buckets EXCEPT ![b] = (buckets[b] \ {e}) \cup {new}]
             /\ Push(e)
  <2>1. PICK e \in buckets[b] :
          /\ buckets' = [buckets EXCEPT ![b] = (buckets[b] \ {e}) \cup {new}]
          /\ Push(e)
    BY <1>7 DEF LeastCounted
  <2> DEFINE S == (buckets[b] \ {e}) \cup {new}
  <2>2. IsFiniteSet(S) /\ Cardinality(S) <= Cardinality(buckets[b])
    BY <1>3, Replaced
  <2>3. S \subseteq Entry /\ Cardinality(S) \in Nat
    BY <1>2, <1>3, <2>2, FS_CardinalityType
  <2>4. Cardinality(S) <= BUCKETS_ASSOCIATIVITY
    BY <1>1, <1>3, <2>2, <2>3, CollectorAssumption DEF ShapeInv, CollectorTypeOK
  <2>5. /\ buckets' \in [Buckets -> SUBSET Entry]
        /\ \A c \in Buckets : /\ IsFiniteSet(buckets'[c])
                              /\ Cardinality(buckets'[c]) <= BUCKETS_ASSOCIATIVITY
    <3> HIDE DEF S
    <3> QED BY <2>1, <2>2, <2>3, <2>4, <1>4 DEF S
  <2>6. e \in Entry
    BY <1>3
  <2>7. /\ buffer' \subseteq Entry /\ IsFiniteSet(buffer')
        /\ Cardinality(buffer') <= BUFFER_LENGTH
        /\ flush_n' \in Nat /\ file' \in Seq(SUBSET Entry)
        /\ flush_n' <= Len(file')
    BY <2>1, <2>6, PushShape
  <2> QED
    BY <1>1, <2>5, <2>7 DEF ShapeInv, CollectorTypeOK
<1> QED
  BY <1>5, <1>6, <1>7 DEF Add, BucketAdd

\* Clearing leaves everything empty but, when set_len fails, the file.
LEMMA ClearShape ==
  ASSUME ShapeInv, Clear
  PROVE  ShapeInv'
<1>1. IsFiniteSet({}) /\ Cardinality({}) = 0
  BY FS_EmptySet
<1>2. /\ buckets' = [b \in Buckets |-> {}] /\ buffer' = {} /\ flush_n' = 0
      /\ clock' = clock
  BY DEF Clear, ClearOk, ClearFails, ClearMemory, EmptyBuckets
<1>3. file' \in Seq(SUBSET Entry) /\ Len(file') \in Nat
  <2>1. file' = <<>> \/ file' = file
    BY DEF Clear, ClearOk, ClearFails
  <2>2. file \in Seq(SUBSET Entry)
    BY DEF ShapeInv, CollectorTypeOK
  <2>3. <<>> \in Seq(SUBSET Entry) /\ Len(<<>>) = 0
    OBVIOUS
  <2>4. CASE file' = <<>>
    BY <2>3, <2>4
  <2>5. CASE file' = file
    BY <2>2, <2>5
  <2> QED
    BY <2>1, <2>4, <2>5
<1>4. /\ buckets' \in [Buckets -> SUBSET Entry]
      /\ \A b \in Buckets : buckets'[b] = {}
  BY <1>2
<1>5. clock' \in Nat /\ flush_n' \in Nat /\ flush_n' <= Len(file')
  BY <1>2, <1>3 DEF ShapeInv, CollectorTypeOK
<1>6. /\ IsFiniteSet(buffer') /\ Cardinality(buffer') <= BUFFER_LENGTH
      /\ \A b \in Buckets : /\ IsFiniteSet(buckets'[b])
                            /\ Cardinality(buckets'[b]) <= BUCKETS_ASSOCIATIVITY
  BY <1>1, <1>2, <1>4, CollectorAssumption
<1> QED
  BY <1>2, <1>3, <1>4, <1>5, <1>6 DEF ShapeInv, CollectorTypeOK

LEMMA ShapeInit == CollectorInit => ShapeInv
<1>1. IsFiniteSet({}) /\ Cardinality({}) = 0
  BY FS_EmptySet
<1> QED
  BY <1>1, CollectorAssumption
  DEF CollectorInit, EmptyBuckets, ShapeInv, CollectorTypeOK

LEMMA ShapeStep == ShapeInv /\ [CollectorNext]_collectorVars => ShapeInv'
<1> SUFFICES ASSUME ShapeInv, [CollectorNext]_collectorVars
             PROVE  ShapeInv'
  OBVIOUS
<1>1. CASE Clear
  BY <1>1, ClearShape
<1>2. ASSUME NEW k \in Keys, Add(k) PROVE ShapeInv'
  BY <1>2, AddShape
<1>3. CASE UNCHANGED collectorVars
  BY <1>3 DEF collectorVars, storeVars, ShapeInv, CollectorTypeOK
<1> QED
  BY <1>1, <1>2, <1>3 DEF CollectorNext

\* The types, the bucket's bound (BUCKETS_ASSOCIATIVITY) and the buffer's
\* (BUFFER_LENGTH): no index of the code's arrays is ever out of range.
THEOREM ArraysInBounds == CollectorSpec => []CollectorTypeOK
<1>1. ShapeInv => CollectorTypeOK
  BY DEF ShapeInv
<1> QED
  BY ShapeInit, ShapeStep, <1>1, PTL DEF CollectorSpec

-----------------------------------------------------------------------------
(* One entry for a backtrace                                               *)

\* What a bucket may become
KeyedBucket(b, S) ==
  /\ \A x \in S : BucketOf[x.key] = b
  /\ \A x, y \in S : x.key = y.key => x = y

LEMMA OneBucket ==
  ASSUME ShapeInv, OneEntryPerKey, NEW b \in Buckets, NEW S, KeyedBucket(b, S),
         buckets' = [buckets EXCEPT ![b] = S]
  PROVE  OneEntryPerKey'
<1>1. \A c \in Buckets : buckets'[c] = IF c = b THEN S ELSE buckets[c]
  BY DEF ShapeInv, CollectorTypeOK
<1>2. \A c \in Buckets : KeyedBucket(c, buckets'[c])
  BY <1>1 DEF KeyedBucket, OneEntryPerKey
<1> QED
  BY <1>2 DEF KeyedBucket, OneEntryPerKey

\* add() counts in the entry of the same backtrace, and makes a new one only
\* if there is none in the bucket.
LEMMA KeyStep ==
  ShapeInv /\ OneEntryPerKey /\ [CollectorNext]_collectorVars => OneEntryPerKey'
<1> SUFFICES ASSUME ShapeInv, OneEntryPerKey, [CollectorNext]_collectorVars
             PROVE  OneEntryPerKey'
  OBVIOUS
<1>1. CASE Clear
  <2>1. \A c \in Buckets : buckets'[c] = {}
    BY <1>1 DEF Clear, ClearOk, ClearFails, ClearMemory, EmptyBuckets
  <2> QED
    BY <2>1 DEF OneEntryPerKey
<1>2. ASSUME NEW k \in Keys, Add(k) PROVE OneEntryPerKey'
  <2> DEFINE b == BucketOf[k]
             new == [key |-> k, samples |-> {clock + 1}]
  <2>1. b \in Buckets /\ KeyedBucket(b, buckets[b])
    BY CollectorAssumption DEF KeyedBucket, OneEntryPerKey
  <2>2. CASE \E e \in buckets[b] :
               /\ e.key = k
               /\ buckets' = [buckets EXCEPT ![b] = (buckets[b] \ {e})
                    \cup {[e EXCEPT !.samples = e.samples \cup {clock + 1}]}]
    <3>1. PICK e \in buckets[b] :
            /\ e.key = k
            /\ buckets' = [buckets EXCEPT ![b] = (buckets[b] \ {e})
                 \cup {[e EXCEPT !.samples = e.samples \cup {clock + 1}]}]
      BY <2>2
    <3> DEFINE more == [e EXCEPT !.samples = e.samples \cup {clock + 1}]
    <3>2. e \in Entry
      BY <2>1 DEF ShapeInv, CollectorTypeOK
    <3>3. more.key = k
      BY <3>1, <3>2 DEF Entry
    <3> HIDE DEF more
    <3>4. KeyedBucket(b, (buckets[b] \ {e}) \cup {more})
      BY <2>1, <3>1, <3>3 DEF KeyedBucket
    <3> QED
      BY <2>1, <3>1, <3>4, OneBucket DEF more
  <2>3. CASE /\ ~Merges(buckets[b], k)
             /\ \E left \in SUBSET buckets[b] :
                  buckets' = [buckets EXCEPT ![b] = left \cup {new}]
    <3>1. PICK left \in SUBSET buckets[b] :
            buckets' = [buckets EXCEPT ![b] = left \cup {new}]
      BY <2>3
    <3>2. /\ new.key = k /\ BucketOf[k] = b
          /\ \A x \in left : x \in buckets[b] /\ x.key # k
      BY <2>3 DEF Merges
    <3> HIDE DEF new, b
    <3>3. \A x \in left \cup {new} : BucketOf[x.key] = b
      BY <2>1, <3>2 DEF KeyedBucket
    <3>4. \A x, y \in left \cup {new} : x.key = y.key => x = y
      BY <2>1, <3>2 DEF KeyedBucket
    <3>5. KeyedBucket(b, left \cup {new})
      BY <3>3, <3>4 DEF KeyedBucket
    <3> QED
      BY <2>1, <3>1, <3>5, OneBucket
  <2>4. CASE Merges(buckets[b], k)
    BY <1>2, <2>2, <2>4 DEF Add, BucketAdd
  <2>5. CASE ~Merges(buckets[b], k)
    <3>1. \/ buckets' = [buckets EXCEPT ![b] = buckets[b] \cup {new}]
          \/ \E e \in buckets[b] :
               buckets' = [buckets EXCEPT ![b] = (buckets[b] \ {e}) \cup {new}]
      BY <1>2, <2>5 DEF Add, BucketAdd, LeastCounted
    <3> QED
      BY <2>3, <2>5, <3>1
  <2> QED
    BY <2>4, <2>5
<1>3. CASE UNCHANGED collectorVars
  BY <1>3 DEF collectorVars, storeVars, OneEntryPerKey
<1> QED
  BY <1>1, <1>2, <1>3 DEF CollectorNext

\* HashCounter::add never makes a second entry of a backtrace in memory's map.
THEOREM OneEntryInMemory == CollectorSpec => []OneEntryPerKey
<1>1. CollectorInit => OneEntryPerKey
  BY DEF CollectorInit, EmptyBuckets, OneEntryPerKey
<1> QED
  BY ShapeInit, ShapeStep, KeyStep, <1>1, PTL DEF CollectorSpec

-----------------------------------------------------------------------------
(* A sample in one place                                                   *)

InFile == UNION {file[i] : i \in 1..Len(file)}

\* Entries of three disjoint places, of which no two count the same sample
Apart(R, B, F) ==
  /\ \A e, f \in R \cup B \cup F : e.samples \cap f.samples # {} => e = f
  /\ R \cap (B \cup F) = {}
  /\ B \cap F = {}

\* Entries that count samples, and only samples up to number n
Counting(S, n) == \A e \in S : e.samples # {} /\ e.samples \subseteq 1..n

FreshInv == Counting(Resident \cup buffer \cup InFile, clock)

ApartInv ==
  /\ Apart(Resident, buffer, InFile)
  /\ \A i, j \in 1..Len(file) : file[i] \cap file[j] # {} => i = j

\* A new sample has an entry of its own.
LEMMA ApartNew ==
  ASSUME NEW R, NEW B, NEW F, NEW n, Apart(R, B, F),
         \A e \in R \cup B \cup F : n \notin e.samples,
         NEW new, new.samples = {n}
  PROVE  Apart(R \cup {new}, B, F)
BY DEF Apart

\* A new sample is counted by an entry that stays where it is.
LEMMA ApartMore ==
  ASSUME NEW R, NEW B, NEW F, NEW n, Apart(R, B, F),
         \A e \in R \cup B \cup F : n \notin e.samples,
         NEW e \in R, NEW more, more.samples = e.samples \cup {n}
  PROVE  Apart((R \ {e}) \cup {more}, B, F)
<1>1. ASSUME NEW f \in (R \ {e}) \cup B \cup F
      PROVE  f.samples \cap more.samples = {} /\ f # more
  <2>1. f # e
    BY <1>1 DEF Apart
  <2>2. f.samples \cap e.samples = {} /\ n \notin f.samples
    BY <1>1, <2>1 DEF Apart
  <2> QED
    BY <2>2
<1> QED
  BY <1>1 DEF Apart

\* An entry leaves memory's map, for the buffer or for good, while some of
\* the buffer goes to the file, or none of it.
LEMMA ApartEvicted ==
  ASSUME NEW R, NEW B, NEW F, Apart(R, B, F), NEW e \in R,
         NEW part \in SUBSET B, NEW B2,
         B2 \subseteq {e} \/ (part = {} /\ B2 = B \cup {e})
  PROVE  Apart(R \ {e}, B2, F \cup part)
<1>1. e \notin B \cup F
  BY DEF Apart
<1>2. /\ B2 \subseteq B \cup {e}
      /\ B2 \cap (F \cup part) = {}
  BY <1>1 DEF Apart
<1> QED
  BY <1>1, <1>2 DEF Apart

\* What a push does to the buffer and the file
LEMMA PushMoves ==
  ASSUME ShapeInv, NEW e, Push(e)
  PROVE  \/ file' = file /\ buffer' = buffer \cup {e}
         \/ \E part \in SUBSET buffer :
              file' = Append(file, part) /\ buffer' \subseteq {e}
<1>1. CASE UNCHANGED file /\ buffer' = buffer \cup {e}
  BY <1>1
<1>2. CASE file' = Append(file, buffer) /\ buffer' = {e}
  BY <1>2
<1>3. CASE /\ \E part \in (SUBSET buffer) \ {buffer} : file' = Append(file, part)
           /\ buffer' = {}
  BY <1>3
<1> QED
  BY <1>1, <1>2, <1>3 DEF Push, Flush

\* One more buffer in the file: its entries are those of the file and its own,
\* and it shares none with the buffers before it.
LEMMA Appended ==
  ASSUME ShapeInv, ApartInv, NEW part \in SUBSET buffer,
         file' = Append(file, part)
  PROVE  /\ InFile' = InFile \cup part
         /\ \A i, j \in 1..Len(file') : file'[i] \cap file'[j] # {} => i = j
<1>1. file \in Seq(SUBSET Entry) /\ part \subseteq Entry
  BY DEF ShapeInv, CollectorTypeOK
<1>2. /\ Len(file) \in Nat /\ Len(file') = Len(file) + 1
      /\ \A i \in 1..Len(file) : file'[i] = file[i]
      /\ file'[Len(file) + 1] = part
  BY <1>1
<1>3. 1..Len(file') = (1..Len(file)) \cup {Len(file) + 1}
  BY <1>2
<1>4. InFile' = InFile \cup part
  BY <1>2, <1>3 DEF InFile
<1>5. \A i \in 1..Len(file) : file[i] \cap part = {}
  BY DEF ApartInv, Apart, InFile
<1> QED
  BY <1>2, <1>3, <1>4, <1>5 DEF ApartInv

\* A sample that is being accepted is in no entry yet.
LEMMA NotYet ==
  ASSUME ShapeInv, FreshInv
  PROVE  \A e \in Resident \cup buffer \cup InFile : clock + 1 \notin e.samples
<1>1. clock \in Nat
  BY DEF ShapeInv, CollectorTypeOK
<1> QED
  BY <1>1 DEF FreshInv, Counting

\* Memory's map, when some entries of one bucket give way to one
LEMMA ResidentAfter ==
  ASSUME ShapeInv, OneEntryPerKey, NEW b \in Buckets,
         NEW gone \in SUBSET buckets[b], NEW x,
         buckets' = [buckets EXCEPT ![b] = (buckets[b] \ gone) \cup {x}]
  PROVE  Resident' = (Resident \ gone) \cup {x}
<1>1. \A c \in Buckets :
        buckets'[c] = IF c = b THEN (buckets[b] \ gone) \cup {x} ELSE buckets[c]
  BY DEF ShapeInv, CollectorTypeOK
<1>2. \A c \in Buckets : c # b => buckets[c] \cap gone = {}
  BY DEF OneEntryPerKey
<1> QED
  BY <1>1, <1>2 DEF Resident

\* A sample that is accepted is counted once, and no other sample twice.
LEMMA AddApart ==
  ASSUME ShapeInv, OneEntryPerKey, FreshInv, ApartInv, NEW k \in Keys, Add(k)
  PROVE  FreshInv' /\ ApartInv'
<1> DEFINE b == BucketOf[k]
           n == clock + 1
           new == [key |-> k, samples |-> {n}]
           Old == Resident \cup buffer \cup InFile
<1>1. b \in Buckets /\ clock \in Nat /\ clock' = n
  BY CollectorAssumption DEF Add, ShapeInv, CollectorTypeOK
<1>2. \A e \in Old : n \notin e.samples
  BY NotYet
<1>3. Counting(Old, n)
  BY <1>1 DEF FreshInv, Counting
<1>4. new.samples = {n} /\ Counting({new}, n)
  BY <1>1 DEF Counting
<1>5. buckets[b] \subseteq Resident /\ buckets[b] \subseteq Entry
  BY <1>1 DEF Resident, ShapeInv, CollectorTypeOK
<1>6. CASE /\ UNCHANGED <<buffer, flush_n, file>>
           /\ \E e \in buckets[b] :
                buckets' = [buckets EXCEPT ![b] = (buckets[b] \ {e})
                  \cup {[e EXCEPT !.samples = e.samples \cup {n}]}]
  <2>1. PICK e \in buckets[b] :
          buckets' = [buckets EXCEPT ![b] = (buckets[b] \ {e})
            \cup {[e EXCEPT !.samples = e.samples \cup {n}]}]
    BY <1>6
  <2> DEFINE more == [e EXCEPT !.samples = e.samples \cup {n}]
  <2>2. e \in Entry /\ e \in Resident
    BY <1>5
  <2>3. more.samples = e.samples \cup {n}
    BY <2>2 DEF Entry
  <2>4. Resident' = (Resident \ {e}) \cup {more}
    <3>1. buckets' = [buckets EXCEPT ![b] = (buckets[b] \ {e}) \cup {more}]
      BY <2>1
    <3>2. {e} \in SUBSET buckets[b]
      BY <2>1
    <3> HIDE DEF more, b
    <3> QED BY <1>1, <3>1, <3>2, ResidentAfter
  <2>5. buffer' = buffer /\ InFile' = InFile /\ file' = file
    BY <1>6 DEF InFile
  <2> HIDE DEF more
  <2>6. Apart(Resident', buffer, InFile)
    BY <1>2, <2>2, <2>3, <2>4, ApartMore DEF ApartInv
  <2>7. Counting({more}, n)
    BY <1>1, <1>3, <2>2, <2>3 DEF Counting
  <2>8. Counting(Resident' \cup buffer \cup InFile, n)
    BY <1>3, <2>4, <2>7 DEF Counting
  <2> QED
    BY <1>1, <2>5, <2>6, <2>8 DEF FreshInv, ApartInv
<1>7. CASE /\ UNCHANGED <<buffer, flush_n, file>>
           /\ buckets' = [buckets EXCEPT ![b] = buckets[b] \cup {new}]
  <2>1. Resident' = Resident \cup {new}
    <3>1. buckets' = [buckets EXCEPT ![b] = (buckets[b] \ {}) \cup {new}]
      BY <1>7
    <3> HIDE DEF new, b
    <3>2. Resident' = (Resident \ {}) \cup {new}
      BY <1>1, <3>1, ResidentAfter
    <3> QED BY <3>2
  <2>2. buffer' = buffer /\ InFile' = InFile /\ file' = file
    BY <1>7 DEF InFile
  <2> HIDE DEF new
  <2>3. Apart(Resident', buffer, InFile)
    BY <1>2, <1>4, <2>1, ApartNew DEF ApartInv
  <2>4. Counting(Resident' \cup buffer \cup InFile, n)
    BY <1>3, <1>4, <2>1 DEF Counting
  <2> QED
    BY <1>1, <2>2, <2>3, <2>4 DEF FreshInv, ApartInv
<1>8. CASE \E e \in LeastCounted(buckets[b]) :
             /\ buckets' = [buckets EXCEPT ![b] = (buckets[b] \ {e}) \cup {new}]
             /\ Push(e)
  <2>1. PICK e \in buckets[b] :
          /\ buckets' = [buckets EXCEPT ![b] = (buckets[b] \ {e}) \cup {new}]
          /\ Push(e)
    BY <1>8 DEF LeastCounted
  <2>2. e \in Resident
    BY <1>5
  <2>3. Resident' = (Resident \ {e}) \cup {new}
    <3>1. {e} \in SUBSET buckets[b]
      BY <2>1
    <3> HIDE DEF new, b
    <3> QED BY <1>1, <2>1, <3>1, ResidentAfter
  <2>4. ASSUME NEW part \in SUBSET buffer,
               buffer' \subseteq {e} \/ (part = {} /\ buffer' = buffer \cup {e}),
               InFile' = InFile \cup part,
               \A i, j \in 1..Len(file') : file'[i] \cap file'[j] # {} => i = j
        PROVE  FreshInv' /\ ApartInv'
    <3> HIDE DEF new
    <3>1. Apart(Resident \ {e}, buffer', InFile')
      BY <2>2, <2>4, ApartEvicted DEF ApartInv
    <3>2. (Resident \ {e}) \cup buffer' \cup InFile' \subseteq Old
      BY <2>2, <2>4
    <3>3. Apart(Resident', buffer', InFile')
      BY <1>2, <1>4, <2>3, <3>1, <3>2, ApartNew
    <3>4. Counting(Resident' \cup buffer' \cup InFile', n)
      BY <1>3, <1>4, <2>3, <3>2 DEF Counting
    <3> QED
      BY <1>1, <2>4, <3>3, <3>4 DEF FreshInv, ApartInv
  <2>5. CASE file' = file /\ buffer' = buffer \cup {e}
    <3>1. InFile' = InFile \cup {}
      BY <2>5 DEF InFile
    <3>2. \A i, j \in 1..Len(file') : file'[i] \cap file'[j] # {} => i = j
      BY <2>5 DEF ApartInv
    <3> QED
      BY <2>4, <2>5, <3>1, <3>2
  <2>6. CASE \E part \in SUBSET buffer :
               file' = Append(file, part) /\ buffer' \subseteq {e}
    <3>1. PICK part \in SUBSET buffer :
            file' = Append(file, part) /\ buffer' \subseteq {e}
      BY <2>6
    <3>2. /\ InFile' = InFile \cup part
          /\ \A i, j \in 1..Len(file') : file'[i] \cap file'[j] # {} => i = j
      BY <3>1, Appended
    <3>3. buffer' \subseteq {e} \/ (part = {} /\ buffer' = buffer \cup {e})
      BY <3>1
    <3> QED
      BY <2>4, <3>2, <3>3
  <2> QED
    BY <2>1, <2>5, <2>6, PushMoves
<1> QED
  BY <1>6, <1>7, <1>8 DEF Add, BucketAdd

LEMMA ApartStep ==
  ShapeInv /\ OneEntryPerKey /\ FreshInv /\ ApartInv /\ [CollectorNext]_collectorVars
    => FreshInv' /\ ApartInv'
<1> SUFFICES ASSUME ShapeInv, OneEntryPerKey, FreshInv, ApartInv,
                    [CollectorNext]_collectorVars
             PROVE  FreshInv' /\ ApartInv'
  OBVIOUS
<1>1. CASE Clear
  <2>1. Resident' = {} /\ buffer' = {} /\ clock' = clock
    BY <1>1 DEF Clear, ClearOk, ClearFails, ClearMemory, EmptyBuckets, Resident
  <2>2. file' = <<>> \/ file' = file
    BY <1>1 DEF Clear, ClearOk, ClearFails
  <2>3. CASE file' = <<>>
    <3>1. InFile' = {} /\ 1..Len(file') = {}
      BY <2>3 DEF InFile
    <3> QED
      BY <2>1, <3>1 DEF FreshInv, Counting, ApartInv, Apart
  <2>4. CASE file' = file
    <3>1. InFile' = InFile
      BY <2>4 DEF InFile
    <3> QED
      BY <2>1, <2>4, <3>1 DEF FreshInv, Counting, ApartInv, Apart
  <2> QED
    BY <2>2, <2>3, <2>4
<1>2. ASSUME NEW k \in Keys, Add(k) PROVE FreshInv' /\ ApartInv'
  BY <1>2, AddApart
<1>3. CASE UNCHANGED collectorVars
  <2>1. Resident' = Resident /\ InFile' = InFile
    BY <1>3 DEF collectorVars, storeVars, Resident, InFile
  <2>2. buffer' = buffer /\ file' = file /\ clock' = clock
    BY <1>3 DEF collectorVars, storeVars
  <2>3. FreshInv'
    BY <2>1, <2>2 DEF FreshInv
  <2>4. ApartInv'
    BY <2>1, <2>2 DEF ApartInv
  <2> QED BY <2>3, <2>4
<1> QED
  BY <1>1, <1>2, <1>3 DEF CollectorNext

\* What try_iter reads of the file is in the file.
LEMMA ApartImplies == ShapeInv /\ FreshInv /\ ApartInv => NoSampleTwice
<1> SUFFICES ASSUME ShapeInv, FreshInv, ApartInv
             PROVE  NoSampleTwice
  OBVIOUS
<1>1. 1..flush_n \subseteq 1..Len(file)
  BY DEF ShapeInv, CollectorTypeOK
<1>2. Flushed \subseteq InFile
  BY <1>1 DEF Flushed, InFile
<1> QED
  BY <1>1, <1>2 DEF ApartInv, Apart, NoSampleTwice, Yielded

\* No sample is counted by two entries, nor an entry read from two places,
\* whatever has been evicted, flushed or cleared and whichever calls failed.
THEOREM CountedOnce == CollectorSpec => []NoSampleTwice
<1>1. CollectorInit => FreshInv /\ ApartInv
  BY DEF CollectorInit, EmptyBuckets, FreshInv, Counting, ApartInv, Apart,
         Resident, InFile
<1> QED
  BY ShapeInit, ShapeStep, OneEntryInMemory, ApartStep, ApartImplies, <1>1, PTL
  DEF CollectorSpec

-----------------------------------------------------------------------------
(* What is evicted                                                         *)

\* The counts of memory's entries can be compared.
LEMMA CountIsNat ==
  ASSUME ShapeInv, FreshInv, NEW b \in Buckets, NEW e \in buckets[b]
  PROVE  Count(e) \in Nat
<1>1. clock \in Nat /\ e \in Resident
  BY DEF ShapeInv, CollectorTypeOK, Resident
<1>2. e.samples \subseteq 1..clock
  BY <1>1 DEF FreshInv, Counting
<1>3. IsFiniteSet(e.samples)
  <2>1. IsFiniteSet(1..clock)
    BY <1>1, FS_Interval
  <2> QED
    BY <1>2, <2>1, FS_Subset
<1> QED
  BY <1>3, FS_CardinalityType DEF Count

\* What a step leaves of a bucket: all its backtraces, none, or all but a
\* least counted one.
LEMMA AddLeaves ==
  ASSUME ShapeInv, NEW k \in Keys, Add(k), NEW b \in Buckets, NEW e \in buckets[b]
  PROVE  e \in LeastCounted(buckets[b]) \/ \E g \in buckets'[b] : g.key = e.key
<1> DEFINE c == BucketOf[k]
           new == [key |-> k, samples |-> {clock + 1}]
<1>1. /\ c \in Buckets /\ DOMAIN buckets = Buckets
      /\ \A d \in buckets[c] : d \in Entry
  BY CollectorAssumption DEF ShapeInv, CollectorTypeOK
<1>2. CASE b # c
  <2>1. buckets'[b] = buckets[b]
    BY <1>2 DEF Add, BucketAdd, ShapeInv, CollectorTypeOK
  <2> QED
    BY <2>1
<1>3. CASE b = c /\ Merges(buckets[b], k)
  <2>1. PICK d \in buckets[c] :
          buckets' = [buckets EXCEPT ![c] = (buckets[c] \ {d})
            \cup {[d EXCEPT !.samples = d.samples \cup {clock + 1}]}]
    BY <1>3 DEF Add, BucketAdd
  <2> DEFINE more == [d EXCEPT !.samples = d.samples \cup {clock + 1}]
  <2>2. more.key = d.key
    BY <1>1, <2>1 DEF Entry
  <2> HIDE DEF more
  <2>3. buckets'[b] = (buckets[b] \ {d}) \cup {more}
    BY <1>1, <1>3, <2>1 DEF more, ShapeInv, CollectorTypeOK
  <2> QED
    BY <2>2, <2>3
<1>4. CASE b = c /\ ~Merges(buckets[b], k)
  <2>1. \/ buckets' = [buckets EXCEPT ![c] = buckets[c] \cup {new}]
        \/ \E d \in LeastCounted(buckets[c]) :
             buckets' = [buckets EXCEPT ![c] = (buckets[c] \ {d}) \cup {new}]
    BY <1>4 DEF Add, BucketAdd
  <2> HIDE DEF new
  <2>2. \/ buckets'[b] = buckets[b] \cup {new}
        \/ \E d \in LeastCounted(buckets[b]) :
             buckets'[b] = (buckets[b] \ {d}) \cup {new}
    BY <1>1, <1>4, <2>1 DEF ShapeInv, CollectorTypeOK
  <2> QED
    BY <2>2
<1> QED
  BY <1>2, <1>3, <1>4

\* HashCounter::add evicts no backtrace that has been seen more often than
\* another of its bucket: the entries that merge most stay in memory.
THEOREM HotKept == CollectorSpec => HotEntriesStay
<1> DEFINE Stay == \A b \in Buckets : \A e, f \in buckets[b] :
                     buckets'[b] # {} /\ Count(f) < Count(e)
                       => \E g \in buckets'[b] : g.key = e.key
<1>1. ASSUME ShapeInv, FreshInv, [CollectorNext]_collectorVars
      PROVE  [Stay]_collectorVars
  <2>1. ASSUME NEW k \in Keys, Add(k), NEW b \in Buckets,
               NEW e \in buckets[b], NEW f \in buckets[b], Count(f) < Count(e)
        PROVE  \E g \in buckets'[b] : g.key = e.key
    <3>1. e \notin LeastCounted(buckets[b])
      BY <1>1, <2>1, CountIsNat DEF LeastCounted
    <3> QED
      BY <1>1, <2>1, <3>1, AddLeaves
  <2>2. CASE Clear
    BY <2>2 DEF Clear, ClearOk, ClearFails, ClearMemory, EmptyBuckets
  <2> QED
    BY <1>1, <2>1, <2>2 DEF CollectorNext
<1>2. CollectorInit => FreshInv /\ ApartInv
  BY DEF CollectorInit, EmptyBuckets, FreshInv, Counting, ApartInv, Apart,
         Resident, InFile
<1> QED
  BY ShapeInit, ShapeStep, OneEntryInMemory, ApartStep, <1>1, <1>2, PTL
  DEF CollectorSpec, HotEntriesStay

-----------------------------------------------------------------------------
(* Collector implements SampleStore                                        *)

\* The samples that entries count, with their backtraces
Pairs(S) == UNION {{e.key} \X e.samples : e \in S}

HeldNow == IF Readable THEN Pairs(Yielded) ELSE {}

\* Without a failing set_len, the file holds what flush_n tells.
WholeInv == flush_n = Len(file)

StoreInv == /\ ShapeInv /\ OneEntryPerKey /\ WholeInv

\* A failing write leaves the file short, and it stays short.
LEMMA WholeStep ==
  ASSUME Fault # "set_len", ShapeInv, WholeInv, [CollectorNext]_collectorVars
  PROVE  WholeInv'
<1>1. CASE Clear
  <2>1. flush_n' = 0 /\ file' = <<>>
    BY <1>1 DEF Clear, ClearOk, ClearFails, ClearMemory
  <2> QED
    BY <2>1 DEF WholeInv
<1>2. ASSUME NEW e, Push(e) PROVE WholeInv'
  <2>1. file \in Seq(SUBSET Entry) /\ buffer \in SUBSET Entry
    BY DEF ShapeInv, CollectorTypeOK
  <2>2. CASE UNCHANGED <<flush_n, file>>
    BY <2>2 DEF WholeInv
  <2>3. CASE Flush(e)
    <3>1. flush_n' = flush_n + 1
      BY <2>3 DEF Flush
    <3>2. PICK part \in SUBSET buffer : file' = Append(file, part)
      BY <2>3 DEF Flush
    <3>3. Len(file') = Len(file) + 1
      BY <2>1, <3>2
    <3> QED
      BY <3>1, <3>3 DEF WholeInv
  <2> QED
    BY <1>2, <2>2, <2>3 DEF Push
<1>3. ASSUME NEW k \in Keys, Add(k) PROVE WholeInv'
  <2>1. UNCHANGED <<flush_n, file>> \/ \E e \in buckets[BucketOf[k]] : Push(e)
    BY <1>3 DEF Add, BucketAdd, LeastCounted
  <2> QED
    BY <1>2, <2>1 DEF WholeInv
<1>4. CASE UNCHANGED collectorVars
  BY <1>4 DEF collectorVars, storeVars, WholeInv
<1> QED
  BY <1>1, <1>3, <1>4 DEF CollectorNext

\* How a push changes what is read: nothing when it is stored, everything for
\* good when it is not.
LEMMA PushReads ==
  ASSUME ShapeInv, WholeInv, NEW e, Push(e)
  PROVE  \/ /\ Readable' = Readable
            /\ buffer' \cup Flushed' = buffer \cup Flushed \cup {e}
         \/ ~Readable'
<1>1. file \in Seq(SUBSET Entry) /\ buffer \in SUBSET Entry /\ Len(file) \in Nat
  BY DEF ShapeInv, CollectorTypeOK
<1>2. CASE UNCHANGED <<flush_n, file>> /\ buffer' = buffer \cup {e}
  BY <1>2 DEF Readable, Flushed
<1>3. ASSUME NEW part \in SUBSET buffer, file' = Append(file, part),
             flush_n' = flush_n + 1
      PROVE  /\ Readable' <=> Readable /\ Cardinality(part) = BUFFER_LENGTH
             /\ Flushed' = Flushed \cup part
  <2>1. /\ Len(file') = Len(file) + 1
        /\ \A i \in 1..Len(file) : file'[i] = file[i]
        /\ file'[Len(file) + 1] = part
    BY <1>1, <1>3
  <2>2. flush_n = Len(file) /\ flush_n' = Len(file) + 1
    BY <1>3 DEF WholeInv
  <2>3. 1..flush_n' = (1..Len(file)) \cup {Len(file) + 1}
    BY <1>1, <2>2
  <2>4. Flushed' = Flushed \cup part
    BY <2>1, <2>2, <2>3 DEF Flushed
  <2>5. flush_n <= Len(file) /\ flush_n' <= Len(file')
    BY <1>1, <2>1, <2>2
  <2>6. Readable' <=> Readable /\ Cardinality(part) = BUFFER_LENGTH
    BY <2>1, <2>2, <2>3, <2>5 DEF Readable
  <2> QED
    BY <2>4, <2>6
<1>4. CASE /\ Cardinality(buffer) >= BUFFER_LENGTH
           /\ flush_n' = flush_n + 1
           /\ file' = Append(file, buffer) /\ buffer' = {e}
  <2>1. Cardinality(buffer) = BUFFER_LENGTH
    BY <1>4, FS_CardinalityType, CollectorAssumption DEF ShapeInv, CollectorTypeOK
  <2>2. /\ Readable' <=> Readable /\ Cardinality(buffer) = BUFFER_LENGTH
        /\ Flushed' = Flushed \cup buffer
    BY <1>3, <1>4
  <2> QED
    BY <1>4, <2>1, <2>2 DEF Readable
<1>5. CASE /\ flush_n' = flush_n + 1
           /\ \E part \in (SUBSET buffer) \ {buffer} : file' = Append(file, part)
  <2>1. PICK part \in (SUBSET buffer) \ {buffer} : file' = Append(file, part)
    BY <1>5
  <2> DEFINE size == Cardinality(buffer)
  <2>2. /\ IsFiniteSet(buffer) /\ IsFiniteSet(part)
        /\ Cardinality(part) <= size /\ Cardinality(part) # size
    <3>1. IsFiniteSet(buffer) /\ part \in SUBSET buffer /\ part # buffer
      BY <2>1 DEF ShapeInv
    <3> QED
      BY <3>1, FS_Subset
  <2>3. Cardinality(part) \in Nat /\ size \in Nat
    BY <2>2, FS_CardinalityType
  <2>4. Cardinality(part) # BUFFER_LENGTH
    BY <2>2, <2>3, CollectorAssumption DEF ShapeInv, CollectorTypeOK
  <2>5. Readable' <=> Readable /\ Cardinality(part) = BUFFER_LENGTH
    BY <1>3, <1>5, <2>1
  <2> QED
    BY <2>4, <2>5
<1> QED
  BY <1>2, <1>4, <1>5 DEF Push, Flush

\* What is unreadable stays so until it is cleared.
LEMMA PushStuck ==
  ASSUME ShapeInv, WholeInv, NEW e, Push(e), ~Readable
  PROVE  ~Readable'
BY PushReads

\* An accepted sample is yielded with the others, or nothing is any more.
LEMMA AddHeld ==
  ASSUME StoreInv, NEW k \in Keys, Add(k)
  PROVE  \/ /\ Readable' = Readable
            /\ Pairs(Yielded') = Pairs(Yielded) \cup {<<k, clock + 1>>}
         \/ ~Readable'
<1> DEFINE b == BucketOf[k]
           n == clock + 1
           new == [key |-> k, samples |-> {n}]
<1>1. b \in Buckets /\ buckets[b] \subseteq Resident /\ buckets[b] \subseteq Entry
  BY CollectorAssumption
  DEF StoreInv, ShapeInv, CollectorTypeOK, Resident
<1>2. ASSUME NEW S PROVE Pairs(S \cup {new}) = Pairs(S) \cup {<<k, n>>}
  <2>1. {new.key} \X new.samples = {<<k, n>>}
    OBVIOUS
  <2>2. \A e : e \in S \cup {new} <=> e \in S \/ e = new
    OBVIOUS
  <2> HIDE DEF new, n
  <2>3. Pairs(S \cup {new}) = Pairs(S) \cup ({new.key} \X new.samples)
    BY <2>2 DEF Pairs
  <2> QED BY <2>1, <2>3
<1>3. CASE /\ UNCHANGED <<buffer, flush_n, file>>
           /\ \E e \in buckets[b] :
                /\ e.key = k
                /\ buckets' = [buckets EXCEPT ![b] = (buckets[b] \ {e})
                     \cup {[e EXCEPT !.samples = e.samples \cup {n}]}]
  <2>1. PICK e \in buckets[b] :
          /\ e.key = k
          /\ buckets' = [buckets EXCEPT ![b] = (buckets[b] \ {e})
               \cup {[e EXCEPT !.samples = e.samples \cup {n}]}]
    BY <1>3
  <2> DEFINE more == [e EXCEPT !.samples = e.samples \cup {n}]
             rest == buffer \cup Flushed
  <2>2. more.key = e.key /\ more.samples = e.samples \cup {n} /\ e \in Resident
    BY <1>1, <2>1 DEF Entry
  <2>3. Resident' = (Resident \ {e}) \cup {more}
    <3>1. {e} \in SUBSET buckets[b]
      BY <2>1
    <3>2. buckets' = [buckets EXCEPT ![b] = (buckets[b] \ {e}) \cup {more}]
      BY <2>1
    <3> HIDE DEF more, b
    <3> QED BY <1>1, <3>1, <3>2, ResidentAfter DEF StoreInv
  <2>4. Readable' = Readable /\ Yielded' = Resident' \cup rest
    BY <1>3 DEF Readable, Yielded, Flushed
  <2> HIDE DEF more, rest
  <2>5. Pairs(Resident') = Pairs(Resident) \cup {<<e.key, n>>}
    <3> HIDE DEF n
    <3>1. {more.key} \X more.samples = ({e.key} \X e.samples) \cup {<<e.key, n>>}
      BY <2>2
    <3>2. Pairs(Resident') = Pairs(Resident \ {e}) \cup ({more.key} \X more.samples)
      BY <2>3 DEF Pairs
    <3>3. Pairs(Resident) = Pairs(Resident \ {e}) \cup ({e.key} \X e.samples)
      BY <2>2 DEF Pairs
    <3> QED
      BY <3>1, <3>2, <3>3
  <2>6. /\ Pairs(Yielded') = Pairs(Resident') \cup Pairs(rest)
        /\ Pairs(Yielded) = Pairs(Resident) \cup Pairs(rest)
    BY <2>4 DEF Pairs, Yielded, rest
  <2> QED
    BY <2>1, <2>4, <2>5, <2>6
<1>4. CASE /\ UNCHANGED <<buffer, flush_n, file>>
           /\ buckets' = [buckets EXCEPT ![b] = buckets[b] \cup {new}]
  <2>1. Resident' = Resident \cup {new}
    <3>1. buckets' = [buckets EXCEPT ![b] = (buckets[b] \ {}) \cup {new}]
      BY <1>4
    <3> HIDE DEF new, b
    <3>2. Resident' = (Resident \ {}) \cup {new}
      BY <1>1, <3>1, ResidentAfter DEF StoreInv
    <3> QED BY <3>2
  <2>2. Readable' = Readable /\ Yielded' = Yielded \cup {new}
    BY <1>4, <2>1 DEF Readable, Yielded, Flushed
  <2> HIDE DEF new
  <2> QED
    BY <1>2, <2>2
<1>5. CASE \E e \in LeastCounted(buckets[b]) :
             /\ buckets' = [buckets EXCEPT ![b] = (buckets[b] \ {e}) \cup {new}]
             /\ Push(e)
  <2>1. PICK e \in buckets[b] :
          /\ buckets' = [buckets EXCEPT ![b] = (buckets[b] \ {e}) \cup {new}]
          /\ Push(e)
    BY <1>5 DEF LeastCounted
  <2>2. Resident' = (Resident \ {e}) \cup {new} /\ e \in Resident
    <3>1. {e} \in SUBSET buckets[b] /\ e \in Resident
      BY <1>1, <2>1
    <3> HIDE DEF new, b
    <3> QED BY <1>1, <2>1, <3>1, ResidentAfter DEF StoreInv
  <2>3. CASE /\ Readable' = Readable
             /\ buffer' \cup Flushed' = buffer \cup Flushed \cup {e}
    <3>1. Yielded' = Yielded \cup {new}
      BY <2>2, <2>3 DEF Yielded
    <3> HIDE DEF new
    <3> QED
      BY <1>2, <2>3, <3>1
  <2> QED
    BY <2>1, <2>3, PushReads DEF StoreInv
<1> QED
  BY <1>3, <1>4, <1>5 DEF Add, BucketAdd

\* Every step of the collector is a step of the store.
LEMMA StoreStep ==
  ASSUME Fault # "set_len", StoreInv, [CollectorNext]_collectorVars
  PROVE  [Store!Accept \/ Store!Discard]_(Store!storeVars)
<1>1. CASE Clear
  <2>1. /\ buckets' = EmptyBuckets /\ buffer' = {} /\ flush_n' = 0
        /\ file' = <<>> /\ clock' = clock
    BY <1>1 DEF Clear, ClearOk, ClearFails, ClearMemory
  <2>2. Resident' = {} /\ Flushed' = {} /\ Readable' = TRUE
    BY <2>1 DEF Resident, EmptyBuckets, Flushed, Readable
  <2>3. HeldNow' = {}
    BY <2>1, <2>2 DEF HeldNow, Yielded, Pairs
  <2> QED
    BY <2>1, <2>2, <2>3 DEF Store!Discard, HeldNow, Pairs
<1>2. ASSUME NEW k \in Keys, Add(k) PROVE Store!Accept
  <2>1. clock' = clock + 1
    BY <1>2 DEF Add
  <2>2. CASE ~Readable'
    <3>1. HeldNow' = {} /\ Readable' = FALSE
      BY <2>2 DEF HeldNow, Readable
    <3> QED
      BY <2>1, <3>1 DEF Store!Accept, HeldNow, Pairs
  <2>3. CASE /\ Readable' = Readable
             /\ Pairs(Yielded') = Pairs(Yielded) \cup {<<k, clock + 1>>}
             /\ Readable'
    <3>1. /\ Readable /\ Readable' = TRUE
          /\ HeldNow' = HeldNow \cup {<<k, clock + 1>>}
      BY <2>3 DEF HeldNow, Readable
    <3> QED
      BY <2>1, <3>1 DEF Store!Accept, HeldNow, Pairs
  <2> QED
    BY <1>2, <2>2, <2>3, AddHeld
<1>3. CASE UNCHANGED collectorVars
  BY <1>3 DEF collectorVars, storeVars, Store!storeVars, Readable, Yielded,
              Resident, Flushed
<1> QED
  BY <1>1, <1>2, <1>3 DEF CollectorNext

\* As long as truncating the file does not fail, what try_iter yields is what
\* was added since the last clear, or an error until the next: Collector
\* implements SampleStore.
THEOREM StoreKept == Fault # "set_len" => (CollectorSpec => StoreImplemented)
<1> SUFFICES ASSUME Fault # "set_len"
             PROVE  CollectorSpec => StoreImplemented
  OBVIOUS
<1>1. CollectorInit => WholeInv
  BY DEF CollectorInit, WholeInv
<1>2. ShapeInv /\ WholeInv /\ [CollectorNext]_collectorVars => WholeInv'
  BY WholeStep
<1>3. CollectorInit => Store!StoreInit
  <2> SUFFICES ASSUME CollectorInit PROVE Store!StoreInit
    OBVIOUS
  <2>1. Resident = {} /\ Flushed = {} /\ buffer = {} /\ Readable = TRUE
    BY DEF CollectorInit, EmptyBuckets, Resident, Flushed, Readable
  <2> QED
    BY <2>1 DEF CollectorInit, Store!StoreInit, Yielded
<1>4. ShapeInv /\ OneEntryPerKey /\ WholeInv /\ [CollectorNext]_collectorVars
        => [Store!Accept \/ Store!Discard]_(Store!storeVars)
  BY StoreStep DEF StoreInv
<1> QED
  BY ShapeInit, ShapeStep, OneEntryInMemory, <1>1, <1>2, <1>3, <1>4, PTL
  DEF CollectorSpec, StoreImplemented, Store!StoreSpec
=============================================================================
