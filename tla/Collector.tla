----------------------------- MODULE Collector -----------------------------
(***************************************************************************)
(* The sample store: a HashCounter, whose buckets have a few entries each, *)
(* and a TempFdArray, which takes the entries a full bucket evicts and     *)
(* spills them to a temporary file a buffer at a time.                     *)
(*                                                                         *)
(* An entry is its backtrace and the samples it counts: its `count` is     *)
(* their number (sample() only ever adds 1).  The order of the entries in  *)
(* a bucket, in the buffer and in one flushed buffer does not show in      *)
(* try_iter's result as a multiset, so each is a set; where the order      *)
(* decides (which of several least counted entries is evicted, how much of *)
(* a buffer a failing write stores), any outcome is allowed.               *)
(***************************************************************************)
EXTENDS Naturals, Sequences, FiniteSets

CONSTANTS Keys,                   \* the backtraces, up to their PartialEq
          Buckets,                \* 0 .. BUCKETS - 1 in the code
          BucketOf,               \* HashCounter::hash modulo BUCKETS
          BUCKETS_ASSOCIATIVITY,  \* entries in a bucket
          BUFFER_LENGTH,          \* entries in TempFdArray.buffer
          MaxSamples,             \* bound: samples in a behaviour
          Fault                   \* which call on the file may fail, if any

ASSUME CollectorAssumption ==
  /\ BucketOf \in [Keys -> Buckets]
  /\ BUCKETS_ASSOCIATIVITY \in Nat \ {0}
  /\ BUFFER_LENGTH \in Nat \ {0}
  /\ MaxSamples \in Nat
  /\ Fault \in {"none", "write", "set_len"}

VARIABLES buckets,   \* HashCounter.buckets
          buffer,    \* TempFdArray.buffer[0 .. buffer_index - 1]
          flush_n,   \* TempFdArray.flush_n
          file,      \* the temporary file: one element per write_all
          clock      \* samples accepted so far: the time, and their identity

storeVars == <<buckets, buffer, flush_n, file>>
collectorVars == <<storeVars, clock>>

Entry == [key : Keys, samples : SUBSET Nat]
Count(e) == Cardinality(e.samples)

EmptyBuckets == [b \in Buckets |-> {}]

CollectorInit ==
  /\ buckets = EmptyBuckets
  /\ buffer = {}
  /\ flush_n = 0
  /\ file = <<>>
  /\ clock = 0

-----------------------------------------------------------------------------
(* TempFdArray                                                             *)

\* Mutant: buffer_index is not reset, so the flushed entries stay buffered.
FlushKeepsBuffer(e) ==
  /\ file' = Append(file, buffer)
  /\ buffer' = buffer \cup {e}
  /\ flush_n' = flush_n + 1

\* Mutant: a failing write leaves flush_n as it was, so that nothing tells
\* the entries it lost.
FlushUncounted(e) ==
  \/ file' = Append(file, buffer) /\ buffer' = {e} /\ flush_n' = flush_n + 1
  \/ Fault = "write" /\ buffer' = {} /\ UNCHANGED <<file, flush_n>>

\* push on a full buffer: flush_buffer empties it and counts the flush before
\* it writes, so a failing write_all loses what it did not write, and the
\* entry being pushed with it.
Flush(e) ==
  /\ flush_n' = flush_n + 1
  /\ \/ /\ file' = Append(file, buffer)
        /\ buffer' = {e}
     \/ /\ Fault = "write"
        /\ \E part \in (SUBSET buffer) \ {buffer} : file' = Append(file, part)
        /\ buffer' = {}

\* Mutant: one entry too many is buffered before a flush.
PushLate(e) ==
  \/ /\ Cardinality(buffer) <= BUFFER_LENGTH
     /\ buffer' = buffer \cup {e}
     /\ UNCHANGED <<flush_n, file>>
  \/ /\ Cardinality(buffer) > BUFFER_LENGTH
     /\ Flush(e)

\* TempFdArray::push
Push(e) ==
  \/ /\ Cardinality(buffer) < BUFFER_LENGTH
     /\ buffer' = buffer \cup {e}
     /\ UNCHANGED <<flush_n, file>>
  \/ /\ Cardinality(buffer) >= BUFFER_LENGTH
     /\ Flush(e)

\* TempFdArray::try_iter: read_exact finds flush_n whole buffers in the file.
Readable ==
  /\ flush_n <= Len(file)
  /\ \A i \in 1..flush_n : Cardinality(file[i]) = BUFFER_LENGTH

Flushed == UNION {file[i] : i \in 1..flush_n}

-----------------------------------------------------------------------------
(* HashCounter and Bucket                                                  *)

Resident == UNION {buckets[b] : b \in Buckets}

\* Mutant: the flushed buffers are not read.
YieldedFromMemory == Resident \cup buffer

\* Collector::try_iter: the map, then the buffer, then the file
Yielded == Resident \cup buffer \cup Flushed

\* Mutant: the largest count is looked for.
MostCounted(entries) ==
  {e \in entries : \A f \in entries : Count(f) <= Count(e)}

\* Bucket::add's candidates for eviction
LeastCounted(entries) ==
  {e \in entries : \A f \in entries : Count(e) <= Count(f)}

\* Mutant: a key is only looked for in a bucket that has room.
MergesWithRoom(bucket, k) ==
  Cardinality(bucket) < BUCKETS_ASSOCIATIVITY /\ \E e \in bucket : e.key = k

\* Bucket::add finds an entry of the same backtrace.
Merges(bucket, k) == \E e \in bucket : e.key = k

\* Bucket::add, and the push of what it evicts: bucket b takes the sample id
\* of backtrace k.
BucketAdd(b, k, id) ==
  LET bucket == buckets[b]
      new == [key |-> k, samples |-> {id}]
      Becomes(entries) == buckets' = [buckets EXCEPT ![b] = entries]
  IN  \/ /\ Merges(bucket, k)
         /\ \E e \in bucket :
              /\ e.key = k
              /\ Becomes((bucket \ {e})
                           \cup {[e EXCEPT !.samples = e.samples \cup {id}]})
         /\ UNCHANGED <<buffer, flush_n, file>>
      \/ /\ ~Merges(bucket, k)
         /\ Cardinality(bucket) < BUCKETS_ASSOCIATIVITY
         /\ Becomes(bucket \cup {new})
         /\ UNCHANGED <<buffer, flush_n, file>>
      \/ /\ ~Merges(bucket, k)
         /\ Cardinality(bucket) >= BUCKETS_ASSOCIATIVITY
         /\ \E e \in LeastCounted(bucket) :
              /\ Becomes((bucket \ {e}) \cup {new})
              /\ Push(e)

\* Collector::add
Add(k) ==
  /\ clock < MaxSamples
  /\ clock' = clock + 1
  /\ BucketAdd(BucketOf[k], k, clock + 1)

-----------------------------------------------------------------------------
(* Collector                                                               *)

\* Mutant: the map is emptied and the temporary array is not.
ClearMapOnly ==
  /\ buckets' = EmptyBuckets
  /\ UNCHANGED <<buffer, flush_n>>

\* Collector::clear, as far as it goes when set_len fails: the map, the buffer
\* and flush_n have been reset, the file has not.
ClearMemory ==
  /\ buckets' = EmptyBuckets
  /\ buffer' = {}
  /\ flush_n' = 0

\* Collector::clear returns Ok.  (lseek to 0 on a regular file cannot fail.)
ClearOk == ClearMemory /\ file' = <<>>

\* Collector::clear returns the error of set_len.
ClearFails == Fault = "set_len" /\ ClearMemory /\ UNCHANGED file

\* Collector::new, in place of the old one
Renew == ClearMemory /\ file' = <<>>

Clear == (ClearOk \/ ClearFails) /\ UNCHANGED clock

CollectorNext == Clear \/ \E k \in Keys : Add(k)

CollectorSpec == CollectorInit /\ [][CollectorNext]_collectorVars

-----------------------------------------------------------------------------
(* Properties                                                              *)

\* Each variable has its type, and no array of the code overflows: neither
\* `entries[length]` nor `buffer[buffer_index]` is ever out of bounds.
CollectorTypeOK ==
  /\ buckets \in [Buckets -> SUBSET Entry]
  /\ buffer \subseteq Entry
  /\ flush_n \in Nat
  /\ file \in Seq(SUBSET Entry)
  /\ clock \in Nat
  /\ \A b \in Buckets : Cardinality(buckets[b]) <= BUCKETS_ASSOCIATIVITY
  /\ Cardinality(buffer) <= BUFFER_LENGTH

\* A backtrace has at most one entry in memory's map, in the bucket its hash
\* selects: HashCounter::add always finds the entry it has to count in.
OneEntryPerKey ==
  \A b, c \in Buckets : \A e \in buckets[b], f \in buckets[c] :
    /\ BucketOf[e.key] = b
    /\ e.key = f.key => e = f

\* No sample is yielded twice: an entry is in the map, in the buffer or in one
\* flushed buffer, and two entries never count the same sample.
NoSampleTwice ==
  /\ \A e, f \in Yielded : e.samples \cap f.samples # {} => e = f
  /\ Resident \cap (buffer \cup Flushed) = {}
  /\ buffer \cap Flushed = {}
  /\ \A i, j \in 1..flush_n : file[i] \cap file[j] # {} => i = j

\* An entry leaves the map for the buffer only if no other entry of its bucket
\* has fewer samples: the hot backtraces stay in memory.
HotEntriesStay ==
  [][\A b \in Buckets : \A e, f \in buckets[b] :
       buckets'[b] # {} /\ Count(f) < Count(e)
         => \E g \in buckets'[b] : g.key = e.key]_collectorVars

\* Collector implements SampleStore: what try_iter yields is exactly what was
\* added since the last clear, or it is an error and remains one.
Store == INSTANCE SampleStore WITH
           held <- IF Readable
                     THEN UNION {{e.key} \X e.samples : e \in Yielded} ELSE {},
           readable <- Readable
StoreImplemented == Store!StoreSpec
=============================================================================
