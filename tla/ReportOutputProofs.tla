------------------------- MODULE ReportOutputProofs -------------------------
(***************************************************************************)
(* Reports for any number of loader threads, any file the JIT writes and   *)
(* any collection of backtraces.  A report takes the steps of the perf map *)
(* (OutputIsMap), so that PerfMapProofs speaks of its lookups.  The rest   *)
(* is an invariant for each half.                                          *)
(*                                                                         *)
(* While rows are made (ConvertInv), they show and count the entries that  *)
(* have been converted, for each thread and time, and the frames made so   *)
(* far show what has been resolved of the entry at hand.  Their labels     *)
(* tell threads apart because digits tell numbers apart (DigitsTell).      *)
(*                                                                         *)
(* While they are encoded, the tables refer to each other (EncodeInv), and *)
(* they can be read back (ShowInv): a function is a symbol of the report,  *)
(* each sample belongs to a row of its own, and the row at hand has got as *)
(* far as its locations.                                                   *)
(***************************************************************************)
EXTENDS ReportOutput, PerfMapProofs, SequenceTheorems, DataLemmas

-----------------------------------------------------------------------------
(* The rows of a report                                                    *)

\* Frames of symbols.  What their names are does not matter to the encoding.
IsSymbol(s) == /\ s = [name |-> s.name, filename |-> s.filename, lineno |-> s.lineno]
               /\ s.lineno \in Nat
AreFrames(f) == \E S : f \in Seq(Seq(S)) /\ \A s \in S : IsSymbol(s)

BuildInv ==
  /\ entries \subseteq Entry
  /\ stage \in {"lookup", "resolve"} => item \in Entry /\ frame_iter \in Seq(Ips)
  /\ stage = "resolve" => frame_iter # <<>>
  /\ AreFrames(fs)

DataInv == \A r \in DOMAIN data : AreFrames(r.frames) /\ data[r] \in Nat

LEMMA FramesGrow ==
  ASSUME NEW f, AreFrames(f), NEW T, \A s \in T : IsSymbol(s), NEW g \in Seq(T)
  PROVE  AreFrames(Append(f, g))
<1>1. PICK S : f \in Seq(Seq(S)) /\ \A s \in S : IsSymbol(s)
  BY DEF AreFrames
<1> DEFINE U == S \cup T
<1>2. \A s \in U : IsSymbol(s)
  BY <1>1
<1>3. Seq(S) \subseteq Seq(U) /\ Seq(T) \subseteq Seq(U)
  BY SeqMonotonic
<1>4. Seq(Seq(S)) \subseteq Seq(Seq(U))
  BY <1>3, SeqMonotonic
<1>5. f \in Seq(Seq(U)) /\ g \in Seq(U)
  BY <1>1, <1>3, <1>4
<1> HIDE DEF U
<1>6. Append(f, g) \in Seq(Seq(U))
  BY <1>5, AppendProperties
<1> QED BY <1>2, <1>6 DEF AreFrames

LEMMA NoFrames == AreFrames(<<>>)
<1> DEFINE S == {}
<1>1. <<>> \in Seq(Seq(S))
  BY EmptySeq
<1>2. \A s \in S : IsSymbol(s)
  OBVIOUS
<1> HIDE DEF S
<1> QED BY <1>1, <1>2 DEF AreFrames

LEMMA InitBuildInv == OutputInit => BuildInv /\ DataInv /\ stage = "entries"
<1> SUFFICES ASSUME OutputInit PROVE BuildInv /\ DataInv /\ stage = "entries"
  OBVIOUS
<1>1. entries \subseteq Entry
  BY ReportOutputAssumption DEF OutputInit
<1>2. AreFrames(fs)
  BY NoFrames DEF OutputInit
<1> QED BY <1>1, <1>2 DEF OutputInit, BuildInv, DataInv

\* The symbols of an address, whatever the perf map says
LEMMA SymbolsAtSeq ==
  ASSUME NEW ip \in Ips
  PROVE  \E T : SymbolsAt(ip) \in Seq(T) /\ \A s \in T : IsSymbol(s)
<1>1. CASE Found(resolver, ip)
  <2> DEFINE sym == PerfMapSymbol(Find(resolver, ip))
  <2>1. IsSymbol(sym)
    BY DEF PerfMapSymbol, IsSymbol
  <2>2. SymbolsAt(ip) = <<sym>>
    BY <1>1 DEF SymbolsAt
  <2> HIDE DEF sym
  <2> DEFINE T == {sym}
  <2>3. <<sym>> \in Seq(T)
    OBVIOUS
  <2>4. \A s \in T : IsSymbol(s)
    BY <2>1
  <2> HIDE DEF T
  <2> QED BY <2>2, <2>3, <2>4
<1>2. CASE ~Found(resolver, ip)
  <2>1. SymbolsAt(ip) \in Seq(Symbol)
    BY <1>2, ReportOutputAssumption DEF SymbolsAt
  <2>2. \A s \in Symbol : IsSymbol(s)
    <3>1. \A s \in Symbol : s = [name |-> s.name, filename |-> s.filename, lineno |-> s.lineno]
      BY DEF Symbol
    <3>2. \A s \in Symbol : s.lineno \in Nat
      BY PprofAssumption DEF Symbol
    <3> QED BY <3>1, <3>2 DEF IsSymbol
  <2> QED BY <2>1, <2>2
<1> QED BY <1>1, <1>2

LEMMA StepBuildInv ==
  ASSUME BuildInv, DataInv, Build PROVE BuildInv' /\ DataInv'
<1>1. CASE NextEntry
  <2>1. PICK e \in entries : item' = e /\ frame_iter' = e.frames /\ entries' = entries \ {e}
    BY <1>1 DEF NextEntry
  <2>2. e \in Entry /\ e.frames \in Seq(Ips)
    BY <2>1 DEF BuildInv, Entry
  <2>3. fs' = <<>> /\ stage' = "lookup" /\ data' = data
    BY <1>1 DEF NextEntry
  <2>4. AreFrames(fs')
    BY <2>3, NoFrames
  <2> QED BY <2>1, <2>2, <2>3, <2>4 DEF BuildInv, DataInv, AreFrames
<1>2. CASE LookUp
  BY <1>2 DEF LookUp, BuildInv, DataInv, AreFrames, buildVars
<1>3. CASE ResolveFrame
  <2> DEFINE ip == Head(frame_iter)
             syms == SymbolsAt(ip)
  <2>1. /\ stage = "resolve" /\ stage' = "lookup" /\ UNCHANGED <<data, entries, item>>
        /\ frame_iter' = Rest(syms)
        /\ fs' = IF IsHandler(syms) \/ syms = <<>> THEN fs ELSE Append(fs, syms)
    BY <1>3 DEF ResolveFrame
  <2>2. frame_iter \in Seq(Ips) /\ frame_iter # <<>>
    BY <2>1 DEF BuildInv
  <2>3. ip \in Ips
    BY <2>2, HeadTailProperties
  <2>4. frame_iter' \in Seq(Ips)
    <3>1. Tail(frame_iter) \in Seq(Ips)
      BY <2>2, HeadTailProperties
    <3>2. SubSeq(frame_iter, 3, Len(frame_iter)) \in Seq(Ips)
      BY <2>2, SubSeqProperties
    <3> QED BY <2>1, <3>1, <3>2 DEF Rest
  <2>5. PICK T : syms \in Seq(T) /\ \A s \in T : IsSymbol(s)
    BY <2>3, SymbolsAtSeq
  <2> HIDE DEF syms, ip
  <2>6. AreFrames(Append(fs, syms)) /\ AreFrames(fs)
    BY <2>5, FramesGrow DEF BuildInv
  <2>7. AreFrames(fs')
    BY <2>1, <2>6
  <2> QED BY <2>1, <2>4, <2>7 DEF BuildInv, DataInv, AreFrames
<1>4. CASE AddRow
  <2> DEFINE r == RowOf(item)
  <2>1. /\ stage' = "entries" /\ data' = WithRow(r, item.count)
        /\ UNCHANGED <<entries, fs>> /\ item \in Entry
    BY <1>4 DEF AddRow, BuildInv, buildVars
  <2>2. AreFrames(r.frames) /\ item.count \in Nat
    BY <2>1 DEF RowOf, BuildInv, Entry
  <2> HIDE DEF r
  <2>3. ASSUME data' = [q \in DOMAIN data |->
                          IF Key(q) = Key(r) THEN data[q] + item.count ELSE data[q]]
        PROVE  DataInv'
    <3> SUFFICES ASSUME NEW q \in DOMAIN data
                 PROVE  AreFrames(q.frames) /\ data'[q] \in Nat
      BY <2>3 DEF DataInv
    <3> QED BY <2>2, <2>3 DEF DataInv
  <2>4. ASSUME data' = [q \in DOMAIN data \cup {r} |-> IF q = r THEN item.count ELSE data[q]]
        PROVE  DataInv'
    <3> SUFFICES ASSUME NEW q \in DOMAIN data \cup {r}
                 PROVE  AreFrames(q.frames) /\ data'[q] \in Nat
      BY <2>4 DEF DataInv
    <3> QED BY <2>2, <2>4 DEF DataInv
  <2>5. DataInv'
    BY <2>1, <2>3, <2>4 DEF WithRow
  <2> QED BY <2>1, <2>5 DEF BuildInv, AreFrames
<1>5. CASE Built
  BY <1>5 DEF Built, BuildInv, DataInv, AreFrames, buildVars
<1> QED BY <1>1, <1>2, <1>3, <1>4, <1>5 DEF Build

-----------------------------------------------------------------------------
(* The tables of the encoding                                              *)

Building == {"entries", "lookup", "resolve", "built"}
Encoding == {"rows", "row", "done"}

\* Every string a row will need is in the table or still to come.
StringsInv ==
  /\ dedup_str \subseteq Strings
  /\ str_tbl \in Seq(Strings \cup {<<>>})
  /\ str_tbl # <<>> /\ str_tbl[1] = <<>>
  /\ \A x \in DOMAIN strings :
       strings[x] \in Nat /\ strings[x] + 1 \in DOMAIN str_tbl /\ Str(strings[x]) = x
  /\ Strings \subseteq DOMAIN strings \cup dedup_str

RowInv ==
  /\ key \in DOMAIN data
  /\ frames \in Seq(Seq(SymbolsOf(key))) /\ symbols \in Seq(SymbolsOf(key))
  /\ locs \in Seq(DOMAIN fn_tbl)

TablesInv ==
  /\ \A n \in DOMAIN functions : functions[n] \in DOMAIN fn_tbl
  /\ TablesRefer

EncodeInv ==
  /\ stage \in Building \cup {"strings"} \cup Encoding
  /\ stage \in Building => str_tbl = <<>>
  /\ stage \notin Building => StringsInv
  /\ stage \notin Encoding =>
       functions = <<>> /\ fn_tbl = <<>> /\ loc_tbl = <<>> /\ samples = <<>>
  /\ stage \in Encoding => dedup_str = {} /\ left \subseteq DOMAIN data
  /\ stage = "row" => RowInv
  /\ TablesInv

LEMMA EmptyTables ==
  ASSUME functions = <<>>, fn_tbl = <<>>, loc_tbl = <<>>, samples = <<>>,
         str_tbl # <<>> => str_tbl[1] = <<>>
  PROVE  TablesInv
  BY DEF TablesInv, TablesRefer

LEMMA InitEncodeInv == OutputInit => EncodeInv
<1> SUFFICES ASSUME OutputInit PROVE EncodeInv
  OBVIOUS
<1>1. TablesInv
  BY EmptyTables DEF OutputInit, PprofInit
<1> QED BY <1>1 DEF OutputInit, PprofInit, EncodeInv, Building, Encoding

LEMMA BuildEncodeInv == EncodeInv /\ Build => EncodeInv'
<1> SUFFICES ASSUME EncodeInv, Build PROVE EncodeInv'
  OBVIOUS
<1>1. stage \in Building /\ stage' \in Building
  BY DEF Build, NextEntry, LookUp, ResolveFrame, AddRow, Built, Building
<1>2. UNCHANGED <<str_tbl, strings, functions, fn_tbl, loc_tbl, samples>>
  BY DEF Build, NextEntry, LookUp, ResolveFrame, AddRow, Built, tableVars, outVars
<1>3. /\ str_tbl = <<>> /\ functions = <<>> /\ fn_tbl = <<>> /\ loc_tbl = <<>>
      /\ samples = <<>>
  BY <1>1 DEF EncodeInv, Building, Encoding
<1>4. TablesInv'
  BY <1>2, <1>3 DEF TablesInv, TablesRefer
<1> QED BY <1>1, <1>2, <1>3, <1>4 DEF EncodeInv, Building, Encoding

\* What a row is made of
LEMMA RowParts ==
  ASSUME NEW r, AreFrames(r.frames)
  PROVE  /\ r.frames \in Seq(Seq(SymbolsOf(r)))
         /\ \A s \in SymbolsOf(r) : IsSymbol(s)
<1>1. PICK S : r.frames \in Seq(Seq(S)) /\ \A s \in S : IsSymbol(s)
  BY DEF AreFrames
<1>2. ASSUME NEW i \in DOMAIN r.frames
      PROVE  r.frames[i] \in Seq(S) /\ r.frames[i] \in Seq(SymbolsOf(r))
  <2>1. r.frames[i] \in Seq(S)
    BY <1>1
  <2>2. \A j \in DOMAIN r.frames[i] : r.frames[i][j] \in SymbolsOf(r)
    BY DEF SymbolsOf
  <2> QED BY <2>1, <2>2
<1>3. r.frames \in Seq(Seq(SymbolsOf(r)))
  BY <1>1, <1>2
<1>4. ASSUME NEW s \in SymbolsOf(r) PROVE s \in S
  <2>1. PICK i \in DOMAIN r.frames : \E j \in DOMAIN r.frames[i] : s = r.frames[i][j]
    BY DEF SymbolsOf
  <2> QED BY <1>2, <2>1
<1> QED BY <1>1, <1>3, <1>4

LEMMA FixedStrings == {SAMPLES, COUNT, CPU, NANOSECONDS, THREAD} \subseteq Strings
  BY DEF Strings

LEMMA RowStringsKnown ==
  ASSUME NEW r \in DOMAIN data
  PROVE  /\ ThreadNameOrId(r) \in Strings /\ THREAD \in Strings
         /\ \A s \in SymbolsOf(r) :
              Name(s) \in Strings /\ s.name \in Strings /\ s.filename \in Strings
<1>1. RowStrings(r) \subseteq Strings /\ THREAD \in Strings
  BY FixedStrings DEF Strings
<1>2. ThreadNameOrId(r) \in RowStrings(r)
  BY DEF RowStrings
<1>3. ASSUME NEW s \in SymbolsOf(r)
      PROVE  {Name(s), s.name, s.filename} \subseteq RowStrings(r)
  BY DEF RowStrings
<1> QED BY <1>1, <1>2, <1>3

\* Steps that leave the strings and what rows need of them as they are
LEMMA SameStrings ==
  ASSUME StringsInv, UNCHANGED <<data, dedup_str, str_tbl, strings>>
  PROVE  StringsInv'
<1>1. Strings' = Strings
  BY DEF Strings, RowStrings, SymbolsOf, Name, ThreadNameOrId
<1> QED BY <1>1 DEF StringsInv, Str

\* Steps that leave the tables as they are
LEMMA SameTables ==
  ASSUME TablesInv, UNCHANGED <<str_tbl, functions, fn_tbl, loc_tbl, samples>>
  PROVE  TablesInv'
  BY DEF TablesInv, TablesRefer

LEMMA CallPprofInv == EncodeInv /\ CallPprof => EncodeInv'
<1> SUFFICES ASSUME EncodeInv, CallPprof PROVE EncodeInv'
  OBVIOUS
<1>1. /\ stage = "built" /\ stage' = "strings" /\ dedup_str' = Strings
      /\ str_tbl' = << <<>> >> /\ strings' = [s \in {<<>>} |-> 0]
      /\ UNCHANGED <<data, functions, fn_tbl, loc_tbl, samples>>
  BY DEF CallPprof, outVars
<1>2. /\ functions = <<>> /\ fn_tbl = <<>> /\ loc_tbl = <<>> /\ samples = <<>>
  BY <1>1 DEF EncodeInv, Encoding
<1>3. Strings' = Strings
  BY <1>1 DEF Strings, RowStrings, SymbolsOf, Name, ThreadNameOrId
<1>4. StringsInv'
  <2> DEFINE T == Strings \cup {<<>>}
  <2>1. str_tbl' \in Seq(T)
    BY <1>1
  <2>2. \A x \in DOMAIN strings' :
          /\ strings'[x] \in Nat /\ strings'[x] + 1 \in DOMAIN str_tbl'
          /\ str_tbl'[strings'[x] + 1] = x
    BY <1>1
  <2> QED BY <1>1, <1>3, <2>1, <2>2 DEF StringsInv, Str
<1>5. TablesInv'
  BY <1>1, <1>2 DEF TablesInv, TablesRefer
<1> QED BY <1>1, <1>2, <1>4, <1>5 DEF EncodeInv, Building, Encoding

LEMMA ExtendStrTblInv == EncodeInv /\ ExtendStrTbl => EncodeInv'
<1> SUFFICES ASSUME EncodeInv, ExtendStrTbl PROVE EncodeInv'
  OBVIOUS
<1>1. PICK s \in dedup_str :
        /\ dedup_str' = dedup_str \ {s}
        /\ str_tbl' = Append(str_tbl, s)
        /\ strings' = [x \in DOMAIN strings \cup {s} |->
                         IF x = s THEN Len(str_tbl) ELSE strings[x]]
  BY DEF ExtendStrTbl
<1>2. stage = "strings" /\ stage' = stage /\ data' = data
  BY DEF ExtendStrTbl
<1>3. UNCHANGED <<functions, fn_tbl, loc_tbl, samples>>
  BY DEF ExtendStrTbl, outVars
<1>4. StringsInv
  BY <1>2 DEF EncodeInv, Building
<1>5. Strings' = Strings
  BY <1>2 DEF Strings, RowStrings, SymbolsOf, Name, ThreadNameOrId
<1>6. StringsInv'
  <2> DEFINE T == Strings \cup {<<>>}
  <2>1. s \in T /\ str_tbl \in Seq(T) /\ str_tbl # <<>> /\ str_tbl[1] = <<>>
    BY <1>4 DEF StringsInv
  <2> HIDE DEF T
  <2>2. /\ str_tbl' \in Seq(T) /\ Len(str_tbl') = Len(str_tbl) + 1
        /\ str_tbl' # <<>> /\ str_tbl'[1] = <<>>
    BY <1>1, <2>1
  <2>3. ASSUME NEW x \in DOMAIN strings'
        PROVE  /\ strings'[x] \in Nat /\ strings'[x] + 1 \in DOMAIN str_tbl'
               /\ str_tbl'[strings'[x] + 1] = x
    <3>1. CASE x = s
      BY <1>1, <2>1, <2>2, <3>1, AppendProperties
    <3>2. CASE x # s
      BY <1>1, <1>4, <2>1, <2>2, <3>2, AppendProperties DEF StringsInv, Str
    <3> QED BY <3>1, <3>2
  <2>4. Strings \subseteq DOMAIN strings' \cup dedup_str' /\ dedup_str' \subseteq Strings
    BY <1>1, <1>4 DEF StringsInv
  <2> QED BY <1>5, <2>2, <2>3, <2>4 DEF StringsInv, Str, T
<1>7. TablesInv'
  <2>1. functions = <<>> /\ fn_tbl = <<>> /\ loc_tbl = <<>> /\ samples = <<>>
    BY <1>2 DEF EncodeInv, Encoding
  <2> QED BY <1>3, <1>6, <2>1 DEF TablesInv, TablesRefer, StringsInv
<1> QED BY <1>2, <1>3, <1>6, <1>7 DEF EncodeInv, Building, Encoding

LEMMA StartRowsInv == EncodeInv /\ StartRows => EncodeInv'
<1> SUFFICES ASSUME EncodeInv, StartRows PROVE EncodeInv'
  OBVIOUS
<1>1. /\ stage = "strings" /\ stage' = "rows" /\ dedup_str = {} /\ left' = DOMAIN data
      /\ UNCHANGED <<data, dedup_str, str_tbl, strings, functions, fn_tbl, loc_tbl, samples>>
  BY DEF StartRows, tableVars, outVars
<1>2. StringsInv' /\ TablesInv'
  BY <1>1, SameStrings, SameTables DEF EncodeInv, Building
<1> QED BY <1>1, <1>2 DEF EncodeInv, Building, Encoding

\* The steps of the rows: everything but the row and the tables
LEMMA EncodingInv ==
  ASSUME EncodeInv, stage \in Encoding, stage' \in Encoding,
         UNCHANGED <<data, dedup_str, str_tbl, strings>>,
         left' \subseteq left, TablesInv', stage' = "row" => RowInv'
  PROVE  EncodeInv'
<1>1. StringsInv'
  BY SameStrings DEF EncodeInv, Building, Encoding
<1> QED BY <1>1 DEF EncodeInv, Building, Encoding

LEMMA NextRowInv == EncodeInv /\ DataInv /\ NextRow => EncodeInv'
<1> SUFFICES ASSUME EncodeInv, DataInv, NextRow PROVE EncodeInv'
  OBVIOUS
<1>1. PICK r \in left : key' = r /\ frames' = r.frames /\ left' = left \ {r}
  BY DEF NextRow
<1>2. /\ stage = "rows" /\ stage' = "row" /\ symbols' = <<>> /\ locs' = <<>>
      /\ UNCHANGED <<data, dedup_str, str_tbl, strings, functions, fn_tbl, loc_tbl, samples>>
  BY DEF NextRow, tableVars, outVars
<1>3. r \in DOMAIN data
  BY <1>1, <1>2 DEF EncodeInv, Encoding
<1>4. r.frames \in Seq(Seq(SymbolsOf(r)))
  BY <1>3, RowParts DEF DataInv
<1>5. symbols' \in Seq(SymbolsOf(r)) /\ locs' \in Seq(DOMAIN fn_tbl)
  BY <1>2
<1>6. RowInv'
  BY <1>1, <1>2, <1>3, <1>4, <1>5 DEF RowInv, SymbolsOf
<1>7. TablesInv'
  BY <1>2, SameTables DEF EncodeInv
<1> QED BY <1>1, <1>2, <1>6, <1>7, EncodingInv DEF Encoding

LEMMA NextFrameInv == EncodeInv /\ NextFrame => EncodeInv'
<1> SUFFICES ASSUME EncodeInv, NextFrame PROVE EncodeInv'
  OBVIOUS
<1>1. /\ stage = "row" /\ stage' = "row" /\ frames # <<>>
      /\ symbols' = Head(frames) /\ frames' = Tail(frames)
      /\ UNCHANGED <<left, key, locs, data, dedup_str, str_tbl, strings,
                     functions, fn_tbl, loc_tbl, samples>>
  BY DEF NextFrame, tableVars, outVars
<1>2. RowInv
  BY <1>1 DEF EncodeInv
<1>3. Head(frames) \in Seq(SymbolsOf(key)) /\ Tail(frames) \in Seq(Seq(SymbolsOf(key)))
  <2> DEFINE T == Seq(SymbolsOf(key))
  <2>1. frames \in Seq(T)
    BY <1>2 DEF RowInv
  <2> HIDE DEF T
  <2>2. Head(frames) \in T /\ Tail(frames) \in Seq(T)
    BY <1>1, <2>1, HeadTailProperties
  <2> QED BY <2>2 DEF T
<1>4. RowInv'
  BY <1>1, <1>2, <1>3 DEF RowInv, SymbolsOf
<1>5. TablesInv'
  BY <1>1, SameTables DEF EncodeInv
<1> QED BY <1>1, <1>4, <1>5, EncodingInv DEF Encoding

\* The symbol at hand
LEMMA HeadSymbol ==
  ASSUME EncodeInv, DataInv, stage = "row", symbols # <<>>
  PROVE  /\ Head(symbols) \in SymbolsOf(key) /\ Tail(symbols) \in Seq(SymbolsOf(key))
         /\ Head(symbols).lineno \in Nat
<1>1. RowInv
  BY DEF EncodeInv
<1>2. symbols \in Seq(SymbolsOf(key)) /\ key \in DOMAIN data
  BY <1>1 DEF RowInv
<1>3. \A s \in SymbolsOf(key) : s.lineno \in Nat
  BY <1>2, RowParts DEF DataInv, IsSymbol
<1>4. Head(symbols) \in SymbolsOf(key) /\ Tail(symbols) \in Seq(SymbolsOf(key))
  BY <1>2, HeadTailProperties
<1> QED BY <1>3, <1>4

LEMMA KnownSymbolInv == EncodeInv /\ DataInv /\ KnownSymbol => EncodeInv'
<1> SUFFICES ASSUME EncodeInv, DataInv, KnownSymbol PROVE EncodeInv'
  OBVIOUS
<1> DEFINE n == Name(Head(symbols))
<1>1. /\ stage = "row" /\ stage' = "row" /\ symbols # <<>> /\ n \in DOMAIN functions
      /\ locs' = Append(locs, functions[n]) /\ symbols' = Tail(symbols)
      /\ UNCHANGED <<left, key, frames, data, dedup_str, str_tbl, strings,
                     functions, fn_tbl, loc_tbl, samples>>
  BY DEF KnownSymbol, tableVars, outVars
<1>2. RowInv /\ functions[n] \in DOMAIN fn_tbl
  BY <1>1 DEF EncodeInv, TablesInv
<1> HIDE DEF n
<1>3. locs' \in Seq(DOMAIN fn_tbl)
  BY <1>1, <1>2, AppendProperties DEF RowInv
<1>4. symbols' \in Seq(SymbolsOf(key))
  BY <1>1, HeadSymbol
<1>5. RowInv'
  BY <1>1, <1>2, <1>3, <1>4 DEF RowInv, SymbolsOf
<1>6. TablesInv'
  BY <1>1, SameTables DEF EncodeInv
<1> QED BY <1>1, <1>5, <1>6, EncodingInv DEF Encoding

LEMMA NewSymbolInv == EncodeInv /\ DataInv /\ NewSymbol => EncodeInv'
<1> SUFFICES ASSUME EncodeInv, DataInv, NewSymbol PROVE EncodeInv'
  OBVIOUS
<1> DEFINE s == Head(symbols)
           n == Len(fn_tbl) + 1
<1>1. /\ stage = "row" /\ stage' = "row" /\ symbols # <<>> /\ symbols' = Tail(symbols)
      /\ UNCHANGED <<left, key, frames, data, dedup_str, str_tbl, strings, samples>>
  BY DEF NewSymbol, tableVars
<1>2. /\ functions' = [m \in DOMAIN functions \cup {Name(s)} |->
                         IF m = Name(s) THEN n ELSE functions[m]]
      /\ fn_tbl' = Append(fn_tbl, Function(s))
      /\ loc_tbl' = Append(loc_tbl, Location(s))
      /\ locs' = Append(locs, n)
  BY DEF NewSymbol, FunctionId
<1>3. RowInv /\ TablesInv /\ StringsInv /\ dedup_str = {}
  BY <1>1 DEF EncodeInv, Building, Encoding
<1>4. s \in SymbolsOf(key) /\ s.lineno \in Nat /\ symbols' \in Seq(SymbolsOf(key))
  BY <1>1, HeadSymbol
<1>5. {Name(s), s.name, s.filename} \subseteq DOMAIN strings
  BY <1>3, <1>4, RowStringsKnown DEF RowInv, StringsInv
<1> HIDE DEF s
<1>6. /\ Function(s) \in FunctionMessage
      /\ Function(s).id = n
      /\ Function(s).name + 1 \in DOMAIN str_tbl
      /\ Function(s).system_name + 1 \in DOMAIN str_tbl
      /\ Function(s).filename + 1 \in DOMAIN str_tbl
  BY <1>3, <1>5 DEF Function, FunctionId, FunctionMessage, StringsInv, TablesInv, TablesRefer
<1>7. /\ Location(s) \in LocationMessage
      /\ Location(s).id = n /\ Location(s).line.function_id = n
  BY <1>3, <1>4 DEF Location, FunctionId, LocationMessage, LineMessage, TablesInv, TablesRefer
<1>8. /\ fn_tbl \in Seq(FunctionMessage) /\ loc_tbl \in Seq(LocationMessage)
      /\ Len(loc_tbl) = Len(fn_tbl) /\ samples \in Seq(SampleMessage)
  BY <1>3 DEF TablesInv, TablesRefer
<1>9. /\ fn_tbl' \in Seq(FunctionMessage) /\ Len(fn_tbl') = n
      /\ \A i \in 1 .. Len(fn_tbl) : fn_tbl'[i] = fn_tbl[i]
      /\ fn_tbl'[n] = Function(s)
  BY <1>2, <1>6, <1>8, AppendProperties
<1>10. /\ loc_tbl' \in Seq(LocationMessage) /\ Len(loc_tbl') = n
       /\ \A i \in 1 .. Len(fn_tbl) : loc_tbl'[i] = loc_tbl[i]
       /\ loc_tbl'[n] = Location(s)
  BY <1>2, <1>7, <1>8, AppendProperties
<1>11. /\ DOMAIN fn_tbl = 1 .. Len(fn_tbl) /\ DOMAIN fn_tbl' = 1 .. n
       /\ DOMAIN loc_tbl' = 1 .. n /\ DOMAIN loc_tbl = 1 .. Len(fn_tbl)
       /\ n \in Nat \ {0}
  BY <1>8, <1>9, <1>10
<1>12. ASSUME NEW m \in DOMAIN functions' PROVE functions'[m] \in DOMAIN fn_tbl'
  BY <1>2, <1>3, <1>11 DEF TablesInv
<1>13. TablesRefer'
  <2>1. ASSUME NEW i \in DOMAIN fn_tbl'
        PROVE  /\ fn_tbl'[i].id = i /\ loc_tbl'[i].id = i
               /\ loc_tbl'[i].line.function_id = i
               /\ fn_tbl'[i].name + 1 \in DOMAIN str_tbl
               /\ fn_tbl'[i].system_name + 1 \in DOMAIN str_tbl
               /\ fn_tbl'[i].filename + 1 \in DOMAIN str_tbl
    <3>1. CASE i \in 1 .. Len(fn_tbl)
      <4>1. fn_tbl'[i] = fn_tbl[i] /\ loc_tbl'[i] = loc_tbl[i] /\ i \in DOMAIN fn_tbl
        BY <1>9, <1>10, <1>11, <3>1
      <4> QED BY <1>3, <4>1 DEF TablesInv, TablesRefer
    <3>2. CASE i = n
      BY <1>6, <1>7, <1>9, <1>10, <3>2
    <3> QED BY <1>11, <3>1, <3>2
  <2>2. ASSUME NEW k \in DOMAIN samples, NEW j \in DOMAIN samples[k].location_id
        PROVE  samples[k].location_id[j] \in DOMAIN loc_tbl'
    <3>1. samples[k].location_id[j] \in DOMAIN loc_tbl
      BY <1>3 DEF TablesInv, TablesRefer
    <3> QED BY <1>11, <3>1
  <2>3. \A k \in DOMAIN samples : /\ samples[k].label.key + 1 \in DOMAIN str_tbl
                                  /\ samples[k].label.str + 1 \in DOMAIN str_tbl
    BY <1>3 DEF TablesInv, TablesRefer
  <2>4. str_tbl # <<>> => str_tbl[1] = <<>>
    BY <1>3 DEF StringsInv
  <2> QED BY <1>1, <1>8, <1>9, <1>10, <2>1, <2>2, <2>3, <2>4 DEF TablesRefer
<1>14. TablesInv'
  BY <1>12, <1>13 DEF TablesInv
<1>15. locs' \in Seq(DOMAIN fn_tbl')
  <2>1. locs \in Seq(DOMAIN fn_tbl')
    <3>1. DOMAIN fn_tbl \subseteq DOMAIN fn_tbl'
      BY <1>11
    <3> QED BY <1>3, <3>1, SeqMonotonic DEF RowInv
  <2>2. n \in DOMAIN fn_tbl'
    BY <1>11
  <2> HIDE DEF n
  <2> QED BY <1>2, <2>1, <2>2, AppendProperties
<1>16. RowInv'
  BY <1>1, <1>3, <1>4, <1>15 DEF RowInv, SymbolsOf
<1> QED BY <1>1, <1>14, <1>16, EncodingInv DEF Encoding

LEMMA EmitSampleInv == EncodeInv /\ DataInv /\ EmitSample => EncodeInv'
<1> SUFFICES ASSUME EncodeInv, DataInv, EmitSample PROVE EncodeInv'
  OBVIOUS
<1> DEFINE s == Sample(key)
<1>1. /\ stage = "row" /\ stage' = "rows" /\ samples' = Append(samples, s)
      /\ UNCHANGED <<left, data, dedup_str, str_tbl, strings, functions, fn_tbl, loc_tbl>>
  BY DEF EmitSample, tableVars, rowVars
<1>2. RowInv /\ TablesInv /\ StringsInv /\ dedup_str = {}
  BY <1>1 DEF EncodeInv, Building, Encoding
<1>3. {ThreadNameOrId(key), THREAD} \subseteq DOMAIN strings
  BY <1>2, RowStringsKnown DEF RowInv, StringsInv
<1>4. /\ samples \in Seq(SampleMessage) /\ fn_tbl \in Seq(FunctionMessage)
      /\ loc_tbl \in Seq(LocationMessage) /\ Len(loc_tbl) = Len(fn_tbl)
      /\ locs \in Seq(DOMAIN fn_tbl)
  BY <1>2 DEF TablesInv, TablesRefer, RowInv
<1>5. DOMAIN loc_tbl = DOMAIN fn_tbl /\ DOMAIN fn_tbl \subseteq Nat
  BY <1>4
<1>6. /\ s.location_id = locs
      /\ s.label = [key |-> strings[THREAD], str |-> strings[ThreadNameOrId(key)]]
  BY DEF Sample
<1>7. /\ s.label.key + 1 \in DOMAIN str_tbl /\ s.label.str + 1 \in DOMAIN str_tbl
      /\ s.label \in LabelMessage
  BY <1>2, <1>3, <1>6 DEF StringsInv, LabelMessage
<1>8. s \in SampleMessage
  <2>1. locs \in Seq(Nat)
    BY <1>4, <1>5, SeqMonotonic
  <2>2. data[key] \in Int /\ (data[key] * Nanos) \div Frequency \in Int
    <3>1. data[key] \in Nat
      BY <1>2 DEF RowInv, DataInv
    <3> QED BY <3>1, PprofAssumption
  <2>3. <<data[key], (data[key] * Nanos) \div Frequency>> \in [1 .. 2 -> Int]
    BY <2>2
  <2> QED BY <1>7, <2>1, <2>3 DEF Sample, SampleMessage
<1> HIDE DEF s
<1>9. /\ samples' \in Seq(SampleMessage) /\ Len(samples') = Len(samples) + 1
      /\ \A k \in 1 .. Len(samples) : samples'[k] = samples[k]
      /\ samples'[Len(samples) + 1] = s
  BY <1>1, <1>4, <1>8, AppendProperties
<1>10. ASSUME NEW k \in DOMAIN samples'
       PROVE  /\ \A j \in DOMAIN samples'[k].location_id :
                   samples'[k].location_id[j] \in DOMAIN loc_tbl
              /\ samples'[k].label.key + 1 \in DOMAIN str_tbl
              /\ samples'[k].label.str + 1 \in DOMAIN str_tbl
  <2>1. CASE k \in 1 .. Len(samples)
    <3>1. samples'[k] = samples[k] /\ k \in DOMAIN samples
      BY <1>4, <1>9, <2>1
    <3> QED BY <1>2, <3>1 DEF TablesInv, TablesRefer
  <2>2. CASE k = Len(samples) + 1
    <3>1. \A j \in DOMAIN locs : locs[j] \in DOMAIN loc_tbl
      BY <1>4, <1>5
    <3> QED BY <1>6, <1>7, <1>9, <2>2, <3>1
  <2> QED BY <1>4, <1>9, <2>1, <2>2
<1>11. TablesRefer'
  BY <1>1, <1>2, <1>9, <1>10 DEF TablesInv, TablesRefer
<1>12. TablesInv'
  BY <1>1, <1>2, <1>11 DEF TablesInv
<1> QED BY <1>1, <1>12, EncodingInv DEF Encoding

LEMMA FinishInv == EncodeInv /\ Finish => EncodeInv'
<1> SUFFICES ASSUME EncodeInv, Finish PROVE EncodeInv'
  OBVIOUS
<1>1. /\ stage = "rows" /\ stage' = "done"
      /\ UNCHANGED <<left, data, dedup_str, str_tbl, strings, functions, fn_tbl,
                     loc_tbl, samples>>
  BY DEF Finish, tableVars, rowVars, outVars
<1>2. TablesInv'
  BY <1>1, SameTables DEF EncodeInv
<1> QED BY <1>1, <1>2, EncodingInv DEF Encoding

-----------------------------------------------------------------------------
(* The names from the root to the leaf                                     *)

\* The equation of NamesUpto
Stacks(g, r) ==
  g = [i \in 0 .. Len(r.frames) |->
         IF i = 0 THEN <<>> ELSE NamesOf(r.frames[i]) \o g[i - 1]]

LEMMA NamesOfSeq ==
  ASSUME NEW T, NEW f \in Seq(T) PROVE NamesOf(f) \in Seq({Name(s) : s \in T})
<1> DEFINE U == {Name(s) : s \in T}
<1>1. \A s \in T : Name(s) \in U
  OBVIOUS
<1>2. \A j \in 1 .. Len(f) : f[Len(f) + 1 - j] \in T
  OBVIOUS
<1> HIDE DEF U
<1>3. NamesOf(f) = [j \in 1 .. Len(f) |-> Name(f[Len(f) + 1 - j])]
  BY DEF NamesOf
<1>4. NamesOf(f) \in Seq(U)
  BY <1>1, <1>2, <1>3
<1> QED BY <1>4 DEF U

LEMMA StacksExist ==
  ASSUME NEW T, NEW r, r.frames \in Seq(Seq(T)) PROVE \E g : Stacks(g, r)
<1> DEFINE N == Len(r.frames)
           U == Seq({Name(s) : s \in T})
           F == [0 .. N -> U]
           Eq(g, i) == g[i] = IF i = 0 THEN <<>> ELSE NamesOf(r.frames[i]) \o g[i - 1]
           S == {k \in Nat : \E g \in F : \A i \in 0 .. N : i <= k => Eq(g, i)}
<1>0. N \in Nat /\ N = Len(r.frames)
  OBVIOUS
<1>1. \A i \in 1 .. N : NamesOf(r.frames[i]) \in U
  BY NamesOfSeq
<1>2. <<>> \in U
  OBVIOUS
<1>3. \A f, h \in U : f \o h \in U
  BY ConcatProperties
<1> HIDE DEF U, N
<1>4. 0 \in S
  <2>1. [i \in 0 .. N |-> <<>>] \in F
    BY <1>2
  <2>2. \A i \in 0 .. N : i <= 0 => Eq([j \in 0 .. N |-> <<>>], i)
    BY <1>0
  <2> HIDE DEF F, Eq
  <2> QED BY <2>1, <2>2
<1>5. ASSUME NEW k \in Nat, k \in S PROVE k + 1 \in S
  <2>1. PICK g \in F : \A i \in 0 .. N : i <= k => Eq(g, i)
    BY <1>5
  <2>2. CASE k + 1 \notin 0 .. N
    <3>1. \A i \in 0 .. N : i <= k + 1 => i <= k
      BY <1>0, <2>2
    <3>2. \A i \in 0 .. N : i <= k + 1 => Eq(g, i)
      <4> HIDE DEF Eq
      <4> QED BY <2>1, <3>1
    <3> HIDE DEF Eq
    <3> QED BY <2>1, <3>2
  <2>3. CASE k + 1 \in 0 .. N
    <3> DEFINE v == NamesOf(r.frames[k + 1]) \o g[k]
               h == [g EXCEPT ![k + 1] = v]
    <3>1. v \in U
      <4>1. k + 1 \in 1 .. N /\ k \in 0 .. N
        BY <1>0, <2>3
      <4>2. NamesOf(r.frames[k + 1]) \in U /\ g[k] \in U
        BY <1>1, <2>1, <4>1
      <4> QED BY <1>3, <4>2
    <3> HIDE DEF v
    <3>2. h \in F /\ h[k + 1] = v /\ \A i \in 0 .. N : i # k + 1 => h[i] = g[i]
      BY <2>3, <3>1
    <3> HIDE DEF h, F
    <3>3. ASSUME NEW i \in 0 .. N, i <= k + 1 PROVE Eq(h, i)
      <4>1. CASE i = k + 1
        <5>1. h[k] = g[k] /\ i # 0 /\ i - 1 = k
          BY <1>0, <2>3, <3>2, <4>1
        <5> QED BY <3>2, <4>1, <5>1 DEF v
      <4>2. CASE i # k + 1
        <5>1. i <= k /\ (i # 0 => i - 1 \in 0 .. N /\ i - 1 # k + 1)
          BY <1>0, <3>3, <4>2
        <5> QED BY <2>1, <3>2, <4>2, <5>1
      <4> QED BY <4>1, <4>2
    <3> HIDE DEF Eq
    <3> QED BY <3>2, <3>3
  <2> QED BY <2>2, <2>3
<1>6. N \in S
  <2> HIDE DEF S
  <2> QED BY <1>0, <1>4, <1>5, Induction
<1>7. PICK g \in F : \A i \in 0 .. N : i <= N => Eq(g, i)
  BY <1>6
<1>8. \A i \in 0 .. N : Eq(g, i)
  <2> HIDE DEF Eq
  <2> QED BY <1>0, <1>7
<1>9. g = [i \in 0 .. N |-> IF i = 0 THEN <<>> ELSE NamesOf(r.frames[i]) \o g[i - 1]]
  BY <1>7, <1>8
<1> QED BY <1>0, <1>9 DEF Stacks

\* NamesUpto adds the names of one frame at a time.
LEMMA NamesUptoIs ==
  ASSUME NEW T, NEW r, r.frames \in Seq(Seq(T))
  PROVE  /\ NamesUpto(r)[0] = <<>>
         /\ \A i \in 1 .. Len(r.frames) :
              NamesUpto(r)[i] = NamesOf(r.frames[i]) \o NamesUpto(r)[i - 1]
         /\ \A i \in 0 .. Len(r.frames) : NamesUpto(r)[i] \in Seq({Name(s) : s \in T})
<1> DEFINE N == Len(r.frames)
           U == Seq({Name(s) : s \in T})
           g == NamesUpto(r)
<1>0. N \in Nat /\ N = Len(r.frames)
  OBVIOUS
<1>1. Stacks(g, r)
  <2> DEFINE Rhs(f) == [i \in 0 .. Len(r.frames) |->
                          IF i = 0 THEN <<>> ELSE NamesOf(r.frames[i]) \o f[i - 1]]
  <2>1. \E f : f = Rhs(f)
    BY StacksExist DEF Stacks
  <2>2. g = CHOOSE f : f = Rhs(f)
    BY DEF NamesUpto
  <2>3. g = Rhs(g)
    <3> HIDE DEF Rhs, g
    <3> QED BY <2>1, <2>2
  <2> QED BY <2>3 DEF Stacks
<1>2. \A i \in 1 .. N : NamesOf(r.frames[i]) \in U
  BY NamesOfSeq
<1>3. <<>> \in U
  OBVIOUS
<1>4. \A f, h \in U : f \o h \in U
  BY ConcatProperties
<1> HIDE DEF U, N, g
<1>5. g[0] = <<>> /\ \A i \in 1 .. N : g[i] = NamesOf(r.frames[i]) \o g[i - 1]
  <2>1. g = [i \in 0 .. N |->
               IF i = 0 THEN <<>> ELSE NamesOf(r.frames[i]) \o g[i - 1]]
    BY <1>0, <1>1 DEF Stacks
  <2>2. 0 \in 0 .. N /\ \A i \in 1 .. N : i \in 0 .. N /\ i # 0
    BY <1>0
  <2> QED BY <2>1, <2>2, Zenon
<1>6. \A i \in 0 .. N : g[i] \in U
  <2> DEFINE S == {k \in Nat : k <= N => g[k] \in U}
  <2>1. 0 \in S
    BY <1>0, <1>3, <1>5
  <2>2. ASSUME NEW k \in Nat, k \in S PROVE k + 1 \in S
    <3>1. CASE k + 1 <= N
      <4>1. PICK i \in 1 .. N : i = k + 1 /\ i - 1 = k
        BY <1>0, <3>1
      <4>2. g[i - 1] \in U /\ NamesOf(r.frames[i]) \in U
        BY <1>0, <1>2, <2>2, <3>1, <4>1
      <4>3. g[i] = NamesOf(r.frames[i]) \o g[i - 1]
        BY <1>5
      <4>4. g[i] \in U
        BY <1>4, <4>2, <4>3
      <4> QED BY <4>1, <4>4
    <3>2. CASE ~(k + 1 <= N)
      BY <3>2
    <3> QED BY <3>1, <3>2
  <2>3. Nat \subseteq S
    <3> HIDE DEF S
    <3> QED BY <2>1, <2>2, Induction
  <2> QED BY <1>0, <2>3
<1> QED BY <1>0, <1>5, <1>6 DEF U, g

-----------------------------------------------------------------------------
(* The place in a row                                                      *)

\* t frames of row r are taken, f are left; p symbols of frame t are taken, y
\* are left.
Place(r, f, y, t, p) ==
  /\ t \in 0 .. Len(r.frames) /\ p \in Nat
  /\ Len(f) = Len(r.frames) - t /\ \A i \in DOMAIN f : f[i] = r.frames[t + i]
  /\ t = 0 => y = <<>>
  /\ t # 0 => /\ Len(y) = Len(r.frames[t]) - p
              /\ \A j \in DOMAIN y : y[j] = r.frames[t][p + j]

\* The names of the first p symbols of f, reversed
FirstNames(f, p) == [j \in 1 .. p |-> Name(f[p + 1 - j])]

\* The names of what is taken, from the root to the leaf
NamesTaken(r, t, p) ==
  IF t = 0 THEN <<>> ELSE FirstNames(r.frames[t], p) \o NamesUpto(r)[t - 1]

\* The names of locations l, from the last to the first
NamesAt(str, fn, loc, l) ==
  [i \in 1 .. Len(l) |-> str[fn[loc[l[Len(l) + 1 - i]].line.function_id].name + 1]]

LEMMA FirstNamesSeq ==
  ASSUME NEW T, NEW f \in Seq(T), NEW p \in 0 .. Len(f)
  PROVE  FirstNames(f, p) \in Seq({Name(s) : s \in T})
<1> DEFINE U == {Name(s) : s \in T}
<1>1. \A s \in T : Name(s) \in U
  OBVIOUS
<1>2. \A j \in 1 .. p : f[p + 1 - j] \in T
  OBVIOUS
<1> HIDE DEF U
<1>3. FirstNames(f, p) \in Seq(U)
  BY <1>1, <1>2 DEF FirstNames
<1> QED BY <1>3 DEF U

\* A whole frame has been taken.
LEMMA TakenFrame ==
  ASSUME NEW T, NEW r, r.frames \in Seq(Seq(T)), NEW f, NEW t, NEW p,
         Place(r, f, <<>>, t, p)
  PROVE  /\ NamesTaken(r, t, p) = NamesUpto(r)[t]
         /\ t # 0 => p = Len(r.frames[t])
<1>1. t \in 0 .. Len(r.frames) /\ p \in Nat
  BY DEF Place
<1>2. CASE t = 0
  BY <1>2, NamesUptoIs DEF NamesTaken
<1>3. CASE t # 0
  <2>1. t \in 1 .. Len(r.frames) /\ r.frames[t] \in Seq(T)
    BY <1>1, <1>3
  <2>2. p = Len(r.frames[t])
    BY <1>1, <1>3, <2>1 DEF Place
  <2>3. FirstNames(r.frames[t], p) = NamesOf(r.frames[t])
    BY <2>1, <2>2 DEF FirstNames, NamesOf
  <2>4. NamesUpto(r)[t] = NamesOf(r.frames[t]) \o NamesUpto(r)[t - 1]
    BY <2>1, NamesUptoIs
  <2> QED BY <1>3, <2>2, <2>3, <2>4 DEF NamesTaken
<1> QED BY <1>2, <1>3

\* The next frame is taken.
LEMMA TakeFrame ==
  ASSUME NEW T, NEW r, r.frames \in Seq(Seq(T)), NEW f \in Seq(Seq(T)), f # <<>>,
         NEW t, NEW p, Place(r, f, <<>>, t, p)
  PROVE  /\ Place(r, Tail(f), Head(f), t + 1, 0)
         /\ NamesTaken(r, t + 1, 0) = NamesTaken(r, t, p)
<1>1. /\ t \in 0 .. Len(r.frames) /\ Len(f) = Len(r.frames) - t /\ Len(r.frames) \in Nat
      /\ \A i \in DOMAIN f : f[i] = r.frames[t + i]
  BY DEF Place
<1>2. /\ Len(f) \in Nat \ {0} /\ t + 1 \in 1 .. Len(r.frames) /\ 1 \in DOMAIN f
      /\ Len(Tail(f)) = Len(f) - 1 /\ Head(f) = f[1]
      /\ \A i \in 1 .. Len(f) - 1 : Tail(f)[i] = f[i + 1]
  BY <1>1
<1>3. Head(f) = r.frames[t + 1] /\ Head(f) \in Seq(T)
  BY <1>1, <1>2
<1>4. Place(r, Tail(f), Head(f), t + 1, 0)
  <2>1. ASSUME NEW i \in DOMAIN Tail(f) PROVE Tail(f)[i] = r.frames[t + 1 + i]
    <3>0. DOMAIN f = 1 .. Len(f) /\ DOMAIN Tail(f) = 1 .. Len(f) - 1
      <4>1. Tail(f) \in Seq(Seq(T))
        BY HeadTailProperties
      <4> QED BY <1>2, <4>1
    <3>1. i \in 1 .. Len(f) - 1 /\ Len(f) \in Nat /\ t \in Nat
      BY <1>1, <1>2, <3>0, SMTT(30)
    <3>2. i + 1 \in 1 .. Len(f) /\ t + (i + 1) = t + 1 + i
      BY <3>1
    <3>3. Tail(f)[i] = f[i + 1]
      BY <1>2, <3>1
    <3>4. f[i + 1] = r.frames[t + (i + 1)]
      BY <1>1, <3>0, <3>2
    <3> QED BY <3>2, <3>3, <3>4
  <2>2. Len(Tail(f)) = Len(r.frames) - (t + 1) /\ t + 1 # 0 /\ t + 1 \in 0 .. Len(r.frames)
    BY <1>1, <1>2
  <2>3. Len(Head(f)) = Len(r.frames[t + 1]) - 0
    BY <1>3
  <2>4. \A j \in DOMAIN Head(f) : Head(f)[j] = r.frames[t + 1][0 + j]
    BY <1>3
  <2> QED BY <2>1, <2>2, <2>3, <2>4 DEF Place
<1>5. NamesTaken(r, t + 1, 0) = NamesUpto(r)[t]
  <2>1. FirstNames(r.frames[t + 1], 0) = <<>>
    BY DEF FirstNames
  <2>2. NamesUpto(r)[t] \in Seq({Name(s) : s \in T})
    BY <1>1, NamesUptoIs
  <2>3. <<>> \o NamesUpto(r)[t] = NamesUpto(r)[t]
    BY <2>2
  <2>4. PICK u \in Nat : u = t + 1 /\ u # 0 /\ u - 1 = t
    BY <1>1
  <2>5. NamesTaken(r, u, 0) = FirstNames(r.frames[u], 0) \o NamesUpto(r)[u - 1]
    BY <2>4 DEF NamesTaken
  <2> QED BY <2>1, <2>3, <2>4, <2>5
<1> QED BY <1>4, <1>5, TakenFrame

\* s is the symbol of row r after the place t, p; its name comes before those
\* taken.
SymbolAt(r, t, p, s) ==
  /\ t \in 1 .. Len(r.frames)
  /\ p + 1 \in DOMAIN r.frames[t] /\ s = r.frames[t][p + 1]
  /\ NamesTaken(r, t, p + 1) = <<Name(s)>> \o NamesTaken(r, t, p)

\* The next symbol is taken.
LEMMA TakeSymbol ==
  ASSUME NEW T, NEW r, r.frames \in Seq(Seq(T)), NEW f, NEW y \in Seq(T), y # <<>>,
         NEW t, NEW p, Place(r, f, y, t, p)
  PROVE  Place(r, f, Tail(y), t, p + 1) /\ SymbolAt(r, t, p, Head(y))
<1>1. /\ t \in 1 .. Len(r.frames) /\ p \in Nat /\ Len(y) = Len(r.frames[t]) - p
      /\ \A j \in DOMAIN y : y[j] = r.frames[t][p + j]
  BY DEF Place
<1>2. /\ Len(y) \in Nat \ {0} /\ 1 \in DOMAIN y /\ Head(y) = y[1]
      /\ Len(Tail(y)) = Len(y) - 1
      /\ \A j \in 1 .. Len(y) - 1 : Tail(y)[j] = y[j + 1]
  OBVIOUS
<1>3. r.frames[t] \in Seq(T) /\ Len(r.frames[t]) \in Nat
  BY <1>1
<1>4. p + 1 \in DOMAIN r.frames[t] /\ Head(y) = r.frames[t][p + 1]
  BY <1>1, <1>2, <1>3
<1>5. Place(r, f, Tail(y), t, p + 1)
  <2>1. ASSUME NEW j \in DOMAIN Tail(y) PROVE Tail(y)[j] = r.frames[t][p + 1 + j]
    <3>1. j \in 1 .. Len(y) - 1 /\ j + 1 \in DOMAIN y /\ p + 1 + j = p + (j + 1)
      BY <1>1, <1>2, SMTT(30)
    <3>2. Tail(y)[j] = y[j + 1] /\ y[j + 1] = r.frames[t][p + (j + 1)]
      BY <1>1, <1>2, <3>1
    <3> QED BY <3>1, <3>2
  <2>2. Len(Tail(y)) = Len(r.frames[t]) - (p + 1) /\ p + 1 \in Nat /\ t # 0
    BY <1>1, <1>2, <1>3
  <2> QED BY <2>1, <2>2 DEF Place
<1>6. NamesTaken(r, t, p + 1) = <<Name(Head(y))>> \o NamesTaken(r, t, p)
  <2> DEFINE g == r.frames[t]
             U == {Name(s) : s \in T}
             n == Name(Head(y))
             A == FirstNames(g, p)
             B == NamesUpto(r)[t - 1]
  <2>0. g \in Seq(T) /\ p \in Nat /\ p + 1 \in 1 .. Len(g) /\ n = Name(g[p + 1])
    BY <1>1, <1>3, <1>4
  <2>1. A \in Seq(U) /\ FirstNames(g, p + 1) \in Seq(U)
    <3>1. p \in 0 .. Len(g) /\ p + 1 \in 0 .. Len(g)
      BY <2>0
    <3> QED BY <2>0, <3>1, FirstNamesSeq
  <2>2. n \in U
    BY <1>2
  <2>3. B \in Seq(U)
    <3>1. t - 1 \in 0 .. Len(r.frames)
      BY <1>1
    <3> QED BY <3>1, NamesUptoIs
  <2> HIDE DEF g, U, n, B
  <2>4. FirstNames(g, p + 1) = <<n>> \o A
    <3>1. Len(A) = p /\ Len(FirstNames(g, p + 1)) = p + 1
      BY <2>0 DEF FirstNames
    <3>2. <<n>> \o A \in Seq(U) /\ Len(<<n>> \o A) = p + 1
      BY <2>0, <2>1, <2>2, <3>1
    <3>3. ASSUME NEW j \in 1 .. p + 1 PROVE FirstNames(g, p + 1)[j] = (<<n>> \o A)[j]
      <4>1. FirstNames(g, p + 1)[j] = Name(g[p + 1 + 1 - j])
        BY <2>0 DEF FirstNames
      <4>2. CASE j = 1
        <5>1. (<<n>> \o A)[j] = n /\ p + 1 + 1 - j = p + 1
          BY <2>0, <2>1, <2>2, <4>2
        <5> QED BY <2>0, <4>1, <5>1
      <4>3. CASE j # 1
        <5>1. j - 1 \in 1 .. p /\ p + 1 - (j - 1) = p + 1 + 1 - j
          BY <2>0, <4>3
        <5> HIDE DEF A
        <5>2. (<<n>> \o A)[j] = A[j - 1]
          BY <2>0, <2>1, <2>2, <3>1, <4>3
        <5>3. A[j - 1] = Name(g[p + 1 - (j - 1)])
          BY <5>1 DEF A, FirstNames
        <5> QED BY <4>1, <5>1, <5>2, <5>3
      <4> QED BY <4>2, <4>3
    <3> HIDE DEF A
    <3> QED BY <2>1, <3>1, <3>2, <3>3, SeqEqual
  <2> HIDE DEF A
  <2>5. (<<n>> \o A) \o B = <<n>> \o (A \o B)
    <3>1. <<n>> \in Seq(U)
      BY <2>2
    <3> QED BY <2>1, <2>3, <3>1, ConcatAssociative
  <2>6. t # 0
    BY <1>1
  <2> QED BY <2>4, <2>5, <2>6 DEF NamesTaken, g, n, A, B
<1> QED BY <1>1, <1>4, <1>5, <1>6 DEF SymbolAt

-----------------------------------------------------------------------------
(* What the profile shows                                                  *)

\* The rows that are encoded
Rows == {r \in DOMAIN data \ left : stage = "row" => r # key}

FunctionsShown ==
  /\ \A n \in DOMAIN functions : Str(fn_tbl[functions[n]].name) = n
  /\ \A i \in DOMAIN fn_tbl : /\ DecodedSymbol(i) \in AllSymbols
                              /\ Str(fn_tbl[i].name) = Name(DecodedSymbol(i))

\* Each sample shows a row of its own, and the functions of the row are there.
RowsShown ==
  /\ \A r \in Rows : \A s \in SymbolsOf(r) : Name(s) \in DOMAIN functions
  /\ \E f \in Bijection(DOMAIN samples, Rows) :
       \A k \in DOMAIN samples : Decoded(samples[k]) = FlameLine(f[k])

\* The locations of the row show what is taken of it.
RowShown ==
  /\ key \notin left
  /\ \E t, p \in Nat :
       /\ Place(key, frames, symbols, t, p)
       /\ NamesAt(str_tbl, fn_tbl, loc_tbl, locs) = NamesTaken(key, t, p)
       /\ \A i \in 1 .. t : \A j \in DOMAIN key.frames[i] :
            (i = t => j <= p) => Name(key.frames[i][j]) \in DOMAIN functions

ShowInv ==
  /\ stage \in Encoding => FunctionsShown /\ RowsShown
  /\ stage = "row" => RowShown
  /\ stage = "done" => left = {}

\* One location more
LEMMA NamesAppend ==
  ASSUME NEW str, NEW fn, NEW loc, NEW D, NEW l \in Seq(D), NEW x \in D
  PROVE  NamesAt(str, fn, loc, Append(l, x))
           = <<str[fn[loc[x].line.function_id].name + 1]>> \o NamesAt(str, fn, loc, l)
<1> DEFINE name == [z \in D |-> str[fn[loc[z].line.function_id].name + 1]]
           U == {name[z] : z \in D}
           L == Append(l, x)
           A == NamesAt(str, fn, loc, l)
           n == Len(l)
<1>1. L \in Seq(D) /\ Len(L) = n + 1 /\ n \in Nat /\ L[n + 1] = x
      /\ \A i \in 1 .. n : L[i] = l[i]
  BY AppendProperties
<1>2. \A i \in 1 .. n : l[i] \in D
  OBVIOUS
<1>3. \A i \in 1 .. n + 1 : L[i] \in D
  <2> HIDE DEF L
  <2> QED BY <1>1
<1> HIDE DEF L, n
<1>4. A = [i \in 1 .. n |-> name[l[n + 1 - i]]]
  <2>1. \A i \in 1 .. n : n + 1 - i \in 1 .. n
    BY <1>1
  <2> QED BY <1>2, <2>1 DEF NamesAt, n
<1>5. NamesAt(str, fn, loc, L) = [i \in 1 .. n + 1 |-> name[L[n + 1 + 1 - i]]]
  <2>1. \A i \in 1 .. n + 1 : n + 1 + 1 - i \in 1 .. n + 1
    BY <1>1
  <2> QED BY <1>1, <1>3, <2>1 DEF NamesAt
<1>6. name[x] = str[fn[loc[x].line.function_id].name + 1]
  OBVIOUS
<1>7. \A z \in D : name[z] \in U
  OBVIOUS
<1> HIDE DEF name, U, A
<1>8. A \in Seq(U) /\ Len(A) = n
  <2>1. \A i \in 1 .. n : l[n + 1 - i] \in D
    BY <1>1, <1>2
  <2> QED BY <1>1, <1>4, <1>7, <2>1
<1>9. NamesAt(str, fn, loc, L) \in Seq(U) /\ Len(NamesAt(str, fn, loc, L)) = n + 1
  <2>1. \A i \in 1 .. n + 1 : L[n + 1 + 1 - i] \in D
    BY <1>1, <1>3
  <2> QED BY <1>1, <1>5, <1>7, <2>1
<1>10. <<name[x]>> \o A \in Seq(U) /\ Len(<<name[x]>> \o A) = n + 1
  BY <1>1, <1>7, <1>8
<1>11. ASSUME NEW i \in 1 .. n + 1
       PROVE  NamesAt(str, fn, loc, L)[i] = (<<name[x]>> \o A)[i]
  <2>1. NamesAt(str, fn, loc, L)[i] = name[L[n + 1 + 1 - i]]
    BY <1>5
  <2>2. CASE i = 1
    <3>1. n + 1 + 1 - i = n + 1 /\ (<<name[x]>> \o A)[i] = name[x]
      BY <1>1, <1>7, <1>8, <2>2
    <3> QED BY <1>1, <2>1, <3>1
  <2>3. CASE i # 1
    <3>1. i - 1 \in 1 .. n /\ n + 1 + 1 - i \in 1 .. n /\ n + 1 - (i - 1) = n + 1 + 1 - i
      BY <1>1, <2>3
    <3>2. (<<name[x]>> \o A)[i] = A[i - 1]
      BY <1>1, <1>7, <1>8, <2>3
    <3>3. A[i - 1] = name[l[n + 1 - (i - 1)]]
      BY <1>4, <3>1
    <3>4. L[n + 1 + 1 - i] = l[n + 1 + 1 - i]
      BY <1>1, <3>1
    <3> QED BY <2>1, <3>1, <3>2, <3>3, <3>4
  <2> QED BY <2>2, <2>3
<1>12. NamesAt(str, fn, loc, L) = <<name[x]>> \o A
  BY <1>9, <1>10, <1>11, SeqEqual
<1> QED BY <1>6, <1>12 DEF A, L

\* Names stay when the tables grow.
LEMMA NamesStay ==
  ASSUME NEW str, NEW fn, NEW loc, NEW fn2, NEW loc2, NEW D, NEW l \in Seq(D),
         \A i \in D : /\ loc[i].line.function_id = i
                      /\ fn2[i] = fn[i] /\ loc2[i] = loc[i]
  PROVE  NamesAt(str, fn2, loc2, l) = NamesAt(str, fn, loc, l)
<1>1. \A i \in 1 .. Len(l) : l[Len(l) + 1 - i] \in D
  OBVIOUS
<1> QED BY <1>1, ZenonT(30) DEF NamesAt

LEMMA DecodedIs ==
  ASSUME NEW x
  PROVE  Decoded(x) = [thread |-> str_tbl[x.label.str + 1],
                       stack  |-> NamesAt(str_tbl, fn_tbl, loc_tbl, x.location_id),
                       count  |-> x.value[1]]
  BY DEF Decoded, NamesAt, Str

\* Steps that leave the tables as they are
LEMMA SameFunctions ==
  ASSUME FunctionsShown, UNCHANGED <<data, str_tbl, functions, fn_tbl, loc_tbl>>
  PROVE  FunctionsShown'
  BY DEF FunctionsShown, AllSymbols, SymbolsOf, DecodedSymbol, Str, Name

LEMMA SameRows ==
  ASSUME RowsShown, UNCHANGED <<data, str_tbl, functions, fn_tbl, loc_tbl, samples>>,
         Rows' = Rows
  PROVE  RowsShown'
<1>1. PICK f \in Bijection(DOMAIN samples, Rows) :
        \A k \in DOMAIN samples : Decoded(samples[k]) = FlameLine(f[k])
  BY DEF RowsShown
<1>2. \A k \in DOMAIN samples' : Decoded(samples[k])' = FlameLine(f[k])'
  BY <1>1 DEF Decoded, FlameLine, Str
<1>3. f \in Bijection(DOMAIN samples', Rows')
  BY <1>1
<1>4. \A r \in Rows' : \A s \in SymbolsOf(r) : Name(s) \in DOMAIN functions'
  BY DEF RowsShown
<1> QED BY <1>2, <1>3, <1>4 DEF RowsShown

LEMMA SameRow ==
  ASSUME RowShown,
         UNCHANGED <<left, key, frames, symbols, locs, str_tbl, functions, fn_tbl, loc_tbl>>
  PROVE  RowShown'
  BY DEF RowShown

\* What of the tables' invariant the steps need
LEMMA TablesFacts ==
  ASSUME EncodeInv, DataInv, stage \in Encoding
  PROVE  /\ \A i \in DOMAIN fn_tbl : loc_tbl[i].line.function_id = i
         /\ fn_tbl \in Seq(FunctionMessage) /\ loc_tbl \in Seq(LocationMessage)
         /\ Len(loc_tbl) = Len(fn_tbl) /\ samples \in Seq(SampleMessage)
         /\ \A n \in DOMAIN functions : functions[n] \in DOMAIN fn_tbl
         /\ \A k \in DOMAIN samples : samples[k].location_id \in Seq(DOMAIN fn_tbl)
         /\ \A x \in Strings : x \in DOMAIN strings /\ Str(strings[x]) = x
         /\ \A r \in DOMAIN data : r.frames \in Seq(Seq(SymbolsOf(r)))
<1>1. TablesInv /\ TablesRefer /\ StringsInv /\ dedup_str = {}
  BY DEF EncodeInv, TablesInv, Encoding, Building
<1>2. DOMAIN fn_tbl = DOMAIN loc_tbl
  BY <1>1 DEF TablesRefer
<1>3. ASSUME NEW k \in DOMAIN samples
      PROVE  samples[k].location_id \in Seq(DOMAIN fn_tbl)
  <2>1. samples[k].location_id \in Seq(Nat)
    <3>1. samples[k] \in SampleMessage
      BY <1>1 DEF TablesRefer
    <3> QED BY <3>1 DEF SampleMessage
  <2>2. \A j \in DOMAIN samples[k].location_id : samples[k].location_id[j] \in DOMAIN fn_tbl
    BY <1>1, <1>2 DEF TablesRefer
  <2> QED BY <2>1, <2>2
<1>4. \A x \in Strings : x \in DOMAIN strings /\ Str(strings[x]) = x
  BY <1>1 DEF StringsInv
<1>5. \A r \in DOMAIN data : r.frames \in Seq(Seq(SymbolsOf(r)))
  BY RowParts DEF DataInv
<1> QED BY <1>1, <1>3, <1>4, <1>5 DEF TablesRefer, TablesInv

LEMMA StartRowsShow ==
  ASSUME EncodeInv, StartRows PROVE ShowInv'
<1>1. /\ stage = "strings" /\ stage' = "rows" /\ left' = DOMAIN data
      /\ functions = <<>> /\ fn_tbl = <<>> /\ samples = <<>>
      /\ UNCHANGED <<data, functions, fn_tbl, samples>>
  BY DEF StartRows, outVars, EncodeInv, Encoding
<1>2. Rows' = {}
  BY <1>1 DEF Rows
<1>3. RowsShown'
  <2>1. <<>> \in Bijection({}, {})
    BY DEF Bijection, Injection, Surjection, IsInjective
  <2>2. DOMAIN samples' = {}
    BY <1>1
  <2>3. \A k \in {} : Decoded(samples[k])' = FlameLine(<<>>[k])'
    OBVIOUS
  <2> QED BY <1>2, <2>1, <2>2, <2>3 DEF RowsShown
<1>4. FunctionsShown'
  BY <1>1 DEF FunctionsShown
<1> QED BY <1>1, <1>3, <1>4 DEF ShowInv

LEMMA NextRowShow ==
  ASSUME EncodeInv, DataInv, ShowInv, NextRow PROVE ShowInv'
<1>1. PICK r \in left : key' = r /\ frames' = r.frames /\ left' = left \ {r}
  BY DEF NextRow
<1>2. /\ stage = "rows" /\ stage' = "row" /\ symbols' = <<>> /\ locs' = <<>>
      /\ UNCHANGED <<data, str_tbl, functions, fn_tbl, loc_tbl, samples>>
  BY DEF NextRow, tableVars, outVars
<1>3. stage \in Encoding /\ r \in DOMAIN data
  BY <1>1, <1>2 DEF EncodeInv, Encoding
<1>4. Rows' = Rows
  BY <1>1, <1>2, <1>3 DEF Rows
<1>5. FunctionsShown' /\ RowsShown'
  BY <1>2, <1>3, <1>4, SameFunctions, SameRows DEF ShowInv
<1>6. r.frames \in Seq(Seq(SymbolsOf(r)))
  BY <1>3, TablesFacts
<1>7. Place(r, r.frames, <<>>, 0, 0)
  <2> DEFINE T == Seq(SymbolsOf(r))
             g == r.frames
  <2>1. g \in Seq(T)
    BY <1>6
  <2> HIDE DEF T, g
  <2>2. Len(g) \in Nat /\ \A i \in DOMAIN g : i = 0 + i
    BY <2>1
  <2>3. /\ 0 \in 0 .. Len(g) /\ 0 \in Nat /\ Len(g) = Len(g) - 0
        /\ \A i \in DOMAIN g : g[i] = g[0 + i]
    BY <2>1, <2>2
  <2> QED BY <2>3 DEF Place, g
<1>8. NamesAt(str_tbl', fn_tbl', loc_tbl', <<>>) = <<>>
  BY DEF NamesAt
<1>9. NamesTaken(r, 0, 0) = <<>>
  BY DEF NamesTaken
<1>10. \A i \in 1 .. 0 : FALSE
  OBVIOUS
<1>11. RowShown'
  BY <1>1, <1>2, <1>7, <1>8, <1>9, <1>10 DEF RowShown
<1> QED BY <1>2, <1>5, <1>11 DEF ShowInv

LEMMA NextFrameShow ==
  ASSUME EncodeInv, DataInv, ShowInv, NextFrame PROVE ShowInv'
<1>1. /\ stage = "row" /\ stage' = "row" /\ symbols = <<>> /\ frames # <<>>
      /\ symbols' = Head(frames) /\ frames' = Tail(frames)
      /\ UNCHANGED <<left, key, locs, data, str_tbl, functions, fn_tbl, loc_tbl, samples>>
  BY DEF NextFrame, tableVars, outVars
<1>2. stage \in Encoding
  BY <1>1 DEF Encoding
<1>3. Rows' = Rows
  BY <1>1 DEF Rows
<1>4. FunctionsShown' /\ RowsShown'
  BY <1>1, <1>2, <1>3, SameFunctions, SameRows DEF ShowInv
<1>5. PICK t, p \in Nat :
        /\ Place(key, frames, symbols, t, p)
        /\ NamesAt(str_tbl, fn_tbl, loc_tbl, locs) = NamesTaken(key, t, p)
        /\ \A i \in 1 .. t : \A j \in DOMAIN key.frames[i] :
             (i = t => j <= p) => Name(key.frames[i][j]) \in DOMAIN functions
  BY <1>1 DEF ShowInv, RowShown
<1>6. /\ key \in DOMAIN data /\ frames \in Seq(Seq(SymbolsOf(key)))
      /\ key.frames \in Seq(Seq(SymbolsOf(key)))
  BY <1>1, <1>2, TablesFacts DEF EncodeInv, RowInv
<1>7. /\ Place(key, frames', symbols', t + 1, 0)
      /\ NamesTaken(key, t + 1, 0) = NamesTaken(key, t, p)
      /\ t # 0 => p = Len(key.frames[t])
  <2> DEFINE T == SymbolsOf(key)
  <2>1. /\ key.frames \in Seq(Seq(T)) /\ frames \in Seq(Seq(T)) /\ frames # <<>>
        /\ Place(key, frames, <<>>, t, p)
    BY <1>1, <1>5, <1>6
  <2> HIDE DEF T
  <2>2. /\ Place(key, Tail(frames), Head(frames), t + 1, 0)
        /\ NamesTaken(key, t + 1, 0) = NamesTaken(key, t, p)
    BY <2>1, TakeFrame, ZenonT(30)
  <2>3. t # 0 => p = Len(key.frames[t])
    BY <2>1, TakenFrame
  <2> QED BY <1>1, <2>2, <2>3
<1>8. ASSUME NEW i \in 1 .. t + 1, NEW j \in DOMAIN key.frames[i], i = t + 1 => j <= 0
      PROVE  Name(key.frames[i][j]) \in DOMAIN functions
  <2>0. t \in 0 .. Len(key.frames) /\ t + 1 \in 1 .. Len(key.frames)
    <3>1. t \in 0 .. Len(key.frames) /\ t + 1 \in 0 .. Len(key.frames)
      BY <1>5, <1>7 DEF Place
    <3> QED BY <3>1
  <2>1. key.frames[i] \in Seq(SymbolsOf(key))
    BY <1>6, <2>0
  <2>2. j \in 1 .. Len(key.frames[i])
    BY <2>1
  <2>3. i \in 1 .. t
    BY <1>8, <2>0, <2>2
  <2>4. i = t => j <= p
    BY <1>7, <2>2, <2>3
  <2> QED BY <1>5, <2>3, <2>4
<1>9. RowShown'
  <2>1. t + 1 \in Nat /\ 0 \in Nat
    OBVIOUS
  <2>2. NamesAt(str_tbl', fn_tbl', loc_tbl', locs') = NamesTaken(key, t + 1, 0)
    BY <1>1, <1>5, <1>7
  <2> QED BY <1>1, <1>7, <1>8, <2>1, <2>2 DEF RowShown, ShowInv
<1> QED BY <1>1, <1>4, <1>9 DEF ShowInv

\* A symbol of the row is taken, and its name added to those of the locations.
LEMMA SymbolTaken ==
  ASSUME EncodeInv, DataInv, ShowInv, stage = "row", symbols # <<>>,
         symbols' = Tail(symbols), UNCHANGED <<left, key, frames>>,
         DOMAIN functions \cup {Name(Head(symbols))} \subseteq DOMAIN functions',
         NamesAt(str_tbl', fn_tbl', loc_tbl', locs')
           = <<Name(Head(symbols))>> \o NamesAt(str_tbl, fn_tbl, loc_tbl, locs)
  PROVE  RowShown'
<1>1. stage \in Encoding
  BY DEF Encoding
<1>2. PICK t, p \in Nat :
        /\ Place(key, frames, symbols, t, p)
        /\ NamesAt(str_tbl, fn_tbl, loc_tbl, locs) = NamesTaken(key, t, p)
        /\ \A i \in 1 .. t : \A j \in DOMAIN key.frames[i] :
             (i = t => j <= p) => Name(key.frames[i][j]) \in DOMAIN functions
  BY DEF ShowInv, RowShown
<1>3. /\ key \in DOMAIN data /\ symbols \in Seq(SymbolsOf(key))
      /\ key.frames \in Seq(Seq(SymbolsOf(key)))
  BY <1>1, TablesFacts DEF EncodeInv, RowInv
<1>4. /\ t \in 1 .. Len(key.frames) /\ p + 1 \in DOMAIN key.frames[t]
      /\ Head(symbols) = key.frames[t][p + 1]
      /\ Place(key, frames, Tail(symbols), t, p + 1)
      /\ NamesTaken(key, t, p + 1) = <<Name(Head(symbols))>> \o NamesTaken(key, t, p)
  <2> DEFINE T == SymbolsOf(key)
  <2>1. key.frames \in Seq(Seq(T)) /\ symbols \in Seq(T)
    BY <1>3
  <2>2. Place(key, frames, symbols, t, p) /\ symbols # <<>>
    BY <1>2
  <2> HIDE DEF T
  <2>3. Place(key, frames, Tail(symbols), t, p + 1) /\ SymbolAt(key, t, p, Head(symbols))
    BY <2>1, <2>2, TakeSymbol
  <2> QED BY <2>3 DEF SymbolAt
<1>5. ASSUME NEW i \in 1 .. t, NEW j \in DOMAIN key.frames[i], i = t => j <= p + 1
      PROVE  Name(key.frames[i][j]) \in DOMAIN functions'
  <2>1. CASE i = t /\ j = p + 1
    BY <1>4, <2>1
  <2>2. CASE ~(i = t /\ j = p + 1)
    <3>1. key.frames[i] \in Seq(SymbolsOf(key))
      BY <1>3, <1>4
    <3>2. j \in Nat
      BY <3>1
    <3>3. i = t => j <= p
      BY <1>5, <2>2, <3>2
    <3> QED BY <1>2, <3>3
  <2> QED BY <2>1, <2>2
<1>6. NamesAt(str_tbl', fn_tbl', loc_tbl', locs') = NamesTaken(key, t, p + 1)
  BY <1>2, <1>4
<1>7. p + 1 \in Nat
  OBVIOUS
<1> QED BY <1>2, <1>4, <1>5, <1>6, <1>7 DEF RowShown, ShowInv

LEMMA KnownSymbolShow ==
  ASSUME EncodeInv, DataInv, ShowInv, KnownSymbol PROVE ShowInv'
<1> DEFINE n == Name(Head(symbols))
<1>1. /\ stage = "row" /\ stage' = "row" /\ symbols # <<>> /\ n \in DOMAIN functions
      /\ locs' = Append(locs, functions[n]) /\ symbols' = Tail(symbols)
      /\ UNCHANGED <<left, key, frames, data, str_tbl, functions, fn_tbl, loc_tbl, samples>>
  BY DEF KnownSymbol, tableVars, outVars
<1>2. stage \in Encoding /\ locs \in Seq(DOMAIN fn_tbl)
  BY <1>1 DEF Encoding, EncodeInv, RowInv
<1>3. Rows' = Rows
  BY <1>1 DEF Rows
<1>4. FunctionsShown' /\ RowsShown'
  BY <1>1, <1>2, <1>3, SameFunctions, SameRows DEF ShowInv
<1>5. functions[n] \in DOMAIN fn_tbl /\ loc_tbl[functions[n]].line.function_id = functions[n]
  BY <1>1, <1>2, TablesFacts
<1>6. str_tbl[fn_tbl[functions[n]].name + 1] = n
  BY <1>1, <1>2 DEF ShowInv, FunctionsShown, Str
<1>7. NamesAt(str_tbl, fn_tbl, loc_tbl, Append(locs, functions[n]))
        = <<n>> \o NamesAt(str_tbl, fn_tbl, loc_tbl, locs)
  <2> HIDE DEF n
  <2>1. NamesAt(str_tbl, fn_tbl, loc_tbl, Append(locs, functions[n]))
          = <<str_tbl[fn_tbl[loc_tbl[functions[n]].line.function_id].name + 1]>>
              \o NamesAt(str_tbl, fn_tbl, loc_tbl, locs)
    BY <1>2, <1>5, NamesAppend
  <2> QED BY <1>5, <1>6, <2>1
<1>8. RowShown'
  BY <1>1, <1>7, SymbolTaken
<1> QED BY <1>1, <1>4, <1>8 DEF ShowInv

LEMMA NewSymbolShow ==
  ASSUME EncodeInv, DataInv, ShowInv, NewSymbol PROVE ShowInv'
<1> DEFINE s == Head(symbols)
           n == Len(fn_tbl) + 1
           D == DOMAIN fn_tbl
<1>1. /\ stage = "row" /\ stage' = "row" /\ symbols # <<>> /\ symbols' = Tail(symbols)
      /\ UNCHANGED <<left, key, frames, data, dedup_str, str_tbl, strings, samples>>
  BY DEF NewSymbol, tableVars
<1>2. /\ functions' = [m \in DOMAIN functions \cup {Name(s)} |->
                         IF m = Name(s) THEN n ELSE functions[m]]
      /\ fn_tbl' = Append(fn_tbl, Function(s))
      /\ loc_tbl' = Append(loc_tbl, Location(s))
      /\ locs' = Append(locs, n)
  BY DEF NewSymbol, FunctionId
<1>3. stage \in Encoding /\ RowInv
  BY <1>1 DEF Encoding, EncodeInv
<1>4. /\ \A i \in D : loc_tbl[i].line.function_id = i
      /\ fn_tbl \in Seq(FunctionMessage) /\ loc_tbl \in Seq(LocationMessage)
      /\ Len(loc_tbl) = Len(fn_tbl) /\ locs \in Seq(D)
      /\ \A m \in DOMAIN functions : functions[m] \in D
      /\ \A x \in Strings : x \in DOMAIN strings /\ Str(strings[x]) = x
  BY <1>3, TablesFacts DEF RowInv
<1>5. \A k \in DOMAIN samples : samples[k].location_id \in Seq(D)
  BY <1>3, TablesFacts
<1>6. s \in SymbolsOf(key) /\ key \in DOMAIN data /\ IsSymbol(s)
  <2>1. s \in SymbolsOf(key) /\ key \in DOMAIN data
    BY <1>1, <1>3, HeadSymbol DEF RowInv
  <2>2. \A x \in SymbolsOf(key) : IsSymbol(x)
    BY <2>1, RowParts DEF DataInv
  <2> QED BY <2>1, <2>2
<1>7. /\ Str(strings[Name(s)]) = Name(s) /\ Str(strings[s.name]) = s.name
      /\ Str(strings[s.filename]) = s.filename
  BY <1>4, <1>6, RowStringsKnown
<1>8. s \in AllSymbols
  BY <1>6 DEF AllSymbols
<1> HIDE DEF s, D
<1>9. /\ D = 1 .. Len(fn_tbl) /\ DOMAIN fn_tbl' = 1 .. n /\ n \in Nat \ {0}
      /\ n \notin D /\ Len(fn_tbl) \in Nat
      /\ \A i \in D : fn_tbl'[i] = fn_tbl[i] /\ loc_tbl'[i] = loc_tbl[i]
      /\ fn_tbl'[n] = Function(s) /\ loc_tbl'[n] = Location(s)
  BY <1>2, <1>4 DEF D
<1>10. /\ Function(s).name = strings[Name(s)] /\ Function(s).system_name = strings[s.name]
       /\ Function(s).filename = strings[s.filename]
       /\ Location(s).line.line = s.lineno /\ Location(s).line.function_id = n
  BY DEF Function, Location, FunctionId
<1>11. FunctionsShown /\ RowsShown
  BY <1>3 DEF ShowInv
<1>12. FunctionsShown'
  <2>0. AllSymbols' = AllSymbols
    BY <1>1 DEF AllSymbols, SymbolsOf
  <2>1. ASSUME NEW m \in DOMAIN functions'
        PROVE  str_tbl'[fn_tbl'[functions'[m]].name + 1] = m
    <3>1. CASE m = Name(s)
      <4>1. functions'[m] = n
        BY <1>2, <3>1
      <4> QED BY <1>1, <1>7, <1>9, <1>10, <3>1, <4>1 DEF Str
    <3>2. CASE m # Name(s)
      <4>1. m \in DOMAIN functions /\ functions'[m] = functions[m]
        BY <1>2, <2>1, <3>2
      <4> QED BY <1>1, <1>4, <1>9, <1>11, <4>1 DEF FunctionsShown, Str
    <3> QED BY <3>1, <3>2
  <2>2. ASSUME NEW i \in DOMAIN fn_tbl'
        PROVE  /\ DecodedSymbol(i)' \in AllSymbols
               /\ str_tbl'[fn_tbl'[i].name + 1] = Name(DecodedSymbol(i)')
    <3>1. CASE i \in D
      <4>1. DecodedSymbol(i)' = DecodedSymbol(i)
        BY <1>1, <1>9, <3>1 DEF DecodedSymbol, Str
      <4> QED BY <1>1, <1>9, <1>11, <3>1, <4>1 DEF FunctionsShown, Str, D
    <3>2. CASE i = n
      <4>1. DecodedSymbol(i)' = [name |-> s.name, filename |-> s.filename, lineno |-> s.lineno]
        BY <1>1, <1>7, <1>9, <1>10, <3>2 DEF DecodedSymbol, Str
      <4>2. DecodedSymbol(i)' = s
        BY <1>6, <4>1 DEF IsSymbol
      <4> QED BY <1>1, <1>7, <1>8, <1>9, <1>10, <3>2, <4>2 DEF Str
    <3> QED BY <1>9, <3>1, <3>2
  <2>3. \A i \in DOMAIN fn_tbl' : Name(DecodedSymbol(i))' = Name(DecodedSymbol(i)')
    BY DEF Name
  <2> QED BY <2>0, <2>1, <2>2, <2>3 DEF FunctionsShown, Str
<1>13. RowsShown'
  <2>1. Rows' = Rows
    BY <1>1 DEF Rows
  <2>2. PICK f \in Bijection(DOMAIN samples, Rows) :
          \A k \in DOMAIN samples : Decoded(samples[k]) = FlameLine(f[k])
    BY <1>11 DEF RowsShown
  <2>3. ASSUME NEW k \in DOMAIN samples' PROVE Decoded(samples[k])' = FlameLine(f[k])'
    <3>1. k \in DOMAIN samples
      BY <1>1
    <3>2. NamesAt(str_tbl, fn_tbl', loc_tbl', samples[k].location_id)
            = NamesAt(str_tbl, fn_tbl, loc_tbl, samples[k].location_id)
      <4> DEFINE l == samples[k].location_id
      <4>1. l \in Seq(D)
        BY <1>5, <3>1
      <4>2. \A i \in D : /\ loc_tbl[i].line.function_id = i
                        /\ fn_tbl'[i] = fn_tbl[i] /\ loc_tbl'[i] = loc_tbl[i]
        BY <1>4, <1>9
      <4> HIDE DEF l
      <4>3. NamesAt(str_tbl, fn_tbl', loc_tbl', l) = NamesAt(str_tbl, fn_tbl, loc_tbl, l)
        BY <4>1, <4>2, NamesStay
      <4> QED BY <4>3 DEF l
    <3>3. Decoded(samples[k])'
            = [thread |-> str_tbl[samples[k].label.str + 1],
               stack  |-> NamesAt(str_tbl, fn_tbl', loc_tbl', samples[k].location_id),
               count  |-> samples[k].value[1]]
      BY <1>1 DEF Decoded, NamesAt, Str
    <3>4. Decoded(samples[k])' = Decoded(samples[k])
      BY <3>2, <3>3, DecodedIs
    <3>5. FlameLine(f[k])' = FlameLine(f[k])
      BY <1>1 DEF FlameLine
    <3> QED BY <2>2, <3>1, <3>4, <3>5
  <2>4. \A r \in Rows' : \A x \in SymbolsOf(r) : Name(x) \in DOMAIN functions'
    BY <1>2, <1>11, <2>1 DEF RowsShown
  <2>5. f \in Bijection(DOMAIN samples', Rows')
    BY <1>1, <2>1
  <2> QED BY <2>3, <2>4, <2>5 DEF RowsShown
<1>14. NamesAt(str_tbl', fn_tbl', loc_tbl', locs')
         = <<Name(s)>> \o NamesAt(str_tbl, fn_tbl, loc_tbl, locs)
  <2> DEFINE E == DOMAIN fn_tbl'
  <2>1. n \in E /\ locs \in Seq(E)
    <3>1. D \subseteq E
      BY <1>9
    <3> QED BY <1>4, <1>9, <3>1, SeqMonotonic
  <2> HIDE DEF E, n
  <2>2. NamesAt(str_tbl', fn_tbl', loc_tbl', Append(locs, n))
          = <<str_tbl'[fn_tbl'[loc_tbl'[n].line.function_id].name + 1]>>
              \o NamesAt(str_tbl', fn_tbl', loc_tbl', locs)
    BY <2>1, NamesAppend
  <2>3. str_tbl'[fn_tbl'[loc_tbl'[n].line.function_id].name + 1] = Name(s)
    BY <1>1, <1>7, <1>9, <1>10 DEF Str
  <2>4. NamesAt(str_tbl, fn_tbl', loc_tbl', locs) = NamesAt(str_tbl, fn_tbl, loc_tbl, locs)
    BY <1>4, <1>9, NamesStay, SMTT(30)
  <2> QED BY <1>1, <1>2, <2>2, <2>3, <2>4
<1>15. RowShown'
  <2>1. DOMAIN functions \cup {Name(s)} \subseteq DOMAIN functions'
    BY <1>2
  <2> QED BY <1>1, <1>14, <2>1, SymbolTaken DEF s
<1> QED BY <1>1, <1>12, <1>13, <1>15 DEF ShowInv

\* A pairing with one pair more
LEMMA OneMore ==
  ASSUME NEW n \in Nat, NEW R, NEW f \in Bijection(1 .. n, R), NEW x, x \notin R
  PROVE  [k \in 1 .. n + 1 |-> IF k = n + 1 THEN x ELSE f[k]]
           \in Bijection(1 .. n + 1, R \cup {x})
<1> DEFINE S == 1 .. n
           T == 1 .. n + 1
           g == [k \in T |-> IF k = n + 1 THEN x ELSE f[k]]
<1>1. T = S \cup {n + 1} /\ n + 1 \notin S
  OBVIOUS
<1>2. /\ f \in [S -> R] /\ \A a, b \in S : f[a] = f[b] => a = b
      /\ \A r \in R : \E a \in S : f[a] = r
  BY DEF Bijection, Injection, Surjection, IsInjective
<1>3. g[n + 1] = x /\ \A a \in S : g[a] = f[a] /\ g[a] \in R
  <2> HIDE DEF S
  <2> QED BY <1>1, <1>2
<1>4. g \in [T -> R \cup {x}]
  <2> HIDE DEF S
  <2> QED BY <1>1, <1>2
<1> HIDE DEF S, T, g
<1>5. \A a, b \in T : g[a] = g[b] => a = b
  BY <1>1, <1>2, <1>3
<1>6. \A r \in R \cup {x} : \E a \in T : g[a] = r
  BY <1>1, <1>2, <1>3
<1>7. g \in Bijection(T, R \cup {x})
  BY <1>4, <1>5, <1>6 DEF Bijection, Injection, Surjection, IsInjective
<1> QED BY <1>7 DEF T, g

LEMMA EmitSampleShow ==
  ASSUME EncodeInv, DataInv, ShowInv, EmitSample PROVE ShowInv'
<1> DEFINE s == Sample(key)
           n == Len(samples)
<1>1. /\ stage = "row" /\ stage' = "rows" /\ symbols = <<>> /\ frames = <<>>
      /\ samples' = Append(samples, s)
      /\ UNCHANGED <<left, data, str_tbl, strings, functions, fn_tbl, loc_tbl>>
  BY DEF EmitSample, tableVars, rowVars
<1>2. stage \in Encoding /\ RowInv /\ key \notin left
  BY <1>1 DEF Encoding, EncodeInv, ShowInv, RowShown
<1>3. /\ key \in DOMAIN data /\ key.frames \in Seq(Seq(SymbolsOf(key)))
      /\ samples \in Seq(SampleMessage)
      /\ \A x \in Strings : x \in DOMAIN strings /\ Str(strings[x]) = x
  BY <1>2, TablesFacts DEF RowInv
<1>4. FunctionsShown /\ RowsShown
  BY <1>2 DEF ShowInv
<1>5. FunctionsShown'
  BY <1>1, <1>4, SameFunctions
<1>6. Rows' = Rows \cup {key} /\ key \notin Rows
  BY <1>1, <1>2, <1>3 DEF Rows
<1>7. PICK t, p \in Nat :
        /\ Place(key, frames, symbols, t, p)
        /\ NamesAt(str_tbl, fn_tbl, loc_tbl, locs) = NamesTaken(key, t, p)
        /\ \A i \in 1 .. t : \A j \in DOMAIN key.frames[i] :
             (i = t => j <= p) => Name(key.frames[i][j]) \in DOMAIN functions
  BY <1>1 DEF ShowInv, RowShown
<1>8. /\ t = Len(key.frames)
      /\ NamesTaken(key, t, p) = NamesUpto(key)[t]
      /\ t # 0 => p = Len(key.frames[t])
  <2> DEFINE T == SymbolsOf(key)
  <2>1. key.frames \in Seq(Seq(T)) /\ Place(key, <<>>, <<>>, t, p)
    BY <1>1, <1>3, <1>7
  <2> HIDE DEF T
  <2>2. t = Len(key.frames)
    <3>1. Len(key.frames) \in Nat /\ Len(<<>>) = Len(key.frames) - t
      BY <2>1 DEF Place
    <3> QED BY <3>1
  <2> QED BY <2>1, <2>2, TakenFrame
<1>9. \A x \in SymbolsOf(key) : Name(x) \in DOMAIN functions
  <2> SUFFICES ASSUME NEW i \in DOMAIN key.frames, NEW j \in DOMAIN key.frames[i]
               PROVE  Name(key.frames[i][j]) \in DOMAIN functions
    BY DEF SymbolsOf
  <2>1. i \in 1 .. t /\ key.frames[i] \in Seq(SymbolsOf(key))
    BY <1>3, <1>8
  <2>2. i = t => j <= p
    BY <1>8, <2>1
  <2> QED BY <1>7, <2>1, <2>2
<1>10. Decoded(s) = FlameLine(key)
  <2>1. Str(strings[ThreadNameOrId(key)]) = ThreadNameOrId(key)
    BY <1>3, RowStringsKnown
  <2>2. /\ s.location_id = locs /\ s.value[1] = data[key]
        /\ s.label.str = strings[ThreadNameOrId(key)]
    BY DEF Sample
  <2>3. NamesAt(str_tbl, fn_tbl, loc_tbl, locs) = RootToLeaf(key)
    BY <1>7, <1>8 DEF RootToLeaf
  <2>4. Decoded(s) = [thread |-> str_tbl[s.label.str + 1],
                    stack  |-> NamesAt(str_tbl, fn_tbl, loc_tbl, s.location_id),
                    count  |-> s.value[1]]
    BY DecodedIs
  <2> HIDE DEF s
  <2> QED BY <2>1, <2>2, <2>3, <2>4 DEF FlameLine, Str
<1> HIDE DEF s
<1>11. /\ n \in Nat /\ DOMAIN samples = 1 .. n /\ DOMAIN samples' = 1 .. n + 1
       /\ samples'[n + 1] = s /\ \A k \in 1 .. n : samples'[k] = samples[k]
  BY <1>1, <1>3
<1> HIDE DEF n
<1>12. RowsShown'
  <2>1. PICK f \in Bijection(1 .. n, Rows) :
          \A k \in 1 .. n : Decoded(samples[k]) = FlameLine(f[k])
    BY <1>4, <1>11 DEF RowsShown
  <2>2. PICK g \in Bijection(DOMAIN samples', Rows') :
          g[n + 1] = key /\ \A k \in 1 .. n : g[k] = f[k]
    <3> DEFINE h == [k \in 1 .. n + 1 |-> IF k = n + 1 THEN key ELSE f[k]]
    <3>1. h[n + 1] = key /\ \A k \in 1 .. n : h[k] = f[k]
      BY <1>11
    <3>2. h \in Bijection(DOMAIN samples', Rows')
      BY <1>6, <1>11, OneMore
    <3> HIDE DEF h
    <3> QED BY <3>1, <3>2
  <2>3. ASSUME NEW k \in DOMAIN samples' PROVE Decoded(samples[k])' = FlameLine(g[k])'
    <3>1. Decoded(samples[k])' = Decoded(samples'[k])
      BY <1>1 DEF Decoded, Str
    <3>2. FlameLine(g[k])' = FlameLine(g[k])
      BY <1>1 DEF FlameLine
    <3>3. CASE k = n + 1
      BY <1>10, <1>11, <2>2, <3>1, <3>2, <3>3
    <3>4. CASE k # n + 1
      <4>1. k \in 1 .. n
        BY <1>11, <2>3, <3>4
      <4> QED BY <1>11, <2>1, <2>2, <3>1, <3>2, <4>1
    <3> QED BY <3>3, <3>4
  <2>4. \A r \in Rows' : \A x \in SymbolsOf(r) : Name(x) \in DOMAIN functions'
    BY <1>1, <1>4, <1>6, <1>9 DEF RowsShown
  <2> QED BY <2>2, <2>3, <2>4 DEF RowsShown
<1> QED BY <1>1, <1>5, <1>12 DEF ShowInv

LEMMA FinishShow ==
  ASSUME EncodeInv, DataInv, ShowInv, Finish PROVE ShowInv'
<1>1. /\ stage = "rows" /\ stage' = "done" /\ left = {}
      /\ UNCHANGED <<left, data, str_tbl, functions, fn_tbl, loc_tbl, samples>>
  BY DEF Finish, tableVars, rowVars, outVars
<1>2. stage \in Encoding
  BY <1>1 DEF Encoding
<1>3. Rows' = Rows
  BY <1>1 DEF Rows
<1>4. FunctionsShown' /\ RowsShown'
  BY <1>1, <1>2, <1>3, SameFunctions, SameRows DEF ShowInv
<1> QED BY <1>1, <1>4 DEF ShowInv

-----------------------------------------------------------------------------
(* What a report shows                                                     *)

\* The symbols of an address are the handler's if the debug information says so,
\* and an address is shown unless neither source has a symbol for it.
LEMMA SymbolsAre ==
  ASSUME HandlerApart, MapInv, NEW ip \in Ips
  PROVE  /\ IsHandler(SymbolsAt(ip)) <=> IsHandler(DebugInfo[ip])
         /\ RawNamesOf(SymbolsAt(ip)) \in CanBe(ip)
         /\ SymbolsAt(ip) = <<>> => DebugInfo[ip] = <<>>
<1>1. CASE Found(resolver, ip)
  <2> DEFINE S == {i \in DOMAIN resolver : Covers(resolver[i], ip)}
  <2>1. resolver \in Seq(Parsed) /\ S # {} /\ S \subseteq Nat
    <3>1. resolver # NoMap /\ S # {}
      BY <1>1 DEF Found
    <3>2. resolver \in Seq(Parsed)
      BY <3>1 DEF MapInv, FromFile
    <3> QED BY <3>1, <3>2
  <2>2. PICK n \in S : \A k \in S : n <= k
    <3> HIDE DEF S
    <3> QED BY <2>1, Least
  <2>3. \A k \in 1 .. n - 1 : ~Covers(resolver[k], ip)
    BY <2>1, <2>2
  <2> DEFINE c == CHOOSE i \in DOMAIN resolver :
                    Covers(resolver[i], ip) /\ \A k \in 1 .. i - 1 : ~Covers(resolver[k], ip)
             l == resolver[c]
  <2>4. c \in DOMAIN resolver /\ Covers(l, ip)
    BY <2>2, <2>3
  <2>5. l \in Parsed
    BY <2>1, <2>4
  <2>6. Find(resolver, ip) = l.name
    BY DEF Find
  <2> HIDE DEF l, c, S
  <2>7. SymbolsAt(ip) = <<PerfMapSymbol(l.name)>>
    BY <1>1, <2>6 DEF SymbolsAt
  <2>8. ~IsHandler(SymbolsAt(ip))
    BY <2>5, <2>7 DEF IsHandler, Name, PerfMapSymbol, HandlerApart
  <2>9. ~IsHandler(DebugInfo[ip])
    BY <2>4, <2>5 DEF HandlerApart
  <2>10. RawNamesOf(SymbolsAt(ip)) = <<l.name>>
    BY <2>7 DEF RawNamesOf, PerfMapSymbol
  <2>11. RawNamesOf(SymbolsAt(ip)) \in CanBe(ip)
    BY <2>4, <2>5, <2>10 DEF CanBe
  <2> QED BY <2>7, <2>8, <2>9, <2>11
<1>2. CASE ~Found(resolver, ip)
  BY <1>2 DEF SymbolsAt, CanBe
<1> QED BY <1>1, <1>2

\* The application's frames of e among its first k
AppsUpto(e, k) == {i \in AppIps(e) : i <= k}

\* Frames f show e's frames S at the places at.
ShowsAt(f, e, S, at) ==
  /\ at \in [DOMAIN f -> S]
  /\ \A i, j \in DOMAIN f : i < j => at[i] < at[j]
  /\ \A i \in DOMAIN f : RawNamesOf(f[i]) \in CanBe(e.frames[at[i]])
  /\ \A k \in S : (\E i \in DOMAIN f : at[i] = k) \/ DebugInfo[e.frames[k]] = <<>>

ShowsUpto(f, e, k) == \E at : ShowsAt(f, e, AppsUpto(e, k), at)

LEMMA ShowsWhole ==
  ASSUME NEW e, e.frames \in Seq(Ips), NEW r, ShowsUpto(r.frames, e, Len(e.frames))
  PROVE  Shows(r, e)
<1>1. AppsUpto(e, Len(e.frames)) = AppIps(e)
  BY DEF AppsUpto, AppIps
<1>2. PICK at : ShowsAt(r.frames, e, AppIps(e), at)
  BY <1>1 DEF ShowsUpto
<1>3. at \in [DOMAIN r.frames -> AppIps(e)] /\ DOMAIN at = DOMAIN r.frames
  BY <1>2 DEF ShowsAt
<1>4. /\ \A i, j \in DOMAIN at : i < j => at[i] < at[j]
      /\ \A i \in DOMAIN at : RawNamesOf(r.frames[i]) \in CanBe(e.frames[at[i]])
      /\ \A k \in AppIps(e) \ {at[i] : i \in DOMAIN at} : DebugInfo[e.frames[k]] = <<>>
  BY <1>2, <1>3 DEF ShowsAt
<1> QED BY <1>3, <1>4 DEF Shows

LEMMA ShowsNone == ASSUME NEW e, e.frames \in Seq(Ips) PROVE ShowsUpto(<<>>, e, 0)
<1>1. AppsUpto(e, 0) = {}
  BY DEF AppsUpto, AppIps
<1> DEFINE at == [i \in {} |-> i]
<1>2. DOMAIN <<>> = {}
  OBVIOUS
<1>3. at \in [DOMAIN <<>> -> {}]
  BY <1>2
<1> HIDE DEF at
<1>4. ShowsAt(<<>>, e, {}, at)
  BY <1>2, <1>3 DEF ShowsAt
<1> QED BY <1>1, <1>4 DEF ShowsUpto

\* A frame that has no symbols is not shown.
LEMMA ShowsUnknown ==
  ASSUME NEW e, NEW k \in Nat, NEW f, ShowsUpto(f, e, k),
         AppsUpto(e, k + 1) = AppsUpto(e, k) \cup {k + 1},
         DebugInfo[e.frames[k + 1]] = <<>>
  PROVE  ShowsUpto(f, e, k + 1)
<1>1. PICK at : ShowsAt(f, e, AppsUpto(e, k), at)
  BY DEF ShowsUpto
<1>2. ShowsAt(f, e, AppsUpto(e, k + 1), at)
  BY <1>1 DEF ShowsAt
<1> QED BY <1>2 DEF ShowsUpto

LEMMA ShowsOneMore ==
  ASSUME NEW e, e.frames \in Seq(Ips), NEW k \in Nat, NEW T, NEW f \in Seq(T), NEW syms,
         ShowsUpto(f, e, k),
         AppsUpto(e, k + 1) = AppsUpto(e, k) \cup {k + 1},
         RawNamesOf(syms) \in CanBe(e.frames[k + 1])
  PROVE  ShowsUpto(Append(f, syms), e, k + 1)
<1> DEFINE n == Len(f)
           g == Append(f, syms)
<1>1. PICK at : ShowsAt(f, e, AppsUpto(e, k), at)
  BY DEF ShowsUpto
<1> DEFINE to == [i \in 1 .. n + 1 |-> IF i = n + 1 THEN k + 1 ELSE at[i]]
<1>2. n \in Nat /\ DOMAIN f = 1 .. n /\ DOMAIN g = 1 .. n + 1
  OBVIOUS
<1>3. g[n + 1] = syms /\ \A i \in 1 .. n : g[i] = f[i]
  OBVIOUS
<1>4. \A i \in 1 .. n : at[i] \in AppsUpto(e, k) /\ to[i] = at[i] /\ to[i] <= k
  BY <1>1, <1>2 DEF ShowsAt, AppsUpto
<1>5. to[n + 1] = k + 1
  BY <1>2
<1>6. \A i \in 1 .. n + 1 : i \in 1 .. n \/ i = n + 1
  BY <1>2
<1>7. \A a \in AppsUpto(e, k) : a \in Nat
  BY DEF AppsUpto, AppIps
<1>8. DOMAIN to = 1 .. n + 1 /\ to = [i \in 1 .. n + 1 |-> to[i]]
  OBVIOUS
<1> HIDE DEF n, g, to
<1>9. to \in [DOMAIN g -> AppsUpto(e, k + 1)]
  <2>1. ASSUME NEW i \in 1 .. n + 1 PROVE to[i] \in AppsUpto(e, k + 1)
    BY <1>4, <1>5, <1>6
  <2> QED BY <1>2, <1>8, <2>1
<1>10. ASSUME NEW i \in DOMAIN g, NEW j \in DOMAIN g, i < j PROVE to[i] < to[j]
  <2>1. i \in 1 .. n /\ i \in Nat /\ j \in Nat
    BY <1>2, <1>10
  <2>2. CASE j = n + 1
    BY <1>4, <1>5, <1>7, <2>1, <2>2
  <2>3. CASE j \in 1 .. n
    BY <1>1, <1>2, <1>4, <1>10, <2>1, <2>3 DEF ShowsAt
  <2> QED BY <1>2, <1>6, <2>2, <2>3
<1>11. ASSUME NEW i \in DOMAIN g PROVE RawNamesOf(g[i]) \in CanBe(e.frames[to[i]])
  <2>1. CASE i = n + 1
    BY <1>3, <1>5, <2>1
  <2>2. CASE i \in 1 .. n
    BY <1>1, <1>2, <1>3, <1>4, <2>2 DEF ShowsAt
  <2> QED BY <1>2, <1>6, <2>1, <2>2
<1>12. ASSUME NEW m \in AppsUpto(e, k + 1)
       PROVE  (\E i \in DOMAIN g : to[i] = m) \/ DebugInfo[e.frames[m]] = <<>>
  <2>1. CASE m = k + 1
    BY <1>2, <1>5, <2>1
  <2>2. CASE m \in AppsUpto(e, k)
    BY <1>1, <1>2, <1>4, <2>2 DEF ShowsAt
  <2> QED BY <2>1, <2>2
<1>13. ShowsAt(g, e, AppsUpto(e, k + 1), to)
  BY <1>9, <1>10, <1>11, <1>12 DEF ShowsAt
<1>14. ShowsUpto(g, e, k + 1)
  BY <1>13 DEF ShowsUpto
<1> QED BY <1>14 DEF g

\* Which frames are the application's, one more at a time
LEMMA AppsStep ==
  ASSUME NEW e, e.frames \in Seq(Ips), NEW k \in Nat, k < Len(e.frames),
         0 < k => ~Mine(e, k)
  PROVE  /\ ~Mine(e, k + 1) => AppsUpto(e, k + 1) = AppsUpto(e, k) \cup {k + 1}
         /\ Mine(e, k + 1) => /\ AppsUpto(e, k + 1) = AppsUpto(e, k)
                              /\ AppsUpto(e, k + 2) = AppsUpto(e, k)
<1>1. AppIps(e) = {i \in 1 .. Len(e.frames) : ~Mine(e, i) /\ (i > 1 => ~Mine(e, i - 1))}
  BY DEF AppIps
<1>2. Len(e.frames) \in Nat
  OBVIOUS
<1> DEFINE n == Len(e.frames)
<1> HIDE DEF n
<1>3. AppIps(e) = {i \in 1 .. n : ~Mine(e, i) /\ (i > 1 => ~Mine(e, i - 1))} /\ n \in Nat /\ k < n
  BY <1>1, <1>2 DEF n
<1>4. CASE ~Mine(e, k + 1)
  <2>1. k + 1 \in AppIps(e)
    <3>1. k + 1 > 1 => ~Mine(e, (k + 1) - 1)
      <4>1. (k + 1) - 1 = k
        OBVIOUS
      <4> QED BY <4>1
    <3> QED BY <1>3, <1>4, <3>1
  <2>2. \A i \in Int : i <= k + 1 <=> i <= k \/ i = k + 1
    OBVIOUS
  <2>3. AppIps(e) \subseteq Int
    BY <1>3
  <2> QED BY <1>4, <2>1, <2>2, <2>3 DEF AppsUpto
<1>5. CASE Mine(e, k + 1)
  <2>1. k + 1 \notin AppIps(e)
    BY <1>3, <1>5
  <2>2. k + 2 \notin AppIps(e)
    <3>1. (k + 2) - 1 = k + 1 /\ k + 2 > 1
      OBVIOUS
    <3> QED BY <1>3, <1>5, <3>1
  <2>3. \A i \in Int : /\ i <= k + 1 <=> i <= k \/ i = k + 1
                       /\ i <= k + 2 <=> i <= k \/ i = k + 1 \/ i = k + 2
    OBVIOUS
  <2>4. AppIps(e) \subseteq Int
    BY <1>3
  <2> QED BY <1>5, <2>1, <2>2, <2>3, <2>4 DEF AppsUpto
<1> QED BY <1>4, <1>5

-----------------------------------------------------------------------------
(* The entry being converted                                               *)

\* Frames f show what has been resolved of entry e, of which rest is left.
Resolved(e, rest, f) ==
  \E k \in 0 .. Len(e.frames) :
    /\ Len(rest) = Len(e.frames) - k
    /\ \A i \in 1 .. Len(rest) : rest[i] = e.frames[k + i]
    /\ 0 < k /\ k < Len(e.frames) => ~Mine(e, k)
    /\ ShowsUpto(f, e, k)

LEMMA NothingResolved ==
  ASSUME NEW e, e.frames \in Seq(Ips) PROVE Resolved(e, e.frames, <<>>)
<1>1. Len(e.frames) \in Nat /\ ShowsUpto(<<>>, e, 0)
  BY ShowsNone
<1> DEFINE n == Len(e.frames)
<1>2. n - 0 = n /\ (\A i \in 1 .. n : 0 + i = i) /\ ~(0 < 0) /\ 0 \in 0 .. n
  BY <1>1
<1> QED BY <1>1, <1>2 DEF Resolved

LEMMA AllResolved ==
  ASSUME NEW e, e.frames \in Seq(Ips), NEW r, Resolved(e, <<>>, r.frames)
  PROVE  Shows(r, e)
<1>1. PICK k \in 0 .. Len(e.frames) :
        Len(<<>>) = Len(e.frames) - k /\ ShowsUpto(r.frames, e, k)
  BY DEF Resolved
<1>2. k = Len(e.frames)
  BY <1>1
<1> QED BY <1>1, <1>2, ShowsWhole

\* One frame more, and with the handler's the one after it
LEMMA OneResolved ==
  ASSUME HandlerApart, MapInv, NEW b \in Entries, NEW e \in b, e.frames \in Seq(Ips),
         frame_iter \in Seq(Ips), frame_iter # <<>>, NEW T, NEW f \in Seq(T),
         Resolved(e, frame_iter, f), NEW syms, syms = SymbolsAt(Head(frame_iter))
  PROVE  Resolved(e, Rest(syms),
                  IF IsHandler(syms) \/ syms = <<>> THEN f ELSE Append(f, syms))
<1> DEFINE n == Len(frame_iter)
           m == Len(e.frames)
           rest == Rest(syms)
           g == IF IsHandler(syms) \/ syms = <<>> THEN f ELSE Append(f, syms)
<1>1. PICK k \in 0 .. m :
        /\ n = m - k
        /\ \A i \in 1 .. n : frame_iter[i] = e.frames[k + i]
        /\ 0 < k /\ k < m => ~Mine(e, k)
        /\ ShowsUpto(f, e, k)
  BY DEF Resolved
<1>2. n \in Nat /\ n >= 1 /\ m \in Nat /\ k \in Nat /\ k < m
  BY <1>1
<1>3. Head(frame_iter) = e.frames[k + 1] /\ Head(frame_iter) \in Ips
  BY <1>1, <1>2
<1>4. /\ IsHandler(syms) <=> Mine(e, k + 1)
      /\ RawNamesOf(syms) \in CanBe(e.frames[k + 1])
      /\ syms = <<>> => DebugInfo[e.frames[k + 1]] = <<>>
  BY <1>3, SymbolsAre DEF Mine
<1>5. /\ ~Mine(e, k + 1) => AppsUpto(e, k + 1) = AppsUpto(e, k) \cup {k + 1}
      /\ Mine(e, k + 1) => /\ AppsUpto(e, k + 1) = AppsUpto(e, k)
                           /\ AppsUpto(e, k + 2) = AppsUpto(e, k)
  BY <1>1, <1>2, AppsStep
<1>6. CASE ~IsHandler(syms)
  <2>1. rest = Tail(frame_iter)
    BY <1>6 DEF Rest
  <2>2. Len(rest) = n - 1 /\ \A i \in 1 .. n - 1 : rest[i] = frame_iter[i + 1]
    BY <1>2, <2>1
  <2>3. ShowsUpto(g, e, k + 1)
    <3>1. CASE syms = <<>>
      <4>1. g = f
        BY <3>1
      <4> QED BY <1>1, <1>2, <1>4, <1>5, <1>6, <3>1, <4>1, ShowsUnknown
    <3>2. CASE syms # <<>>
      <4>1. g = Append(f, syms)
        BY <1>6, <3>2
      <4> QED BY <1>1, <1>2, <1>4, <1>5, <1>6, <4>1, ShowsOneMore
    <3> QED BY <3>1, <3>2
  <2>4. ~Mine(e, k + 1)
    BY <1>4, <1>6
  <2> HIDE DEF rest, n, m, g
  <2>5. k + 1 \in 0 .. m /\ Len(rest) = m - (k + 1)
    BY <1>1, <1>2, <2>2
  <2>6. ASSUME NEW i \in 1 .. Len(rest) PROVE rest[i] = e.frames[(k + 1) + i]
    <3>1. i \in 1 .. n - 1 /\ i + 1 \in 1 .. n /\ k + (i + 1) = (k + 1) + i
      BY <1>2, <2>2
    <3> QED BY <1>1, <2>2, <3>1
  <2>7. Resolved(e, rest, g)
    BY <2>3, <2>4, <2>5, <2>6 DEF Resolved, m
  <2> QED BY <2>7 DEF rest, g
<1>7. CASE IsHandler(syms)
  <2>1. rest = SubSeq(frame_iter, 3, n) /\ g = f
    BY <1>7 DEF Rest
  <2>2. CASE n = 1
    <3>1. Len(rest) = 0
      BY <2>1, <2>2
    <3>2. ShowsUpto(g, e, k + 1)
      BY <1>1, <1>4, <1>5, <1>7, <2>1 DEF ShowsUpto
    <3> HIDE DEF rest, n, m, g
    <3>3. k + 1 = m
      BY <1>1, <1>2, <2>2
    <3>4. /\ k + 1 \in 0 .. m /\ Len(rest) = m - (k + 1) /\ ~(k + 1 < m)
          /\ 1 .. Len(rest) = {}
      BY <1>2, <3>1, <3>3
    <3>5. Resolved(e, rest, g)
      BY <3>2, <3>4 DEF Resolved, m
    <3> QED BY <3>5 DEF rest, g
  <2>3. CASE n >= 2
    <3>1. Len(rest) = n - 2 /\ \A i \in 1 .. n - 2 : rest[i] = frame_iter[i + 2]
      BY <1>2, <2>1, <2>3
    <3>2. ShowsUpto(g, e, k + 2)
      BY <1>1, <1>4, <1>5, <1>7, <2>1 DEF ShowsUpto
    <3>3. k + 1 \in DOMAIN e.frames /\ Mine(e, k + 1)
      BY <1>2, <1>4, <1>7
    <3>4. k + 2 \in 1 .. m => ~Mine(e, k + 2)
      <4>1. k + 2 = (k + 1) + 1 /\ DOMAIN e.frames = 1 .. m
        OBVIOUS
      <4> QED BY <3>3, <4>1 DEF HandlerApart
    <3> HIDE DEF rest, n, m, g
    <3>5. k + 2 \in 0 .. m /\ k + 2 \in 1 .. m /\ Len(rest) = m - (k + 2)
      BY <1>1, <1>2, <2>3, <3>1
    <3>6. ASSUME NEW i \in 1 .. Len(rest) PROVE rest[i] = e.frames[(k + 2) + i]
      <4>1. i \in 1 .. n - 2 /\ i + 2 \in 1 .. n /\ k + (i + 2) = (k + 2) + i
        BY <1>2, <3>1
      <4> QED BY <1>1, <3>1, <4>1
    <3>7. Resolved(e, rest, g)
      BY <3>2, <3>4, <3>5, <3>6 DEF Resolved, m
    <3> QED BY <3>7 DEF rest, g
  <2> HIDE DEF rest, n, m, g
  <2>4. n = 1 \/ n >= 2
    BY <1>2
  <2> QED BY <2>2, <2>3, <2>4 DEF rest, g
<1> QED BY <1>6, <1>7

-----------------------------------------------------------------------------
(* Rows and counts                                                         *)

Class(x) == <<x.thread_id, x.sample_timestamp>>

IsRow(r) == r = [frames |-> r.frames, thread_name |-> r.thread_name,
                 thread_id |-> r.thread_id, sample_timestamp |-> r.sample_timestamp]

\* Equal rows show the same.
LEMMA KeyShows ==
  ASSUME NEW q, NEW r, IsRow(q), IsRow(r), Key(q) = Key(r)
  PROVE  Class(q) = Class(r) /\ \A e : Shows(r, e) => Shows(q, e)
<1> DEFINE Raw(x) == [i \in DOMAIN x.frames |-> RawNamesOf(x.frames[i])]
<1>1. \A x : IsRow(x) => Key(x) = [frames |-> Raw(x), thread_name |-> x.thread_name,
                                   thread_id |-> x.thread_id,
                                   sample_timestamp |-> x.sample_timestamp]
  <2> SUFFICES ASSUME NEW f, NEW a, NEW b, NEW c, NEW x,
                      x = [frames |-> f, thread_name |-> a, thread_id |-> b,
                           sample_timestamp |-> c]
               PROVE  Key(x) = [frames |-> Raw(x), thread_name |-> a, thread_id |-> b,
                                sample_timestamp |-> c]
    BY DEF IsRow
  <2> QED BY DEF Key, RawNamesOf
<1>2. Raw(q) = Raw(r) /\ q.thread_id = r.thread_id
      /\ q.sample_timestamp = r.sample_timestamp
  <2> HIDE DEF Raw
  <2> QED BY <1>1
<1>3. /\ DOMAIN q.frames = DOMAIN r.frames
      /\ \A i \in DOMAIN q.frames : RawNamesOf(q.frames[i]) = RawNamesOf(r.frames[i])
  <2>1. DOMAIN Raw(q) = DOMAIN q.frames /\ DOMAIN Raw(r) = DOMAIN r.frames
    OBVIOUS
  <2>2. \A i \in DOMAIN q.frames : Raw(q)[i] = RawNamesOf(q.frames[i])
    OBVIOUS
  <2>3. \A i \in DOMAIN r.frames : Raw(r)[i] = RawNamesOf(r.frames[i])
    OBVIOUS
  <2> HIDE DEF Raw
  <2> QED BY <1>2, <2>1, <2>2, <2>3
<1>4. ASSUME NEW e, Shows(r, e) PROVE Shows(q, e)
  <2>1. PICK at \in [DOMAIN r.frames -> AppIps(e)] :
          /\ \A i, j \in DOMAIN at : i < j => at[i] < at[j]
          /\ \A i \in DOMAIN at : RawNamesOf(r.frames[i]) \in CanBe(e.frames[at[i]])
          /\ \A k \in AppIps(e) \ {at[i] : i \in DOMAIN at} : DebugInfo[e.frames[k]] = <<>>
    BY <1>4 DEF Shows
  <2>2. at \in [DOMAIN q.frames -> AppIps(e)]
    BY <1>3
  <2>3. \A i \in DOMAIN at : RawNamesOf(q.frames[i]) \in CanBe(e.frames[at[i]])
    BY <1>3, <2>1
  <2> QED BY <2>1, <2>2, <2>3 DEF Shows
<1> QED BY <1>2, <1>4 DEF Class

\* The samples of the rows of class c, and those of the entries of it
RowSum(d, c) == Sum(d, {r \in DOMAIN d : Class(r) = c})
EntrySum(S, c) == Sum([x \in S |-> x.count], {x \in S : Class(x) = c})

\* Rows d are those of the converted entries S.
RowsApart(d) ==
  /\ IsFiniteSet(DOMAIN d)
  /\ \A r \in DOMAIN d : IsRow(r) /\ d[r] \in Nat
  /\ \A q, r \in DOMAIN d : Key(q) = Key(r) => q = r
RowsCount(d, S) == \A c : RowSum(d, c) = EntrySum(S, c)
RowsShow(d, S) == \A x \in S : \E r \in DOMAIN d : Class(r) = Class(x) /\ Shows(r, x)
RowsOf(d, S) == RowsApart(d) /\ RowsCount(d, S) /\ RowsShow(d, S)

LEMMA NoRows == ASSUME NEW d, DOMAIN d = {} PROVE RowsOf(d, {})
<1>1. RowsApart(d)
  BY FS_EmptySet DEF RowsApart
<1>2. ASSUME NEW c PROVE RowSum(d, c) = EntrySum({}, c)
  <2>1. {r \in DOMAIN d : Class(r) = c} = {} /\ {x \in {} : Class(x) = c} = {}
    OBVIOUS
  <2> QED BY <2>1, SumEmpty DEF RowSum, EntrySum
<1> QED BY <1>1, <1>2 DEF RowsOf, RowsCount, RowsShow

\* One entry more
LEMMA EntryAdds ==
  ASSUME NEW S, IsFiniteSet(S), NEW x, x \notin S,
         \A y \in S \cup {x} : y.count \in Nat, NEW c
  PROVE  EntrySum(S \cup {x}, c) = IF Class(x) = c THEN x.count + EntrySum(S, c)
                                                   ELSE EntrySum(S, c)
<1> DEFINE T == S \cup {x}
           v == [y \in S |-> y.count]
           w == [y \in T |-> y.count]
           A == {y \in S : Class(y) = c}
           B == {y \in T : Class(y) = c}
<1>1. IsFiniteSet(A) /\ x \notin A
  BY FS_Subset
<1>2. /\ \A y \in A : v[y] \in Nat /\ w[y] = v[y]
      /\ \A y \in A \cup {x} : w[y] \in Nat
      /\ w[x] = x.count
  OBVIOUS
<1>3. Class(x) = c => B = A \cup {x}
  OBVIOUS
<1>4. Class(x) # c => B = A
  OBVIOUS
<1>5. EntrySum(S, c) = Sum(v, A) /\ EntrySum(S \cup {x}, c) = Sum(w, B)
  BY DEF EntrySum
<1> HIDE DEF T, v, w, A, B
<1>6. Sum(w, A) = Sum(v, A)
  BY <1>1, <1>2, SumSame
<1>7. Sum(w, A \cup {x}) = w[x] + Sum(w, A)
  BY <1>1, <1>2, SumAdd
<1> QED BY <1>2, <1>3, <1>4, <1>5, <1>6, <1>7

\* The two outcomes of WithRow
Merged(e, d, r, n) ==
  e = [q \in DOMAIN d |-> IF Key(q) = Key(r) THEN d[q] + n ELSE d[q]]
Inserted(e, d, r, n) ==
  e = [q \in DOMAIN d \cup {r} |-> IF q = r THEN n ELSE d[q]]

\* The entry is added to a row that is equal to its own,
LEMMA RowMerges ==
  ASSUME NEW d, NEW S, RowsOf(d, S), IsFiniteSet(S), NEW x, x \notin S,
         \A y \in S \cup {x} : y.count \in Nat,
         NEW r, IsRow(r), Class(r) = Class(x), Shows(r, x),
         NEW q \in DOMAIN d, Key(q) = Key(r),
         NEW e, Merged(e, d, r, x.count)
  PROVE  RowsOf(e, S \cup {x})
<1>1. RowsApart(d) /\ RowsCount(d, S) /\ RowsShow(d, S) /\ x.count \in Nat
  BY DEF RowsOf
<1>2. IsRow(q) /\ Class(q) = Class(x) /\ Shows(q, x)
  BY <1>1, KeyShows DEF RowsApart
<1>3. DOMAIN e = DOMAIN d /\ e[q] = d[q] + x.count
  BY DEF Merged
<1>4. \A p \in DOMAIN d \ {q} : e[p] = d[p]
  BY <1>1 DEF RowsApart, Merged
<1>5. \A p \in DOMAIN d : d[p] \in Nat /\ e[p] \in Nat
  BY <1>1, <1>3, <1>4 DEF RowsApart
<1>6. RowsApart(e)
  BY <1>1, <1>3, <1>5 DEF RowsApart
<1>7. RowsShow(e, S \cup {x})
  BY <1>1, <1>2, <1>3 DEF RowsShow
<1>8. ASSUME NEW c PROVE RowSum(e, c) = EntrySum(S \cup {x}, c)
  <2> DEFINE A == {p \in DOMAIN d : Class(p) = c}
  <2>1. IsFiniteSet(A) /\ \A p \in A : d[p] \in Nat
    BY <1>1, <1>5, FS_Subset DEF RowsApart
  <2>2. RowSum(d, c) = Sum(d, A) /\ RowSum(e, c) = Sum(e, A)
    BY <1>3 DEF RowSum
  <2>3. RowSum(d, c) = EntrySum(S, c)
    BY <1>1 DEF RowsCount
  <2>4. CASE Class(x) = c
    <3>1. q \in A /\ \A p \in A \ {q} : e[p] = d[p]
      BY <1>2, <1>4, <2>4
    <3> DEFINE n == x.count
    <3>2. Sum(e, A) = Sum(d, A) + n
      <4>1. n \in Nat /\ e[q] = d[q] + n
        BY <1>1, <1>3
      <4> HIDE DEF A, n
      <4> QED BY <2>1, <3>1, <4>1, SumMore
    <3> HIDE DEF A
    <3>3. EntrySum(S \cup {x}, c) = x.count + EntrySum(S, c)
      BY <2>4, EntryAdds
    <3>4. Sum(d, A) \in Nat
      BY <2>1, SumIsNat
    <3>5. x.count \in Nat /\ EntrySum(S, c) = Sum(d, A)
      BY <1>1, <2>2, <2>3
    <3>6. x.count + Sum(d, A) = Sum(d, A) + x.count
      BY <3>4, <3>5
    <3> QED BY <2>2, <3>2, <3>3, <3>5, <3>6
  <2>5. CASE Class(x) # c
    <3>1. \A p \in A : e[p] = d[p]
      BY <1>2, <1>4, <2>5
    <3> HIDE DEF A
    <3>2. Sum(e, A) = Sum(d, A)
      BY <2>1, <3>1, SumSame
    <3>3. EntrySum(S \cup {x}, c) = EntrySum(S, c)
      BY <2>5, EntryAdds
    <3> QED BY <2>2, <2>3, <3>2, <3>3
  <2> QED BY <2>4, <2>5
<1> QED BY <1>6, <1>7, <1>8 DEF RowsOf, RowsCount

\* or gets a row of its own.
LEMMA RowInserts ==
  ASSUME NEW d, NEW S, RowsOf(d, S), IsFiniteSet(S), NEW x, x \notin S,
         \A y \in S \cup {x} : y.count \in Nat,
         NEW r, IsRow(r), Class(r) = Class(x), Shows(r, x),
         \A q \in DOMAIN d : Key(q) # Key(r),
         NEW e, Inserted(e, d, r, x.count)
  PROVE  RowsOf(e, S \cup {x})
<1>1. RowsApart(d) /\ RowsCount(d, S) /\ RowsShow(d, S) /\ x.count \in Nat
  BY DEF RowsOf
<1>2. r \notin DOMAIN d /\ DOMAIN e = DOMAIN d \cup {r}
  BY DEF Inserted
<1>3. e[r] = x.count /\ \A p \in DOMAIN d : e[p] = d[p]
  BY <1>2 DEF Inserted
<1>4. /\ \A p \in DOMAIN d : d[p] \in Nat
      /\ \A p \in DOMAIN e : IsRow(p) /\ e[p] \in Nat
  BY <1>1, <1>2, <1>3 DEF RowsApart
<1>5. IsFiniteSet(DOMAIN e)
  BY <1>1, <1>2, FS_AddElement DEF RowsApart
<1>6. \A p, q \in DOMAIN e : Key(p) = Key(q) => p = q
  BY <1>1, <1>2 DEF RowsApart
<1>7. RowsApart(e)
  BY <1>4, <1>5, <1>6 DEF RowsApart
<1>8. RowsShow(e, S \cup {x})
  BY <1>1, <1>2 DEF RowsShow
<1>9. ASSUME NEW c PROVE RowSum(e, c) = EntrySum(S \cup {x}, c)
  <2> DEFINE A == {p \in DOMAIN d : Class(p) = c}
             B == {p \in DOMAIN e : Class(p) = c}
  <2>1. IsFiniteSet(A) /\ r \notin A /\ \A p \in A : d[p] \in Nat /\ e[p] = d[p]
    BY <1>1, <1>2, <1>3, <1>4, FS_Subset DEF RowsApart
  <2>2. RowSum(d, c) = Sum(d, A) /\ RowSum(e, c) = Sum(e, B)
    BY DEF RowSum
  <2>3. RowSum(d, c) = EntrySum(S, c)
    BY <1>1 DEF RowsCount
  <2>4. Class(x) = c => B = A \cup {r}
    BY <1>2
  <2>5. Class(x) # c => B = A
    BY <1>2
  <2>6. \A p \in A \cup {r} : e[p] \in Nat
    BY <1>2, <1>4
  <2> HIDE DEF A, B
  <2>7. Sum(e, A) = Sum(d, A)
    BY <2>1, SumSame
  <2>8. Sum(e, A \cup {r}) = x.count + Sum(e, A)
    BY <1>3, <2>1, <2>6, SumAdd
  <2>9. EntrySum(S \cup {x}, c) = IF Class(x) = c THEN x.count + EntrySum(S, c)
                                                  ELSE EntrySum(S, c)
    BY EntryAdds
  <2>10. CASE Class(x) = c
    BY <2>2, <2>3, <2>4, <2>7, <2>8, <2>9, <2>10
  <2>11. CASE Class(x) # c
    BY <2>2, <2>3, <2>5, <2>7, <2>9, <2>11
  <2> QED BY <2>10, <2>11
<1> QED BY <1>7, <1>8, <1>9 DEF RowsOf, RowsCount

\* The sum of the property is this one.
LEMMA CountsAre ==
  ASSUME NEW S, IsFiniteSet(S), \A x \in S : x.count \in Nat, NEW U, S \subseteq U
  PROVE  MapThenSumSet(LAMBDA x : x.count, S) = Sum([x \in U |-> x.count], S)
<1> DEFINE v == [x \in U |-> x.count]
           g == Things(v, S)
           F(h) == [s \in SUBSET S |->
                      IF s = {} THEN 0 ELSE Pick(s).count + h[s \ {Pick(s)}]]
           V(h) == [s \in SUBSET S |->
                      IF s = {} THEN 0 ELSE v[Pick(s)] + h[s \ {Pick(s)}]]
           it == CHOOSE h : h = F(h)
<1>1. \A x \in S : v[x] \in Nat
  OBVIOUS
<1>2. Disjoint(g, S) /\ \A x \in S : v[x] = Cardinality(g[x])
  <2> HIDE DEF g, v
  <2> QED BY <1>1, ThingsCount DEF g
<1>3. MapThenSumSet(LAMBDA x : x.count, S) = it[S]
  BY DEF MapThenSumSet, MapThenFoldSet, Pick
<1>4. ASSUME NEW h PROVE F(h) = V(h)
  <2>1. ASSUME NEW s \in SUBSET S, s # {} PROVE Pick(s).count = v[Pick(s)]
    BY <2>1, Picked
  <2> QED BY <2>1
<1> HIDE DEF F, V
<1>5. Sizes(g, S) = F(Sizes(g, S))
  <2>1. Sums(Sizes(g, S), v, S)
    <3> HIDE DEF v, g
    <3> QED BY <1>2, SizesAdd
  <2>2. Sizes(g, S) = V(Sizes(g, S))
    BY <2>1 DEF Sums, V
  <2> QED BY <1>4, <2>2
<1>6. it = F(it)
  BY <1>5, Zenon
<1>7. Sums(it, v, S)
  <2>1. it = V(it)
    BY <1>4, <1>6
  <2> HIDE DEF it, v
  <2> QED BY <2>1 DEF Sums, V
<1> HIDE DEF it, v, g
<1>8. it[S] = Cardinality(Joined(g, S))
  BY <1>2, <1>7, SizesUnique
<1>9. Sum(v, S) = Cardinality(Joined(g, S))
  BY <1>2, SumOfSizes
<1> QED BY <1>3, <1>8, <1>9 DEF v

-----------------------------------------------------------------------------
(* A report while it is made                                               *)

\* The entries whose rows are made
Converted(whole, rest, st, it) ==
  whole \ (rest \cup (IF st \in {"lookup", "resolve"} THEN {it} ELSE {}))

ConvertInv ==
  stage \in Building =>
    /\ source \in Entries /\ entries \subseteq source
    /\ stage \in {"lookup", "resolve"} =>
         item \in source \ entries /\ Resolved(item, frame_iter, fs)
    /\ stage = "built" => entries = {}
    /\ RowsOf(data, Converted(source, entries, stage, item))

LEMMA InitConvertInv == OutputInit => ConvertInv
<1> SUFFICES ASSUME OutputInit PROVE ConvertInv
  OBVIOUS
<1>1. source \in Entries /\ entries = source /\ stage = "entries" /\ data = <<>>
  BY DEF OutputInit
<1>2. Converted(source, entries, stage, item) = {}
  BY <1>1 DEF Converted
<1>3. DOMAIN data = {}
  BY <1>1
<1> QED BY <1>1, <1>2, <1>3, NoRows DEF ConvertInv

LEMMA BuildConvertInv ==
  ASSUME HandlerApart, MapInv, BuildInv, DataInv, ConvertInv, Build PROVE ConvertInv'
<1>1. stage \in Building
  BY DEF Build, NextEntry, LookUp, ResolveFrame, AddRow, Built, Building
<1>2. /\ source \in Entries /\ entries \subseteq source
      /\ stage \in {"lookup", "resolve"} =>
           item \in source \ entries /\ Resolved(item, frame_iter, fs)
      /\ stage = "built" => entries = {}
      /\ RowsOf(data, Converted(source, entries, stage, item))
  BY <1>1 DEF ConvertInv
<1>3. source \subseteq Entry /\ IsFiniteSet(source)
  BY <1>2, ReportOutputAssumption
<1>4. \A e \in source : e.frames \in Seq(Ips) /\ e.count \in Nat
  BY <1>3 DEF Entry
<1>5. CASE NextEntry
  <2>1. PICK e \in entries : item' = e /\ frame_iter' = e.frames /\ entries' = entries \ {e}
    BY <1>5 DEF NextEntry
  <2>2. /\ stage = "entries" /\ stage' = "lookup" /\ fs' = <<>>
        /\ UNCHANGED <<source, data>>
    BY <1>5 DEF NextEntry
  <2>3. Resolved(item', frame_iter', fs')
    BY <1>2, <1>4, <2>1, <2>2, NothingResolved
  <2>4. Converted(source', entries', stage', item') = Converted(source, entries, stage, item)
    BY <2>1, <2>2 DEF Converted
  <2> QED BY <1>2, <2>1, <2>2, <2>3, <2>4 DEF ConvertInv
<1>6. CASE LookUp
  <2>1. /\ stage = "lookup" /\ stage' = "resolve"
        /\ UNCHANGED <<source, entries, item, frame_iter, fs, data>>
    BY <1>6 DEF LookUp, buildVars
  <2>2. Converted(source', entries', stage', item') = Converted(source, entries, stage, item)
    BY <2>1 DEF Converted
  <2> QED BY <1>2, <2>1, <2>2 DEF ConvertInv
<1>7. CASE ResolveFrame
  <2> DEFINE syms == SymbolsAt(Head(frame_iter))
  <2>1. /\ stage = "resolve" /\ stage' = "lookup"
        /\ UNCHANGED <<source, entries, item, data>>
        /\ frame_iter' = Rest(syms)
        /\ fs' = IF IsHandler(syms) \/ syms = <<>> THEN fs ELSE Append(fs, syms)
    BY <1>7 DEF ResolveFrame
  <2>2. item \in source /\ Resolved(item, frame_iter, fs) /\ item.frames \in Seq(Ips)
    BY <1>2, <1>4, <2>1
  <2>3. frame_iter \in Seq(Ips) /\ frame_iter # <<>>
    BY <2>1 DEF BuildInv
  <2>4. PICK T : fs \in Seq(T)
    BY DEF BuildInv, AreFrames
  <2> HIDE DEF syms
  <2>5. Resolved(item, Rest(syms), IF IsHandler(syms) \/ syms = <<>> THEN fs ELSE Append(fs, syms))
    BY <1>2, <2>2, <2>3, <2>4, OneResolved DEF syms
  <2>6. Resolved(item', frame_iter', fs')
    BY <2>1, <2>5
  <2>7. Converted(source', entries', stage', item') = Converted(source, entries, stage, item)
    BY <2>1 DEF Converted
  <2> QED BY <1>2, <2>1, <2>6, <2>7 DEF ConvertInv
<1>8. CASE AddRow
  <2> DEFINE S == Converted(source, entries, stage, item)
             r == RowOf(item)
             n == item.count
  <2>1. /\ stage = "lookup" /\ frame_iter = <<>> /\ stage' = "entries"
        /\ UNCHANGED <<source, entries, item>>
        /\ data' = WithRow(r, n)
    BY <1>8 DEF AddRow, buildVars
  <2>2. item \in source \ entries /\ Resolved(item, <<>>, r.frames)
    BY <1>2, <2>1 DEF RowOf
  <2>3. IsRow(r) /\ Class(r) = Class(item)
    BY DEF IsRow, RowOf, Class
  <2>4. S \subseteq source /\ item \notin S
    BY <2>1 DEF Converted
  <2>5. Converted(source', entries', stage', item') = S \cup {item}
    BY <2>1, <2>2 DEF Converted
  <2>6. IsFiniteSet(S) /\ \A y \in S \cup {item} : y.count \in Nat
    BY <1>3, <1>4, <2>2, <2>4, FS_Subset
  <2>7. RowsOf(data, S)
    BY <1>2
  <2> HIDE DEF S, r
  <2>8. Shows(r, item)
    BY <1>4, <2>2, AllResolved
  <2>9. RowsOf(data', S \cup {item})
    <3>1. CASE \E q \in DOMAIN data : Key(q) = Key(r)
      <4>1. PICK q \in DOMAIN data : Key(q) = Key(r)
        BY <3>1
      <4>2. Merged(data', data, r, item.count)
        BY <2>1, <3>1 DEF WithRow, Merged
      <4> QED BY <2>3, <2>4, <2>6, <2>7, <2>8, <4>1, <4>2, RowMerges
    <3>2. CASE ~\E q \in DOMAIN data : Key(q) = Key(r)
      <4>1. \A q \in DOMAIN data : Key(q) # Key(r)
        BY <3>2
      <4>2. Inserted(data', data, r, item.count)
        BY <2>1, <3>2 DEF WithRow, Inserted
      <4> QED BY <2>3, <2>4, <2>6, <2>7, <2>8, <4>1, <4>2, RowInserts
    <3> QED BY <3>1, <3>2
  <2> QED BY <1>2, <2>1, <2>5, <2>9 DEF ConvertInv
<1>9. CASE Built
  <2>1. /\ stage = "entries" /\ entries = {} /\ stage' = "built"
        /\ UNCHANGED <<source, entries, item, data>>
    BY <1>9 DEF Built, buildVars
  <2>2. Converted(source', entries', stage', item') = Converted(source, entries, stage, item)
    BY <2>1 DEF Converted
  <2> QED BY <1>2, <2>1, <2>2 DEF ConvertInv
<1> QED BY <1>5, <1>6, <1>7, <1>8, <1>9 DEF Build

LEMMA ShowsAll ==
  ASSUME ConvertInv, stage = "built"
  PROVE  ReportShowsEntries
<1>1. /\ source \in Entries
      /\ RowsOf(data, Converted(source, entries, stage, item)) /\ entries = {}
  BY DEF ConvertInv, Building
<1>2. RowsOf(data, source)
  <2>1. Converted(source, entries, stage, item) = source
    BY <1>1 DEF Converted
  <2> QED BY <1>1, <2>1
<1>3. IsFiniteSet(source) /\ \A x \in source : x.count \in Nat
  BY <1>1, ReportOutputAssumption DEF Entry
<1> SUFFICES ASSUME NEW e \in source
             PROVE  LET Same(x) == /\ x.thread_id = e.thread_id
                                   /\ x.sample_timestamp = e.sample_timestamp
                    IN  /\ \E r \in DOMAIN data : Same(r) /\ Shows(r, e)
                        /\ MapThenSumSet(LAMBDA r : data[r], {r \in DOMAIN data : Same(r)})
                             = MapThenSumSet(LAMBDA x : x.count, {x \in source : Same(x)})
  BY DEF ReportShowsEntries
<1> DEFINE Same(x) == /\ x.thread_id = e.thread_id
                      /\ x.sample_timestamp = e.sample_timestamp
           R == {r \in DOMAIN data : Same(r)}
           X == {x \in source : Same(x)}
<1>4. \A x : Same(x) <=> Class(x) = Class(e)
  BY DEF Class
<1>5. \E r \in DOMAIN data : Same(r) /\ Shows(r, e)
  BY <1>2, <1>4 DEF RowsOf, RowsShow
<1>6. Sum(data, R) = Sum([x \in source |-> x.count], X)
  <2>1. R = {r \in DOMAIN data : Class(r) = Class(e)} /\ X = {x \in source : Class(x) = Class(e)}
    BY <1>4
  <2> HIDE DEF R, X
  <2> QED BY <1>2, <2>1 DEF RowsOf, RowsCount, RowSum, EntrySum
<1>7. MapThenSumSet(LAMBDA r : data[r], R) = Sum(data, R)
  <2> HIDE DEF R
  <2> QED BY DEF MapThenSumSet, MapThenFoldSet, Sum, Pick
<1>8. MapThenSumSet(LAMBDA x : x.count, X) = Sum([x \in source |-> x.count], X)
  <2>1. IsFiniteSet(X) /\ X \subseteq source /\ \A x \in X : x.count \in Nat
    BY <1>3, FS_Subset
  <2> HIDE DEF X
  <2> QED BY <2>1, CountsAre
<1> QED BY <1>5, <1>6, <1>7, <1>8

-----------------------------------------------------------------------------
(* Decimal digits                                                          *)

\* g gives the powers of ten up to k.
Powers(g, k) ==
  /\ g \in [0 .. k -> Nat]
  /\ \A i \in 0 .. k : g[i] = IF i = 0 THEN 1 ELSE 10 * g[i - 1]

LEMMA PowersExist == \A k \in Nat : \E g : Powers(g, k)
<1> DEFINE S == {k \in Nat : \E g : Powers(g, k)}
<1>1. 0 \in S
  <2>1. Powers([i \in 0 .. 0 |-> 1], 0)
    BY DEF Powers
  <2> QED BY <2>1
<1>2. ASSUME NEW k \in Nat, k \in S PROVE k + 1 \in S
  <2>1. PICK g : Powers(g, k)
    BY <1>2
  <2> DEFINE h == [i \in 0 .. k + 1 |-> IF i = 0 THEN 1 ELSE 10 * g[i - 1]]
  <2>2. \A i \in 0 .. k : h[i] = g[i] /\ g[i] \in Nat
    BY <2>1 DEF Powers
  <2>3. \A i \in 0 .. k + 1 : h[i] = IF i = 0 THEN 1 ELSE 10 * g[i - 1]
    OBVIOUS
  <2>4. h = [i \in 0 .. k + 1 |-> h[i]]
    OBVIOUS
  <2> HIDE DEF h
  <2>5. ASSUME NEW i \in 0 .. k + 1
        PROVE  h[i] \in Nat /\ h[i] = IF i = 0 THEN 1 ELSE 10 * h[i - 1]
    <3>1. i # 0 => i - 1 \in 0 .. k
      OBVIOUS
    <3> QED BY <2>2, <2>3, <3>1
  <2>6. h \in [0 .. k + 1 -> Nat]
    BY <2>4, <2>5
  <2>7. Powers(h, k + 1)
    BY <2>5, <2>6 DEF Powers
  <2> QED BY <2>7
<1> HIDE DEF S
<1>3. Nat \subseteq S
  BY <1>1, <1>2, Induction
<1> QED BY <1>3 DEF S

\* and there is no choice of them.
LEMMA PowersUnique ==
  ASSUME NEW k \in Nat, NEW m \in Nat, NEW g, NEW h, Powers(g, k), Powers(h, m)
  PROVE  \A i \in Nat : i <= k /\ i <= m => g[i] = h[i]
<1> DEFINE S == {i \in Nat : i <= k /\ i <= m => g[i] = h[i]}
<1>1. 0 \in S
  BY DEF Powers
<1>2. ASSUME NEW i \in Nat, i \in S PROVE i + 1 \in S
  <2> SUFFICES ASSUME i + 1 <= k, i + 1 <= m PROVE g[i + 1] = h[i + 1]
    OBVIOUS
  <2>1. g[i] = h[i]
    BY <1>2
  <2>2. g[i + 1] = 10 * g[i] /\ h[i + 1] = 10 * h[i]
    BY DEF Powers
  <2> QED BY <2>1, <2>2
<1> HIDE DEF S
<1>3. Nat \subseteq S
  BY <1>1, <1>2, Induction
<1> QED BY <1>3 DEF S

LEMMA PowerIs ==
  /\ PowerOfTen[0] = 1
  /\ \A n \in Nat : /\ PowerOfTen[n] \in Nat \ {0}
                    /\ PowerOfTen[n + 1] = 10 * PowerOfTen[n]
<1> DEFINE upto(n) == CHOOSE g : Powers(g, n)
           F == [n \in Nat |-> upto(n)[n]]
<1>1. \A n \in Nat : Powers(upto(n), n)
  BY PowersExist
<1>2. \A n \in Nat : F[n] = upto(n)[n]
  OBVIOUS
<1> HIDE DEF upto
<1>3. F[0] = 1
  BY <1>1, <1>2 DEF Powers
<1>4. ASSUME NEW n \in Nat PROVE F[n + 1] = 10 * F[n] /\ F[n] \in Nat
  <2>1. upto(n + 1)[n] = upto(n)[n]
    BY <1>1, PowersUnique
  <2>2. upto(n + 1)[n + 1] = 10 * upto(n + 1)[n] /\ upto(n)[n] \in Nat
    BY <1>1 DEF Powers
  <2> QED BY <1>2, <2>1, <2>2
<1>5. F = [n \in Nat |-> IF n = 0 THEN 1 ELSE 10 * F[n - 1]]
  <2>1. ASSUME NEW n \in Nat PROVE F[n] = IF n = 0 THEN 1 ELSE 10 * F[n - 1]
    <3>1. CASE n = 0
      BY <1>3, <3>1
    <3>2. CASE n # 0
      <4>1. n - 1 \in Nat /\ (n - 1) + 1 = n
        BY <3>2
      <4> HIDE DEF F
      <4>2. F[(n - 1) + 1] = 10 * F[n - 1]
        BY <1>4, <4>1
      <4> QED BY <3>2, <4>1, <4>2
    <3> QED BY <3>1, <3>2
  <2> QED BY <2>1
<1> HIDE DEF F
<1>6. PowerOfTen = [n \in Nat |-> IF n = 0 THEN 1 ELSE 10 * PowerOfTen[n - 1]]
  BY <1>5 DEF PowerOfTen
<1>7. PowerOfTen[0] = 1
  BY <1>6
<1>8. ASSUME NEW n \in Nat PROVE PowerOfTen[n + 1] = 10 * PowerOfTen[n]
  <2>1. n + 1 \in Nat /\ n + 1 # 0 /\ (n + 1) - 1 = n
    OBVIOUS
  <2>2. PowerOfTen[n + 1] = 10 * PowerOfTen[(n + 1) - 1]
    BY <1>6, <2>1
  <2> QED BY <2>1, <2>2
<1> DEFINE S == {n \in Nat : PowerOfTen[n] \in Nat \ {0}}
<1>9. 0 \in S /\ \A n \in Nat : n \in S => n + 1 \in S
  BY <1>7, <1>8
<1> HIDE DEF S
<1>10. Nat \subseteq S
  BY <1>9, Induction
<1> QED BY <1>7, <1>8, <1>10 DEF S

\* Digits are different characters.
LEMMA DigitsApart == \A c, d \in 0 .. 9 : Digit[c + 1] = Digit[d + 1] => c = d
BY DEF Digit

\* One digit more of a number
LEMMA DigitMore ==
  ASSUME NEW x \in Nat, NEW p \in Nat \ {0}
  PROVE  x % (10 * p) = p * ((x \div p) % 10) + (x % p)
<1> DEFINE q == x \div p
           r == x % p
           u == q \div 10
           d == q % 10
<1>1. q \in Nat /\ r \in 0 .. p - 1 /\ x = p * q + r
  OBVIOUS
<1>2. u \in Nat /\ d \in 0 .. 9 /\ q = 10 * u + d
  BY <1>1
<1> HIDE DEF q, r, u, d
<1>3. p * d \in Nat /\ p * d <= p * 9
  BY <1>2
<1>4. p * d + r \in 0 .. 10 * p - 1
  BY <1>1, <1>3
<1>5. x = (10 * p) * u + (p * d + r)
  BY <1>1, <1>2
<1>6. ASSUME NEW m \in Nat \ {0}, NEW v \in Nat, NEW s \in 0 .. m - 1, x = m * v + s
      PROVE  x % m = s
  BY <1>6
<1>7. x % (10 * p) = p * d + r
  <2>1. 10 * p \in Nat \ {0}
    OBVIOUS
  <2> QED BY <1>2, <1>4, <1>5, <1>6, <2>1
<1>8. d = (x \div p) % 10 /\ r = x % p
  BY DEF d, q, r
<1> QED BY <1>7, <1>8

\* The digits of a number tell it from all that are as long.
LEMMA DigitsTell ==
  ASSUME NEW n \in Nat, NEW x \in 1 .. PowerOfTen[n], NEW y \in 1 .. PowerOfTen[n],
         Digits(x, n) = Digits(y, n)
  PROVE  x = y
<1> DEFINE S == {k \in Nat : k <= n => x % PowerOfTen[k] = y % PowerOfTen[k]}
<1>0. x \in Nat /\ y \in Nat
  BY PowerIs
<1>1. 0 \in S
  BY <1>0, PowerIs
<1>2. ASSUME NEW k \in Nat, k \in S, k + 1 <= n
      PROVE  x % PowerOfTen[k + 1] = y % PowerOfTen[k + 1]
  <2> DEFINE p == PowerOfTen[k]
             c(z) == (z \div p) % 10
  <2>1. p \in Nat \ {0} /\ PowerOfTen[k + 1] = 10 * p
    BY PowerIs
  <2>2. n - k \in 1 .. n /\ n - (n - k) = k
    BY <1>2
  <2>3. Digits(x, n)[n - k] = Digit[c(x) + 1] /\ Digits(y, n)[n - k] = Digit[c(y) + 1]
    BY <2>2 DEF Digits
  <2> HIDE DEF p
  <2>4. c(x) \in 0 .. 9 /\ c(y) \in 0 .. 9
    BY <1>0, <2>1
  <2>5. c(x) = c(y)
    BY <2>3, <2>4, DigitsApart
  <2>6. x % p = y % p
    BY <1>2 DEF p
  <2>7. x % (10 * p) = p * c(x) + (x % p)
    BY <1>0, <2>1, DigitMore
  <2>8. y % (10 * p) = p * c(y) + (y % p)
    BY <1>0, <2>1, DigitMore
  <2> HIDE DEF c
  <2> QED BY <2>1, <2>5, <2>6, <2>7, <2>8
<1>3. \A k \in Nat : k \in S => k + 1 \in S
  BY <1>2
<1> HIDE DEF S
<1>4. Nat \subseteq S
  BY <1>1, <1>3, Induction
<1>5. x % PowerOfTen[n] = y % PowerOfTen[n] /\ PowerOfTen[n] \in Nat \ {0}
  BY <1>4, PowerIs DEF S
<1>6. ASSUME NEW p \in Nat \ {0}, NEW z \in 1 .. p
      PROVE  z % p = IF z = p THEN 0 ELSE z
  <2>1. CASE z = p
    BY <2>1
  <2>2. CASE z # p
    BY <1>6, <2>2
  <2> QED BY <2>1, <2>2
<1> QED BY <1>5, <1>6

-----------------------------------------------------------------------------
(* Labels of threads                                                       *)

\* A name made of an id has as many digits as tell it.
LEMMA FallbackIs ==
  ASSUME NEW id \in 1 .. PowerOfTen[MaxThreadName]
  PROVE  \E n \in Nat : /\ FallbackName(id) = Digits(id, n)
                        /\ id \in 1 .. PowerOfTen[n]
                        /\ n = 0 => id = 1
<1> DEFINE Stops(n) == /\ n = MaxThreadName \/ id <= PowerOfTen[n]
                       /\ \A m \in 0 .. n - 1 : id > PowerOfTen[m]
           S == {n \in Nat : id <= PowerOfTen[n]}
           len == CHOOSE n \in 0 .. MaxThreadName : Stops(n)
<1>0. MaxThreadName \in Nat /\ \A n \in Nat : PowerOfTen[n] \in Nat
  BY PowerIs, ReportOutputAssumption
<1>1. /\ MaxThreadName \in Nat /\ id \in Nat /\ \A n \in Nat : PowerOfTen[n] \in Nat
      /\ 1 <= id /\ id <= PowerOfTen[MaxThreadName]
  BY <1>0
<1>2. MaxThreadName \in S
  BY <1>1
<1>3. PICK n \in S : \A k \in S : n <= k
  BY <1>2, Least
<1>4. n \in 0 .. MaxThreadName /\ Stops(n)
  BY <1>1, <1>2, <1>3
<1>5. len \in 0 .. MaxThreadName /\ Stops(len)
  BY <1>4
<1>6. FallbackName(id) = Digits(id, len)
  BY DEF FallbackName
<1> HIDE DEF len
<1>7. id <= PowerOfTen[len] /\ len \in Nat
  BY <1>1, <1>5
<1>8. len = 0 => id = 1
  BY <1>7, PowerIs
<1> QED BY <1>1, <1>6, <1>7, <1>8

\* Of an id, the label is the digits of some length.
LEMMA LabelIs ==
  ASSUME IdsFit, NEW r, r.thread_id \in ThreadIds, OsName[r.thread_id] = NoName,
         r.thread_name = Rename[ThreadName(r.thread_id)]
  PROVE  \E n \in Nat : /\ ThreadNameOrId(r) = Digits(r.thread_id, n)
                        /\ r.thread_id \in 1 .. PowerOfTen[n]
<1> DEFINE id == r.thread_id
<1>1. id \in 1 .. PowerOfTen[MaxThreadName] /\ r.thread_name = FallbackName(id)
  <2>1. id \in 1 .. PowerOfTen[MaxThreadName - 1] /\ r.thread_name = FallbackName(id)
    BY DEF IdsFit, ThreadName
  <2> DEFINE n == MaxThreadName - 1
  <2>2. n \in Nat /\ MaxThreadName = n + 1
    BY ReportOutputAssumption
  <2>3. PowerOfTen[n] \in Nat /\ PowerOfTen[n + 1] = 10 * PowerOfTen[n]
    BY <2>2, PowerIs
  <2> QED BY <2>1, <2>2, <2>3
<1>2. PICK n \in Nat : /\ FallbackName(id) = Digits(id, n)
                       /\ id \in 1 .. PowerOfTen[n]
                       /\ n = 0 => id = 1
  BY <1>1, FallbackIs
<1>3. CASE r.thread_name # <<>>
  BY <1>1, <1>2, <1>3 DEF ThreadNameOrId
<1>4. CASE r.thread_name = <<>>
  <2>1. id = 1
    <3>1. DOMAIN Digits(id, n) = 1 .. n
      BY DEF Digits
    <3>2. 1 .. n = {}
      BY <1>1, <1>2, <1>4, <3>1
    <3> QED BY <1>2, <3>2
  <2>2. PowerOfTen[0] = 1 /\ PowerOfTen[1] = 10
    <3>1. PowerOfTen[0] = 1 /\ PowerOfTen[0 + 1] = 10 * PowerOfTen[0]
      BY PowerIs
    <3> QED BY <3>1
  <2>3. \E w \in 1 .. 1 + 1 : 1 < PowerOfTen[w] /\ (w > 1 => PowerOfTen[w - 1] <= 1)
    BY <2>2
  <2>4. Width(1) \in 1 .. 2 /\ 1 <= PowerOfTen[Width(1)]
    <3>1. /\ Width(1) \in 1 .. 1 + 1
          /\ 1 < PowerOfTen[Width(1)]
      BY <2>3 DEF Width
    <3>2. PowerOfTen[Width(1)] \in Nat
      BY <3>1, PowerIs
    <3> QED BY <3>1, <3>2
  <2>5. ThreadNameOrId(r) = Digits(1, Width(1))
    BY <1>4, <2>1 DEF ThreadNameOrId
  <2>6. Width(1) \in Nat /\ PowerOfTen[Width(1)] \in Nat
    BY <2>4, PowerIs
  <2> QED BY <2>1, <2>4, <2>5, <2>6
<1> QED BY <1>3, <1>4

\* The rows have the names of their threads.
NamedInv ==
  \A r \in DOMAIN data : /\ r.thread_id \in ThreadIds
                         /\ r.thread_name = Rename[ThreadName(r.thread_id)]

LEMMA StepNamedInv ==
  ASSUME BuildInv, NamedInv, Build PROVE NamedInv'
<1>1. CASE AddRow
  <2>1. item \in Entry /\ data' = WithRow(RowOf(item), item.count)
    BY <1>1 DEF AddRow, BuildInv
  <2>2. DOMAIN data' \subseteq DOMAIN data \cup {RowOf(item)}
    BY <2>1 DEF WithRow
  <2>3. item.thread_id \in ThreadIds
    BY <2>1 DEF Entry
  <2> QED BY <2>2, <2>3 DEF NamedInv, RowOf
<1>2. CASE NextEntry \/ LookUp \/ ResolveFrame \/ Built
  BY <1>2 DEF NextEntry, LookUp, ResolveFrame, Built, NamedInv
<1> QED BY <1>1, <1>2 DEF Build

-----------------------------------------------------------------------------
(* Theorems                                                                *)

OutputNext == Build \/ Encode \/ Others

\* Building rows and encoding them take the steps of the perf map, or none.
LEMMA OutputIsMap == OutputSpec => MapSpec
<1>1. OutputInit => PerfMapInit
  BY DEF OutputInit
<1>2. [OutputNext]_outputVars => [MapStep]_perfMapVars
  <2> SUFFICES ASSUME [OutputNext]_outputVars PROVE [MapStep]_perfMapVars
    OBVIOUS
  <2>1. CASE Build
    BY <2>1 DEF Build, NextEntry, LookUp, ResolveFrame, AddRow, Built, MapStep
  <2>2. CASE Encode
    BY <2>2 DEF Encode
  <2>3. CASE Others
    BY <2>3 DEF Others, MapStep
  <2>4. CASE UNCHANGED outputVars
    BY <2>4 DEF outputVars
  <2> QED BY <2>1, <2>2, <2>3, <2>4 DEF OutputNext
<1> QED BY <1>1, <1>2, PTL DEF OutputSpec, MapSpec, OutputNext

\* Lookups use the lines of the file in order from the first on, for any number
\* of loaders; only the last may be cut, where the JIT had not written on when it
\* was read (PerfMap::new, init_resolver, get_resolver).
THEOREM LookupsFromFile == OutputSpec => []ResolverFromFile
BY OutputIsMap, MapFromFile, PTL

\* A lookup never loses the map it had because a reload finds the file missing,
\* unchanged or ending in what does not parse (init_resolver returns None,
\* get_resolver keeps what it has).
THEOREM LookupsKeepMap == OutputSpec => MapStays
BY OutputIsMap, MapKept, PTL

\* While reports are made, too, only loaders that overlap or a second write
\* within a second leave the map of the lookups behind the file.
THEOREM LookupsFresh == OutputSpec => []StaleOnlyIfRaced
BY OutputIsMap, MapFresh, PTL

\* The perf map's variables have their types while reports are made.
THEOREM LookupTypes == OutputSpec => []PerfMapTypeOK
BY OutputIsMap, MapTypes, PTL

EncodingInvs == BuildInv /\ DataInv /\ EncodeInv /\ ShowInv

LEMMA EncodingInvariant == OutputSpec => []EncodingInvs
<1>1. OutputInit => EncodingInvs
  BY InitBuildInv, InitEncodeInv DEF EncodingInvs, ShowInv, Encoding
<1>2. EncodingInvs /\ [OutputNext]_outputVars => EncodingInvs'
  <2> USE DEF EncodingInvs
  <2> SUFFICES ASSUME BuildInv, DataInv, EncodeInv, ShowInv, [OutputNext]_outputVars
               PROVE  EncodingInvs'
    OBVIOUS
  <2>1. CASE Build
    <3>1. stage' \notin Encoding
      BY <2>1 DEF Build, NextEntry, LookUp, ResolveFrame, AddRow, Built, Encoding
    <3>2. ShowInv'
      BY <3>1 DEF ShowInv, Encoding
    <3> QED BY <2>1, <3>2, StepBuildInv, BuildEncodeInv
  <2>2. CASE Encode
    <3>1. PprofStep /\ UNCHANGED buildVars
      BY <2>2 DEF Encode
    <3>2. EncodeInv'
      BY <3>1, CallPprofInv, ExtendStrTblInv, StartRowsInv, NextRowInv, NextFrameInv,
         KnownSymbolInv, NewSymbolInv, EmitSampleInv, FinishInv DEF PprofStep
    <3>3. UNCHANGED data /\ stage' \notin {"lookup", "resolve"}
      BY <3>1 DEF PprofStep, CallPprof, ExtendStrTbl, StartRows, NextRow, NextFrame,
         KnownSymbol, NewSymbol, EmitSample, Finish
    <3>4. BuildInv' /\ DataInv'
      BY <3>1, <3>3 DEF BuildInv, DataInv, AreFrames, buildVars
    <3>5. CallPprof \/ ExtendStrTbl => ShowInv'
      BY DEF CallPprof, ExtendStrTbl, ShowInv, Encoding
    <3>6. ShowInv'
      BY <3>1, <3>5, StartRowsShow, NextRowShow, NextFrameShow, KnownSymbolShow,
         NewSymbolShow, EmitSampleShow, FinishShow DEF PprofStep
    <3> QED BY <3>2, <3>4, <3>6
  <2>3. CASE UNCHANGED <<pprofVars, buildVars>>
    <3>1. UNCHANGED <<entries, item, frame_iter, fs, data, stage, dedup_str, str_tbl,
                      strings, left, key, frames, symbols, locs, functions, fn_tbl,
                      loc_tbl, samples>>
      BY <2>3 DEF pprofVars, buildVars, tableVars, rowVars, outVars
    <3>2. BuildInv' /\ DataInv'
      BY <3>1 DEF BuildInv, DataInv, AreFrames
    <3>3. TablesInv'
      BY <3>1, SameTables DEF EncodeInv
    <3>4. StringsInv => StringsInv'
      BY <3>1, SameStrings
    <3>5. RowInv => RowInv'
      BY <3>1 DEF RowInv, SymbolsOf
    <3>6. EncodeInv'
      BY <3>1, <3>3, <3>4, <3>5 DEF EncodeInv
    <3>7. Rows' = Rows
      BY <3>1 DEF Rows
    <3>8. ShowInv'
      BY <3>1, <3>7, SameFunctions, SameRows, SameRow DEF ShowInv
    <3> QED BY <3>2, <3>6, <3>8
  <2> QED BY <2>1, <2>2, <2>3 DEF OutputNext, Others, outputVars
<1> QED BY <1>1, <1>2, PTL DEF OutputSpec, OutputNext

\* At every moment of Report::pprof, every id and every index of the profile
\* refers to something that is there, for any report.
THEOREM ProfilesResolve == OutputSpec => []TablesResolve
<1>1. EncodingInvs => TablesResolve
  <2> SUFFICES ASSUME EncodingInvs PROVE TablesResolve
    OBVIOUS
  <2>1. ASSUME stage = "done", NEW x \in {SAMPLES, COUNT, CPU, NANOSECONDS}
        PROVE  strings[x] + 1 \in DOMAIN str_tbl
    <3>1. StringsInv /\ dedup_str = {}
      BY <2>1 DEF EncodingInvs, EncodeInv, Building, Encoding
    <3>2. x \in Strings
      BY FixedStrings
    <3> QED BY <3>1, <3>2 DEF StringsInv
  <2>2. TablesRefer
    BY DEF EncodingInvs, EncodeInv, TablesInv
  <2> QED BY <2>1, <2>2 DEF TablesResolve, Profile, ValueType
<1> QED BY <1>1, EncodingInvariant, PTL

\* No function of a profile mixes two symbols, and of every name in the report
\* there is one, however rows share functions.
THEOREM ProfileSymbols == OutputSpec => []SymbolsExact
<1>1. EncodingInvs => SymbolsExact
  <2> SUFFICES ASSUME EncodingInvs, stage = "done"
               PROVE  /\ \A i \in DOMAIN fn_tbl :
                           /\ DecodedSymbol(i) \in AllSymbols
                           /\ Str(fn_tbl[i].name) = Name(DecodedSymbol(i))
                      /\ \A s \in AllSymbols :
                           (\A t \in AllSymbols : Name(t) = Name(s) => t = s) =>
                              \E i \in DOMAIN fn_tbl : DecodedSymbol(i) = s
    BY DEF SymbolsExact
  <2>1. FunctionsShown /\ RowsShown /\ left = {} /\ stage \in Encoding
    BY DEF EncodingInvs, ShowInv, Encoding
  <2>2. ASSUME NEW s \in AllSymbols, \A t \in AllSymbols : Name(t) = Name(s) => t = s
        PROVE  \E i \in DOMAIN fn_tbl : DecodedSymbol(i) = s
    <3>1. PICK r \in DOMAIN data : s \in SymbolsOf(r)
      BY DEF AllSymbols
    <3>2. Name(s) \in DOMAIN functions
      BY <2>1, <3>1 DEF RowsShown, Rows
    <3>3. functions[Name(s)] \in DOMAIN fn_tbl
      BY <2>1, <3>2, TablesFacts DEF EncodingInvs
    <3>4. DecodedSymbol(functions[Name(s)]) = s
      BY <2>1, <2>2, <3>2, <3>3 DEF FunctionsShown
    <3> QED BY <3>3, <3>4
  <2> QED BY <2>1, <2>2 DEF FunctionsShown
<1> QED BY <1>1, EncodingInvariant, PTL

\* A profile and a flamegraph of one report show the same stacks of the same
\* threads, as often and with the same counts, for any report.
THEOREM ProfileIsFlamegraph == OutputSpec => []SameAsFlamegraph
<1>1. EncodingInvs => SameAsFlamegraph
  <2> DEFINE FlameLines == {FlameLine(r) : r \in DOMAIN data}
             Ks(l) == {k \in DOMAIN samples : Decoded(samples[k]) = l}
             Rs(l) == {r \in DOMAIN data : FlameLine(r) = l}
  <2> SUFFICES ASSUME EncodingInvs, stage = "done"
               PROVE  /\ {Decoded(samples[k]) : k \in DOMAIN samples} = FlameLines
                      /\ \A l \in FlameLines : Cardinality(Ks(l)) = Cardinality(Rs(l))
    BY DEF SameAsFlamegraph
  <2>1. RowsShown /\ left = {} /\ stage \in Encoding
    BY DEF EncodingInvs, ShowInv, Encoding
  <2>2. Rows = DOMAIN data
    BY <2>1 DEF Rows
  <2>3. PICK f \in Bijection(DOMAIN samples, DOMAIN data) :
          \A k \in DOMAIN samples : Decoded(samples[k]) = FlameLine(f[k])
    BY <2>1, <2>2 DEF RowsShown
  <2>4. /\ f \in [DOMAIN samples -> DOMAIN data]
        /\ \A j, k \in DOMAIN samples : f[j] = f[k] => j = k
        /\ \A r \in DOMAIN data : \E k \in DOMAIN samples : f[k] = r
    BY DEF Bijection, Injection, Surjection, IsInjective
  <2>5. {Decoded(samples[k]) : k \in DOMAIN samples} = FlameLines
    BY <2>3, <2>4
  <2>6. ASSUME NEW l PROVE Cardinality(Ks(l)) = Cardinality(Rs(l))
    <3> DEFINE g == [k \in Ks(l) |-> f[k]]
    <3>1. /\ g \in [Ks(l) -> Rs(l)]
          /\ \A j, k \in Ks(l) : g[j] = g[k] => j = k
          /\ \A r \in Rs(l) : \E k \in Ks(l) : g[k] = r
      BY <2>3, <2>4
    <3>2. IsFiniteSet(Ks(l))
      <4>1. samples \in Seq(SampleMessage)
        BY <2>1, TablesFacts DEF EncodingInvs
      <4>2. IsFiniteSet(1 .. Len(samples)) /\ DOMAIN samples = 1 .. Len(samples)
        BY <4>1, FS_Interval
      <4>3. Ks(l) \subseteq 1 .. Len(samples)
        BY <4>2
      <4> HIDE DEF Ks
      <4> QED BY <4>2, <4>3, FS_Subset
    <3> HIDE DEF Ks, Rs, g
    <3>3. ExistsBijection(Ks(l), Rs(l))
      BY <3>1 DEF ExistsBijection, Bijection, Injection, Surjection, IsInjective
    <3> QED BY <3>2, <3>3, FS_Bijection
  <2> QED BY <2>5, <2>6
<1> QED BY <1>1, EncodingInvariant, PTL

\* A report shows every backtrace of the collector, at its thread and time, and
\* counts every sample once, for any loaders and lines and whichever entries
\* become equal, if the handler's frames can be told from all others
\* (HandlerApart): Frames::from and build_and_clear.
THEOREM EntriesShown == HandlerApart => (OutputSpec => []ReportShowsEntries)
<1> SUFFICES ASSUME HandlerApart PROVE OutputSpec => []ReportShowsEntries
  OBVIOUS
<1>1. OutputSpec => []MapInv
  BY OutputIsMap, MapInvariant, PTL
<1>2. MapInv /\ EncodingInvs /\ ConvertInv /\ [OutputNext]_outputVars => ConvertInv'
  <2> SUFFICES ASSUME MapInv, EncodingInvs, ConvertInv, [OutputNext]_outputVars
               PROVE  ConvertInv'
    OBVIOUS
  <2>1. CASE Build
    BY <2>1, BuildConvertInv DEF EncodingInvs
  <2>2. CASE Encode
    <3>1. stage' \notin Building
      BY <2>2 DEF Encode, PprofStep, CallPprof, ExtendStrTbl, StartRows, NextRow,
         NextFrame, KnownSymbol, NewSymbol, EmitSample, Finish, Building
    <3> QED BY <3>1 DEF ConvertInv
  <2>3. CASE Others \/ UNCHANGED outputVars
    <3>1. UNCHANGED <<source, entries, item, frame_iter, fs, data, stage>>
      BY <2>3 DEF Others, outputVars, pprofVars, buildVars
    <3> QED BY <3>1 DEF ConvertInv
  <2> QED BY <2>1, <2>2, <2>3 DEF OutputNext
<1>3. ConvertInv => ReportShowsEntries
  BY ShowsAll DEF ReportShowsEntries
<1> QED BY <1>1, <1>2, <1>3, InitConvertInv, EncodingInvariant, PTL
        DEF OutputSpec, OutputNext

\* Two threads that the system has no name for never have one label, in a
\* flamegraph or in a profile, if their ids go up to 10^(MaxThreadName - 1), so
\* that a NUL follows the digits, and no processor changes the names made of them
\* (IdsFit): write_thread_name_fallback, thread_name_or_id.
THEOREM LabelsDiffer == IdsFit => (OutputSpec => []ThreadLabelsDiffer)
<1> SUFFICES ASSUME IdsFit PROVE OutputSpec => []ThreadLabelsDiffer
  OBVIOUS
<1>1. OutputInit => NamedInv
  BY DEF OutputInit, NamedInv
<1>2. EncodingInvs /\ NamedInv /\ [OutputNext]_outputVars => NamedInv'
  <2> SUFFICES ASSUME EncodingInvs, NamedInv, [OutputNext]_outputVars PROVE NamedInv'
    OBVIOUS
  <2>1. CASE Build
    BY <2>1, StepNamedInv DEF EncodingInvs
  <2>2. CASE ~Build
    <3>1. data' = data
      BY <2>2 DEF OutputNext, Others, Encode, PprofStep, CallPprof, ExtendStrTbl,
         StartRows, NextRow, NextFrame, KnownSymbol, NewSymbol, EmitSample, Finish,
         outputVars, pprofVars
    <3> QED BY <3>1 DEF NamedInv
  <2> QED BY <2>1, <2>2
<1>3. NamedInv => ThreadLabelsDiffer
  <2> SUFFICES ASSUME NamedInv, NEW q \in DOMAIN data, NEW r \in DOMAIN data,
                      OsName[q.thread_id] = NoName, OsName[r.thread_id] = NoName,
                      ThreadNameOrId(q) = ThreadNameOrId(r)
               PROVE  q.thread_id = r.thread_id
    BY DEF ThreadLabelsDiffer
  <2>1. PICK m \in Nat : /\ ThreadNameOrId(q) = Digits(q.thread_id, m)
                         /\ q.thread_id \in 1 .. PowerOfTen[m]
    BY LabelIs DEF NamedInv
  <2>2. PICK n \in Nat : /\ ThreadNameOrId(r) = Digits(r.thread_id, n)
                         /\ r.thread_id \in 1 .. PowerOfTen[n]
    BY LabelIs DEF NamedInv
  <2>3. 1 .. m = 1 .. n
    <3>1. \A id, k : DOMAIN Digits(id, k) = 1 .. k
      BY DEF Digits
    <3>2. Digits(q.thread_id, m) = Digits(r.thread_id, n)
      BY <2>1, <2>2
    <3>3. DOMAIN Digits(q.thread_id, m) = 1 .. m /\ DOMAIN Digits(r.thread_id, n) = 1 .. n
      BY <3>1
    <3> QED BY <3>2, <3>3
  <2>4. m = n
    BY <2>3
  <2> QED BY <2>1, <2>2, <2>4, DigitsTell
<1> QED BY <1>1, <1>2, <1>3, EncodingInvariant, PTL DEF OutputSpec, OutputNext
=============================================================================
