------------------------------- MODULE Pprof --------------------------------
(***************************************************************************)
(* Report::pprof: a report as a profile of tables that refer to each other *)
(* by number.  Functions are found by their demangled name; a function and *)
(* its location get the same id.                                           *)
(*                                                                         *)
(* A string is a sequence of words, and <<>> the empty one.  The tables    *)
(* are filled in the order in which the hash map yields its rows.          *)
(***************************************************************************)
EXTENDS Integers, Sequences, FiniteSets

CONSTANTS RawNames,    \* raw symbol names
          Demangle,    \* their demangled names: several may have one
          Files, LineNumbers,
          ThreadIds, ThreadNames, Timestamps,
          Frequency,   \* timing.frequency
          Nanos        \* the nanoseconds of a second, in the model's scale

Text == Seq(STRING)

ASSUME PprofAssumption ==
  /\ RawNames \subseteq Text /\ Demangle \in [RawNames -> Text]
  /\ Files \subseteq Text /\ LineNumbers \subseteq Nat
  /\ ThreadIds \subseteq Nat /\ ThreadNames \subseteq Text
  /\ Timestamps \subseteq Nat
  /\ Frequency \in Nat \ {0} /\ Nanos \in Nat

Symbol == [name : RawNames, filename : Files, lineno : LineNumbers]

Frames == [frames : Seq(Seq(Symbol)), thread_name : ThreadNames,
           thread_id : ThreadIds, sample_timestamp : Timestamps]

VARIABLES data,       \* Report.data
          stage,      \* where the report stands
          dedup_str,  \* the strings still to be put in the table
          str_tbl, strings,         \* the table, and where each string is
          left,       \* the rows still to be encoded
          key, frames, symbols,     \* the row, what is left of it, of its frame
          locs, functions, fn_tbl, loc_tbl, samples

tableVars == <<str_tbl, strings>>
outVars   == <<functions, fn_tbl, loc_tbl, samples>>
rowVars   == <<left, key, frames, symbols, locs>>
pprofVars == <<data, stage, dedup_str, tableVars, rowVars, outVars>>

-----------------------------------------------------------------------------
(* The messages of the format, as far as the encoding sets them            *)

FunctionMessage == [id : Nat, name : Nat, system_name : Nat, filename : Nat]
LineMessage     == [function_id : Nat, line : Nat]
LocationMessage == [id : Nat, line : LineMessage]
LabelMessage    == [key : Nat, str : Nat]
SampleMessage   == [location_id : Seq(Nat), value : [1 .. 2 -> Int],
                    label : LabelMessage]

-----------------------------------------------------------------------------
(* What a symbol and a row are called                                      *)

Digit == <<"0", "1", "2", "3", "4", "5", "6", "7", "8", "9">>

PowerOfTen[n \in Nat] == IF n = 0 THEN 1 ELSE 10 * PowerOfTen[n - 1]

\* The n last decimal digits of id
Digits(id, n) == [i \in 1 .. n |-> Digit[((id \div PowerOfTen[n - i]) % 10) + 1]]

\* The width of a number in print
Width(id) == CHOOSE n \in 1 .. id + 1 :
               id < PowerOfTen[n] /\ (n > 1 => PowerOfTen[n - 1] <= id)

Name(s) == Demangle[s.name]

ThreadNameOrId(r) == IF r.thread_name # <<>>
                       THEN r.thread_name
                       ELSE Digits(r.thread_id, Width(r.thread_id))

SymbolsOf(r) == UNION {{r.frames[i][j] : j \in DOMAIN r.frames[i]} :
                         i \in DOMAIN r.frames}

SAMPLES     == <<"samples">>
COUNT       == <<"count">>
CPU         == <<"cpu">>
NANOSECONDS == <<"nanoseconds">>
THREAD      == <<"thread">>

RowStrings(r) ==
  {ThreadNameOrId(r)}
    \cup UNION {{Name(s), s.name, s.filename} : s \in SymbolsOf(r)}

\* dedup_str, filled
Strings == {SAMPLES, COUNT, CPU, NANOSECONDS, THREAD}
             \cup UNION {RowStrings(r) : r \in DOMAIN data}

-----------------------------------------------------------------------------
(* Report::pprof                                                           *)

PprofInit ==
  /\ dedup_str = {} /\ str_tbl = <<>> /\ strings = <<>>
  /\ left = {} /\ key = <<>> /\ frames = <<>> /\ symbols = <<>> /\ locs = <<>>
  /\ functions = <<>> /\ fn_tbl = <<>> /\ loc_tbl = <<>> /\ samples = <<>>

CallPprof ==
  /\ stage = "built"
  /\ stage' = "strings"
  /\ dedup_str' = Strings
  /\ str_tbl' = << <<>> >>
  /\ strings' = [s \in {<<>>} |-> 0]
  /\ UNCHANGED <<data, rowVars, outVars>>

\* The next string of the table, in whichever order the set yields them, and
\* its index.  The empty string moves if the set has it too.
ExtendStrTbl ==
  /\ stage = "strings" /\ dedup_str # {}
  /\ LET s == CHOOSE s \in dedup_str : TRUE IN
       /\ dedup_str' = dedup_str \ {s}
       /\ str_tbl' = Append(str_tbl, s)
       /\ strings' = [x \in DOMAIN strings \cup {s} |->
                        IF x = s THEN Len(str_tbl) ELSE strings[x]]
  /\ UNCHANGED <<data, stage, rowVars, outVars>>

StartRows ==
  /\ stage = "strings" /\ dedup_str = {}
  /\ stage' = "rows"
  /\ left' = DOMAIN data
  /\ UNCHANGED <<data, dedup_str, tableVars, key, frames, symbols, locs, outVars>>

\* Mutant: the locations of the row before are still there.
NextRowKeepsLocs ==
  /\ stage = "rows"
  /\ \E r \in left :
       key' = r /\ frames' = r.frames /\ left' = left \ {r}
  /\ symbols' = <<>>
  /\ stage' = "row"
  /\ UNCHANGED <<data, dedup_str, locs, tableVars, outVars>>

NextRow ==
  /\ stage = "rows"
  /\ \E r \in left :
       key' = r /\ frames' = r.frames /\ left' = left \ {r}
  /\ symbols' = <<>> /\ locs' = <<>>
  /\ stage' = "row"
  /\ UNCHANGED <<data, dedup_str, tableVars, outVars>>

NextFrame ==
  /\ stage = "row" /\ symbols = <<>> /\ frames # <<>>
  /\ symbols' = Head(frames)
  /\ frames' = Tail(frames)
  /\ UNCHANGED <<data, stage, dedup_str, tableVars, left, key, locs, outVars>>

\* A symbol whose name is known takes the function of that name.
KnownSymbol ==
  /\ stage = "row" /\ symbols # <<>>
  /\ Name(Head(symbols)) \in DOMAIN functions
  /\ locs' = Append(locs, functions[Name(Head(symbols))])
  /\ symbols' = Tail(symbols)
  /\ UNCHANGED <<data, stage, dedup_str, tableVars, left, key, frames, outVars>>

\* Mutant: ids count from 0, as indices do.
FunctionIdFromZero == Len(fn_tbl)

FunctionId == Len(fn_tbl) + 1

\* Mutant: the raw name and the file change places.
FunctionSwapped(s) ==
  [id |-> FunctionId, name |-> strings[Name(s)],
   system_name |-> strings[s.filename], filename |-> strings[s.name]]

Function(s) ==
  [id |-> FunctionId, name |-> strings[Name(s)],
   system_name |-> strings[s.name], filename |-> strings[s.filename]]

Location(s) ==
  [id |-> FunctionId, line |-> [function_id |-> FunctionId, line |-> s.lineno]]

NewSymbol ==
  /\ stage = "row" /\ symbols # <<>>
  /\ LET s == Head(symbols) IN
       /\ Name(s) \notin DOMAIN functions
       /\ functions' = [n \in DOMAIN functions \cup {Name(s)} |->
                          IF n = Name(s) THEN FunctionId ELSE functions[n]]
       /\ fn_tbl' = Append(fn_tbl, Function(s))
       /\ loc_tbl' = Append(loc_tbl, Location(s))
       /\ locs' = Append(locs, FunctionId)
  /\ symbols' = Tail(symbols)
  /\ UNCHANGED <<data, stage, dedup_str, tableVars, left, key, frames, samples>>

\* One value in samples, one in the nanoseconds they stand for
Sample(r) ==
  [location_id |-> locs,
   value |-> <<data[r], (data[r] * Nanos) \div Frequency>>,
   label |-> [key |-> strings[THREAD], str |-> strings[ThreadNameOrId(r)]]]

EmitSample ==
  /\ stage = "row" /\ symbols = <<>> /\ frames = <<>>
  /\ samples' = Append(samples, Sample(key))
  /\ stage' = "rows"
  /\ UNCHANGED <<data, dedup_str, tableVars, rowVars, functions, fn_tbl, loc_tbl>>

ValueType(ty, unit) == [ty |-> strings[ty], unit |-> strings[unit]]

Profile ==
  [sample_type  |-> <<ValueType(SAMPLES, COUNT), ValueType(CPU, NANOSECONDS)>>,
   period_type  |-> ValueType(CPU, NANOSECONDS), period |-> Nanos \div Frequency,
   sample |-> samples, location |-> loc_tbl, function |-> fn_tbl,
   string_table |-> str_tbl]

\* pprof returns Profile.
Finish ==
  /\ stage = "rows" /\ left = {}
  /\ stage' = "done"
  /\ UNCHANGED <<data, dedup_str, tableVars, rowVars, outVars>>

PprofStep ==
  \/ CallPprof \/ ExtendStrTbl \/ StartRows \/ NextRow \/ NextFrame
  \/ KnownSymbol \/ NewSymbol \/ EmitSample \/ Finish

-----------------------------------------------------------------------------
(* Report::flamegraph                                                      *)

\* The names of the symbols of frame f, reversed
NamesOf(f) == [j \in DOMAIN f |-> Name(f[Len(f) + 1 - j])]

\* Those of the first frames of row r, the frames reversed as well
NamesUpto(r) ==
  LET Upto[i \in 0 .. Len(r.frames)] ==
        IF i = 0 THEN <<>> ELSE NamesOf(r.frames[i]) \o Upto[i - 1]
  IN  Upto

\* The names from the root to the leaf
RootToLeaf(r) == NamesUpto(r)[Len(r.frames)]

FlameLine(r) ==
  [thread |-> ThreadNameOrId(r), stack |-> RootToLeaf(r), count |-> data[r]]

-----------------------------------------------------------------------------
(* Properties                                                              *)

Str(i) == str_tbl[i + 1]     \* a string by its index

TablesRefer ==
  /\ fn_tbl \in Seq(FunctionMessage) /\ loc_tbl \in Seq(LocationMessage)
  /\ samples \in Seq(SampleMessage)
  /\ Len(loc_tbl) = Len(fn_tbl)
  /\ \A i \in DOMAIN fn_tbl :
       /\ fn_tbl[i].id = i /\ loc_tbl[i].id = i
       /\ loc_tbl[i].line.function_id = i
       /\ fn_tbl[i].name + 1 \in DOMAIN str_tbl
       /\ fn_tbl[i].system_name + 1 \in DOMAIN str_tbl
       /\ fn_tbl[i].filename + 1 \in DOMAIN str_tbl
  /\ \A k \in DOMAIN samples :
       /\ \A j \in DOMAIN samples[k].location_id :
            samples[k].location_id[j] \in DOMAIN loc_tbl
       /\ samples[k].label.key + 1 \in DOMAIN str_tbl
       /\ samples[k].label.str + 1 \in DOMAIN str_tbl
  /\ str_tbl # <<>> => str_tbl[1] = <<>>

\* What the format asks of a profile (perftools.profiles.rs): ids are unique
\* and not zero, location_id, function_id and every index refer to something
\* that is there, a sample has a value for each sample type, and the first
\* string is empty.  The tables are so at every moment of the encoding.
TablesResolve ==
  /\ TablesRefer
  /\ stage = "done" =>
       \A t \in {Profile.sample_type[1], Profile.sample_type[2], Profile.period_type} :
         /\ t.ty + 1 \in DOMAIN Profile.string_table
         /\ t.unit + 1 \in DOMAIN Profile.string_table

\* A sample of the profile, read as a line of the flamegraph
Decoded(sample) ==
  LET n == Len(sample.location_id) IN
    [thread |-> Str(sample.label.str),
     stack  |-> [i \in 1 .. n |->
                   Str(fn_tbl[loc_tbl[sample.location_id[n + 1 - i]].line.function_id].name)],
     count  |-> sample.value[1]]

\* The two encodings of a report show the same: each stack of each thread as
\* often and with the same counts, however functions were shared.
SameAsFlamegraph ==
  stage = "done" =>
    LET FlameLines == {FlameLine(r) : r \in DOMAIN data} IN
      /\ {Decoded(samples[k]) : k \in DOMAIN samples} = FlameLines
      /\ \A l \in FlameLines :
           Cardinality({k \in DOMAIN samples : Decoded(samples[k]) = l})
             = Cardinality({r \in DOMAIN data : FlameLine(r) = l})

AllSymbols == UNION {SymbolsOf(r) : r \in DOMAIN data}

\* Function and location i, read as a symbol
DecodedSymbol(i) ==
  [name |-> Str(fn_tbl[i].system_name), filename |-> Str(fn_tbl[i].filename),
   lineno |-> loc_tbl[i].line.line]

\* No function mixes two symbols.  Of the symbols of one name only one is in
\* the tables, so a symbol's raw name, file and line can be relied on where no
\* other symbol of the report has its name.
SymbolsExact ==
  stage = "done" =>
    /\ \A i \in DOMAIN fn_tbl :
         /\ DecodedSymbol(i) \in AllSymbols
         /\ Str(fn_tbl[i].name) = Name(DecodedSymbol(i))
    /\ \A s \in AllSymbols :
         (\A t \in AllSymbols : Name(t) = Name(s) => t = s) =>
            \E i \in DOMAIN fn_tbl : DecodedSymbol(i) = s
=============================================================================
