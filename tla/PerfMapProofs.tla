---------------------------- MODULE PerfMapProofs ----------------------------
(***************************************************************************)
(* The perf map for any number of loader threads and any file the JIT      *)
(* writes.  MapSpec has the steps of PerfMap, in whatever order reports    *)
(* take theirs.                                                            *)
(*                                                                         *)
(* MapInv says of every copy a thread holds what ResolverFromFile says of  *)
(* the one in use.  RaceInv is for staleness: as long as no two loaders    *)
(* overlap, one thread at most is between a modification time and the map  *)
(* that belongs to it (Alone); and as long as no write fell in a second    *)
(* already loaded, a modification time that is the file's vouches for the  *)
(* map in use, or for one on its way (Current).                            *)
(***************************************************************************)
EXTENDS PerfMap, SequenceTheorems, TLAPS

\* The steps of a report that touch the perf map, and of everybody else
MapStep == Environment \/ LoaderStep \/ GetResolver \/ LoadMap

MapSpec == PerfMapInit /\ [][MapStep]_perfMapVars

-----------------------------------------------------------------------------
(* Copies of the file                                                      *)

\* A copy that a load may have made
FromFile(m) == m \in Seq(Parsed) /\ BeginsFile(m)

MapInv ==
  /\ file \in Seq(Lines) /\ LastOK
  /\ resolver = NoMap \/ FromFile(resolver)
  /\ DOMAIN map = Threads /\ DOMAIN lpc = Threads
  /\ \A c \in Threads : map[c] = NoMap \/ FromFile(map[c])
  /\ lazy # "ready" => resolver = NoMap
  /\ initBy # NoMap => lazy = "busy"
  /\ \A d \in Loaders : lpc[d] = "deref" \/ initBy = d => map[d] # NoMap

LEMMA NoMapIsNone ==
  /\ NoMap \notin Seq(Parsed) /\ NoMap \notin Seq(Lines) /\ NoMap \notin Threads
  /\ Reporter \notin Loaders /\ Loaders \subseteq Threads /\ Reporter \in Threads
<1>1. Lines \subseteq Parsed
  BY DEF Parsed
<1>2. Seq(Lines) \subseteq Seq(Parsed)
  BY <1>1
<1> QED BY <1>2, PerfMapAssumption DEF Threads

\* A line has finitely many beginnings that parse.
LEMMA CutsAreParsed ==
  ASSUME NEW e \in Lines
  PROVE  /\ Len(Cuts[e]) \in Nat /\ DOMAIN Cuts[e] = 1 .. Len(Cuts[e])
         /\ \A n \in 1 .. Len(Cuts[e]) : Cuts[e][n] \in Parsed /\ Cuts[e][n] \in CutsOf(e)
<1>1. Cuts[e] \in Seq(Parsed)
  BY PerfMapAssumption
<1> QED BY <1>1 DEF CutsOf

LEMMA InitMapInv == PerfMapInit => MapInv
<1>1. <<>> \in Seq(Lines)
  OBVIOUS
<1>2. ASSUME PerfMapInit PROVE LastOK
  <2>1. half = FALSE /\ part = 0
    BY <1>2 DEF PerfMapInit
  <2> QED BY <2>1 DEF LastOK
<1> QED BY <1>1, <1>2, NoMapIsNone DEF PerfMapInit, MapInv

\* What can be read of the file is None or begins it.
LEMMA ReadBegins ==
  ASSUME MapInv PROVE PerfMapNew = NoMap \/ FromFile(PerfMapNew)
<1>1. file \in Seq(Lines) /\ file \in Seq(Parsed) /\ LastOK
  <2>1. Lines \subseteq Parsed
    BY DEF Parsed
  <2> QED BY <2>1 DEF MapInv
<1>2. CASE ~half
  BY <1>1, <1>2 DEF PerfMapNew, FromFile, BeginsFile, Readings
<1>3. CASE half /\ part = 0
  BY <1>3 DEF PerfMapNew
<1>4. CASE half /\ part # 0
  <2> DEFINE n == Len(file)
             e == file[n]
             m == [file EXCEPT ![n] = Cuts[e][part]]
  <2>1. n \in 1 .. Len(file) /\ e \in Lines
    BY <1>1, <1>4 DEF LastOK
  <2>2. part \in 1 .. part /\ part \in 1 .. Len(Cuts[e])
    BY <1>1, <1>4, <2>1, CutsAreParsed DEF LastOK
  <2>3. Cuts[e][part] \in Parsed
    BY <2>1, <2>2, CutsAreParsed
  <2>4. /\ m \in Seq(Parsed) /\ Len(m) = n
        /\ \A i \in 1 .. n : m[i] = IF i = n THEN Cuts[e][part] ELSE file[i]
    <3> HIDE DEF e
    <3> QED BY <1>1, <2>1, <2>3, ExceptSeq
  <2>5. Cuts[e][part] \in Readings(n)
    BY <1>4, <2>2 DEF Readings
  <2>6. FromFile(m)
    <3> HIDE DEF m, e
    <3> QED BY <1>1, <2>4, <2>5 DEF FromFile, BeginsFile
  <2> QED BY <1>4, <2>6 DEF PerfMapNew
<1> QED BY <1>2, <1>3, <1>4

\* What a line has parsed as it may have parsed as when more is written.
LEMMA WriteBegins ==
  ASSUME MapInv, NewLine \/ SameLine, half' => (half => part < part'),
         LastOK', NEW m, FromFile(m)
  PROVE  file' \in Seq(Lines) /\ FromFile(m)'
<1>1. file \in Seq(Lines) /\ LastOK /\ m \in Seq(Parsed) /\ Len(m) <= Len(file)
  BY DEF MapInv, FromFile, BeginsFile
<1>2. /\ file' \in Seq(Lines) /\ Len(file) <= Len(file')
      /\ \A i \in 1 .. Len(file) : file'[i] = file[i]
      /\ ~half => Len(file) < Len(file')
      /\ half => file' = file
  BY <1>1 DEF NewLine, SameLine
<1>3. ASSUME NEW i \in 1 .. Len(file) PROVE Readings(i) \subseteq Readings(i)'
  <2>1. file[i] \in Lines /\ file'[i] = file[i]
    BY <1>1, <1>2
  <2>2. CASE half /\ i = Len(file)
    <3>1. Readings(i) = {Cuts[file[i]][n] : n \in 1 .. part}
      BY <2>2 DEF Readings
    <3>2. file' = file /\ part \in Nat /\ part <= Len(Cuts[file[i]])
      BY <1>1, <1>2, <2>2 DEF LastOK
    <3>3. CASE half'
      <4>1. Readings(i)' = {Cuts[file[i]][n] : n \in 1 .. part'}
        BY <2>2, <3>2, <3>3 DEF Readings
      <4>2. part' \in Nat /\ part < part'
        BY <2>2, <3>3 DEF LastOK
      <4>3. 1 .. part \subseteq 1 .. part'
        BY <3>2, <4>2
      <4> QED BY <3>1, <4>1, <4>3
    <3>4. CASE ~half'
      <4>1. CutsOf(file[i]) \subseteq Readings(i)'
        BY <2>1, <3>4 DEF Readings, CutsOf
      <4>2. \A n \in 1 .. part : Cuts[file[i]][n] \in CutsOf(file[i])
        BY <2>1, <3>2, CutsAreParsed
      <4> QED BY <3>1, <4>1, <4>2
    <3> QED BY <3>3, <3>4
  <2>3. CASE ~(half /\ i = Len(file))
    <3>1. ~(half' /\ i = Len(file'))
      BY <1>1, <1>2, <2>3
    <3> QED BY <2>1, <2>3, <3>1 DEF Readings, CutsOf
  <2> QED BY <2>2, <2>3
<1>4. BeginsFile(m)'
  <2>1. Len(m) <= Len(file')
    BY <1>1, <1>2
  <2>2. ASSUME NEW i \in DOMAIN m
        PROVE  IF i < Len(m) THEN m[i] = file'[i] ELSE m[i] \in Readings(i)'
    <3>1. i \in 1 .. Len(file) /\ file'[i] = file[i]
      BY <1>1, <1>2
    <3>2. IF i < Len(m) THEN m[i] = file[i] ELSE m[i] \in Readings(i)
      BY DEF FromFile, BeginsFile
    <3> QED BY <1>3, <3>1, <3>2
  <2> QED BY <2>1, <2>2 DEF BeginsFile
<1> QED BY <1>1, <1>2, <1>4 DEF FromFile

\* What is begun or finished is a line of its own.
LEMMA WriteLast ==
  ASSUME file \in Seq(Lines), LastOK, WriteLine \/ WriteHalf
  PROVE  /\ LastOK' /\ file' \in Seq(Lines) /\ UNCHANGED loadVars
         /\ NewLine \/ SameLine
         /\ half' => (half => part < part')
<1>1. file' \in Seq(Lines) /\ file' # <<>>
  BY DEF WriteLine, WriteHalf, NewLine, SameLine, LastOK
<1>2. CASE WriteLine
  BY <1>1, <1>2 DEF WriteLine, LastOK
<1>3. CASE WriteHalf
  <2>1. file'[Len(file')] \in Lines
    BY <1>1
  <2>2. Len(Cuts[file'[Len(file')]]) \in Nat
    BY <2>1, CutsAreParsed
  <2> QED BY <1>1, <1>3, <2>2 DEF WriteHalf, LastOK
<1> QED BY <1>2, <1>3

\* A thread that returns m from init_resolver
LEMMA ReturnsMapInv ==
  ASSUME MapInv, NEW c \in Threads, NEW m, m = NoMap \/ FromFile(m), Returns(c, m),
         UNCHANGED <<file, half, part>>
  PROVE  MapInv' /\ (resolver # NoMap => resolver' # NoMap)
<1>0. LastOK' = LastOK /\ \A x : FromFile(x)' = FromFile(x)
  BY DEF LastOK, FromFile, BeginsFile, Readings
<1> USE <1>0 DEF MapInv
<1>1. CASE initBy = c
  <2>1. lazy = "busy" /\ resolver = NoMap
    BY <1>1, NoMapIsNone
  <2>2. /\ resolver' = m /\ lazy' = "ready" /\ initBy' = NoMap
        /\ lpc' = [lpc EXCEPT ![c] = "deref"] /\ map' = map
    BY <1>1 DEF Returns, Goto
  <2> QED BY <1>1, <2>1, <2>2, NoMapIsNone
<1>2. CASE initBy # c
  <2>1. /\ map' = [map EXCEPT ![c] = m]
        /\ lpc' = [lpc EXCEPT ![c] = IF m = NoMap THEN "idle" ELSE "deref"]
        /\ UNCHANGED <<resolver, lazy, initBy>>
    BY <1>2 DEF Returns, Goto
  <2> QED BY <1>2, <2>1, NoMapIsNone
<1> QED BY <1>1, <1>2

LEMMA InitResolverMapInv ==
  ASSUME MapInv, NEW c \in Threads, InitResolver(c)
  PROVE  MapInv' /\ (resolver # NoMap => resolver' # NoMap)
<1> USE DEF Goto
<1>1. CASE Open(c)
  <2>1. CASE Returns(c, NoMap)
    BY <1>1, <2>1, ReturnsMapInv DEF Open, fileVars
  <2>2. CASE lpc' = [lpc EXCEPT ![c] = "metadata"] /\ UNCHANGED <<resolver, lazy, initBy, map>>
    BY <1>1, <2>2 DEF Open, fileVars, MapInv, LastOK, FromFile, BeginsFile, Readings
  <2> QED BY <1>1, <2>1, <2>2 DEF Open
<1>2. CASE Metadata(c)
  BY <1>2 DEF Metadata, fileVars, MapInv, LastOK, FromFile, BeginsFile, Readings
<1>3. CASE Compare(c)
  <2>1. CASE Returns(c, NoMap)
    BY <1>3, <2>1, ReturnsMapInv DEF Compare, fileVars
  <2>2. CASE lpc' = [lpc EXCEPT ![c] = "store_mtime"] /\ UNCHANGED <<resolver, lazy, initBy, map>>
    BY <1>3, <2>2 DEF Compare, fileVars, MapInv, LastOK, FromFile, BeginsFile, Readings
  <2> QED BY <1>3, <2>1, <2>2 DEF Compare
<1>4. CASE StoreMtime(c)
  BY <1>4 DEF StoreMtime, fileVars, MapInv, LastOK, FromFile, BeginsFile, Readings
<1>5. CASE Parse(c)
  BY <1>5, ReadBegins, ReturnsMapInv DEF Parse, fileVars
<1> QED BY <1>1, <1>2, <1>3, <1>4, <1>5 DEF InitResolver

LEMMA StepMapInv ==
  ASSUME MapInv, MapStep
  PROVE  MapInv' /\ (resolver # NoMap => resolver' # NoMap)
<1> USE DEF Goto
<1>1. CASE WriteLine \/ WriteHalf
  <2>1. /\ LastOK' /\ file' \in Seq(Lines) /\ UNCHANGED loadVars
        /\ NewLine \/ SameLine
        /\ half' => (half => part < part')
    BY <1>1, WriteLast DEF MapInv
  <2>2. \A m : FromFile(m) => FromFile(m)'
    BY <2>1, WriteBegins
  <2>3. UNCHANGED <<resolver, lazy, initBy, lpc, map>>
    BY <2>1 DEF loadVars
  <2>4. resolver' = NoMap \/ FromFile(resolver)'
    BY <2>2, <2>3 DEF MapInv, FromFile, BeginsFile
  <2>5. \A c \in Threads : map'[c] = NoMap \/ FromFile(map[c])'
    BY <2>2, <2>3 DEF MapInv, FromFile, BeginsFile
  <2> QED BY <2>1, <2>3, <2>4, <2>5 DEF MapInv
<1>2. CASE NextSecond
  BY <1>2 DEF NextSecond, fileVars, loadVars, MapInv, LastOK, FromFile, BeginsFile, Readings
<1>3. CASE \E c \in Threads : InitResolver(c)
  BY <1>3, InitResolverMapInv
<1>4. ASSUME NEW c \in Threads, Initialise(c)
      PROVE  MapInv' /\ (resolver # NoMap => resolver' # NoMap)
  BY <1>4, NoMapIsNone DEF Initialise, Touch, At, MapInv, LastOK, FromFile, BeginsFile, Readings
<1>5. ASSUME NEW d \in Loaders, StoreMap(d)
      PROVE  MapInv' /\ (resolver # NoMap => resolver' # NoMap)
  BY <1>5, NoMapIsNone DEF StoreMap, At, fileVars, MapInv, LastOK, FromFile, BeginsFile, Readings
<1>6. CASE GetResolver
  BY <1>6, NoMapIsNone DEF GetResolver, At, fileVars, MapInv, LastOK, FromFile, BeginsFile, Readings
<1>7. CASE LoadMap
  BY <1>7, NoMapIsNone DEF LoadMap, At, fileVars, MapInv, LastOK, FromFile, BeginsFile, Readings
<1> QED BY <1>1, <1>2, <1>3, <1>4, <1>5, <1>6, <1>7 DEF MapStep, Environment, LoaderStep

LEMMA StutterMapInv == MapInv /\ UNCHANGED perfMapVars => MapInv'
  BY DEF perfMapVars, fileVars, loadVars, MapInv, LastOK, FromFile, BeginsFile, Readings

LEMMA MapInvariant == MapSpec => []MapInv
BY InitMapInv, StepMapInv, StutterMapInv, PTL DEF MapSpec

\* Lookups use the first lines of the file in order, and none that the JIT has
\* not written; only the last may be cut.  For any number of loaders, however
\* writes fall between loads (PerfMap::new, init_resolver, get_resolver).
THEOREM MapFromFile == MapSpec => []ResolverFromFile
<1>1. MapInv => ResolverFromFile
  BY DEF MapInv, FromFile, ResolverFromFile
<1> QED BY <1>1, MapInvariant, PTL

\* A reload that finds the file missing, unchanged or unreadable takes no map
\* away (init_resolver returns None, get_resolver keeps what it has).
THEOREM MapKept == MapSpec => MapStays
<1>1. MapInv /\ [MapStep]_perfMapVars => [resolver # NoMap => resolver' # NoMap]_perfMapVars
  BY StepMapInv
<1> QED BY <1>1, MapInvariant, PTL DEF MapSpec, MapStays

-----------------------------------------------------------------------------
(* Types                                                                   *)

LEMMA InitMapType == PerfMapInit => PerfMapTypeOK
<1>1. <<>> \in Seq(Lines) /\ Len(<<>>) = 0
  OBVIOUS
<1> SUFFICES ASSUME PerfMapInit PROVE PerfMapTypeOK
  OBVIOUS
<1>2. now \in 1 .. MaxSecond /\ mtime \in 0 .. now /\ MTIME \in 0 .. now
  BY PerfMapAssumption DEF PerfMapInit
<1>3. lpc \in [Threads -> Lpcs] /\ seen \in [Threads -> 0 .. now]
  BY DEF PerfMapInit, Lpcs
<1>4. resolver \in Maps /\ map \in [Threads -> Maps]
  BY DEF PerfMapInit, Maps
<1>5. file \in Seq(Lines) /\ Len(file) <= MaxLines
  BY <1>1, PerfMapAssumption DEF PerfMapInit
<1>6. LastOK
  BY DEF PerfMapInit, LastOK
<1> QED BY <1>2, <1>3, <1>4, <1>5, <1>6 DEF PerfMapInit, PerfMapTypeOK

LEMMA LastStays == UNCHANGED <<file, half, part>> => LastOK' = LastOK
  BY DEF LastOK

\* init_resolver returns a map it may return.
LEMMA ReturnsType ==
  ASSUME PerfMapTypeOK, NEW c \in Threads, NEW m \in Maps, Returns(c, m)
  PROVE  /\ resolver' \in Maps /\ lazy' \in {"uninit", "busy", "ready"}
         /\ initBy' \in Threads \cup {NoMap} /\ (initBy' # NoMap <=> lazy' = "busy")
         /\ lpc' \in [Threads -> Lpcs] /\ map' \in [Threads -> Maps]
  BY DEF Returns, Goto, PerfMapTypeOK, Lpcs

LEMMA InitResolverType ==
  ASSUME PerfMapTypeOK, MapInv, NEW c \in Threads, InitResolver(c) PROVE PerfMapTypeOK'
<1> USE DEF PerfMapTypeOK, Goto
<1>1. NoMap \in Maps /\ PerfMapNew \in Maps
  BY ReadBegins DEF Maps, FromFile
<1>0. LastOK'
  BY LastStays DEF InitResolver, Open, Metadata, Compare, StoreMtime, Parse, fileVars
<1> USE <1>0
<1>2. CASE Open(c)
  <2>1. CASE Returns(c, NoMap)
    BY <1>1, <1>2, <2>1, ReturnsType DEF Open, fileVars
  <2>2. CASE Goto(c, "metadata") /\ UNCHANGED <<resolver, lazy, initBy, map>>
    BY <1>2, <2>2 DEF Open, fileVars, Lpcs
  <2> QED BY <1>2, <2>1, <2>2 DEF Open
<1>3. CASE Metadata(c)
  BY <1>3 DEF Metadata, fileVars, Lpcs
<1>4. CASE Compare(c)
  <2>1. CASE Returns(c, NoMap)
    BY <1>1, <1>4, <2>1, ReturnsType DEF Compare, fileVars
  <2>2. CASE Goto(c, "store_mtime") /\ UNCHANGED <<resolver, lazy, initBy, map>>
    BY <1>4, <2>2 DEF Compare, fileVars, Lpcs
  <2> QED BY <1>4, <2>1, <2>2 DEF Compare
<1>5. CASE StoreMtime(c)
  BY <1>5 DEF StoreMtime, fileVars, Lpcs
<1>6. CASE Parse(c)
  <2>1. PICK m \in Maps : Returns(c, m)
    BY <1>1, <1>6 DEF Parse
  <2> QED BY <1>6, <2>1, ReturnsType DEF Parse, fileVars
<1> QED BY <1>2, <1>3, <1>4, <1>5, <1>6 DEF InitResolver

LEMMA StepMapType ==
  ASSUME PerfMapTypeOK, MapInv, [MapStep]_perfMapVars PROVE PerfMapTypeOK'
<1> USE DEF PerfMapTypeOK
<1>1. CASE WriteLine \/ WriteHalf
  <2>1. LastOK' /\ file' \in Seq(Lines) /\ UNCHANGED loadVars /\ (NewLine \/ SameLine)
    BY <1>1, WriteLast
  <2>2. Len(file') <= MaxLines
    BY <2>1, PerfMapAssumption DEF NewLine, SameLine
  <2>3. Written /\ now' = now
    BY <1>1 DEF WriteLine, WriteHalf
  <2>4. exists' \in BOOLEAN /\ coarse' \in BOOLEAN /\ mtime' \in 0 .. now'
    BY <2>3, PerfMapAssumption DEF Written
  <2>5. UNCHANGED <<MTIME, resolver, lazy, initBy, lpc, seen, map, lapped>>
    BY <2>1 DEF loadVars
  <2> QED BY <2>1, <2>2, <2>3, <2>4, <2>5
<1>3. CASE NextSecond
  <2>1. LastOK'
    BY <1>3, LastStays DEF NextSecond, fileVars
  <2> QED BY <1>3, <2>1, PerfMapAssumption DEF NextSecond, fileVars, loadVars
<1>4. ASSUME NEW c \in Threads, Initialise(c) PROVE PerfMapTypeOK'
  <2>1. LastOK'
    BY <1>4, LastStays DEF Initialise, Touch
  <2>2. /\ exists' \in BOOLEAN /\ coarse' \in BOOLEAN /\ mtime' \in 0 .. now'
        /\ file' = file
    <3>1. now' = now /\ MTIME' = MTIME /\ now \in Nat /\ now >= 1
      BY <1>4, PerfMapAssumption DEF Initialise
    <3>2. file' = file
      BY <1>4 DEF Initialise, Touch
    <3>3. CASE Written
      BY <3>1, <3>2, <3>3 DEF Written
    <3>4. CASE UNCHANGED <<exists, mtime, coarse>>
      BY <3>1, <3>2, <3>4
    <3> QED BY <1>4, <3>3, <3>4 DEF Initialise, Touch
  <2> QED BY <1>4, <2>1, <2>2, NoMapIsNone DEF Initialise, Goto, Lpcs
<1>5. ASSUME NEW d \in Loaders, StoreMap(d) PROVE PerfMapTypeOK'
  <2>1. LastOK'
    BY <1>5, LastStays DEF StoreMap, fileVars
  <2> QED BY <1>5, <2>1, NoMapIsNone DEF StoreMap, Goto, fileVars, Lpcs, Maps
<1>6. CASE GetResolver
  <2>1. LastOK'
    BY <1>6, LastStays DEF GetResolver, fileVars
  <2> QED BY <1>6, <2>1, NoMapIsNone DEF GetResolver, fileVars, Lpcs
<1>7. CASE LoadMap
  <2>1. LastOK'
    BY <1>7, LastStays DEF LoadMap, fileVars
  <2> QED BY <1>7, <2>1, NoMapIsNone DEF LoadMap, Goto, fileVars, Lpcs
<1>8. CASE UNCHANGED perfMapVars
  <2>1. LastOK'
    BY <1>8, LastStays DEF perfMapVars, fileVars
  <2> QED BY <1>8, <2>1 DEF perfMapVars, fileVars, loadVars
<1> QED BY <1>1, <1>3, <1>4, <1>5, <1>6, <1>7, <1>8, InitResolverType
        DEF MapStep, Environment, LoaderStep

\* Every variable of the perf map has its type; in particular the Lazy is busy
\* exactly while some thread runs its initialiser.
THEOREM MapTypes == MapSpec => []PerfMapTypeOK
BY InitMapType, StepMapType, MapInvariant, PTL DEF MapSpec

-----------------------------------------------------------------------------
(* Staleness                                                               *)

InInit(c) == lpc[c] \in {"open", "metadata", "compare", "store_mtime", "parse"}

Pending == {c \in Threads : map[c] # NoMap}

\* At most one thread is between a modification time and its map.
Alone ==
  /\ \A c, d \in Loading : c = d
  /\ \A c, d \in Pending : c = d
  /\ Loading # {} => Pending = {}

\* The map of the file as it is now is in use or on its way there.
Current ==
  /\ \A d \in Pending : map[d] = file
  /\ \/ \E c \in Threads : lpc[c] = "parse"
     \/ \E d \in Loaders : map[d] = file
     \/ resolver = file

RaceInv ==
  /\ exists <=> mtime # 0
  /\ MTIME <= mtime /\ \A c \in Threads : seen[c] <= mtime
  /\ \A c \in Threads : initBy = c => InInit(c)
  /\ InInit(Reporter) => initBy = Reporter
  /\ \A c \in Pending : c \in Loaders /\ (lpc[c] = "deref" \/ initBy = c)
  /\ ~lapped => Alone
  /\ ~lapped /\ ~coarse /\ ~half /\ exists /\ MTIME = mtime => Current

MapsInv == PerfMapTypeOK /\ MapInv /\ RaceInv

LEMMA InitRaceInv == PerfMapInit => RaceInv
  BY NoMapIsNone DEF PerfMapInit, RaceInv, InInit, Pending, Alone, Loading

\* A write after which the modification time is the loaded one is in a second
\* already loaded.
LEMMA WriteRaceInv ==
  ASSUME MapsInv, Written, UNCHANGED loadVars, now' = now
  PROVE  RaceInv'
<1>1. mtime <= now /\ now \in Nat \ {0} /\ mtime \in Nat /\ MTIME \in Nat
      /\ \A c \in Threads : seen[c] \in Nat
  BY PerfMapAssumption DEF MapsInv, PerfMapTypeOK
<1>2. /\ exists' = TRUE /\ mtime' = now /\ (~coarse' => ~coarse /\ MTIME # now)
      /\ UNCHANGED <<MTIME, resolver, lazy, initBy, lpc, seen, map, lapped>>
  BY DEF Written, loadVars
<1>3. MTIME' <= mtime' /\ \A c \in Threads : seen'[c] <= mtime'
  BY <1>1, <1>2 DEF MapsInv, RaceInv
<1>4. ~coarse' => MTIME' # mtime'
  BY <1>2
<1> QED BY <1>1, <1>2, <1>3, <1>4 DEF MapsInv, RaceInv, InInit, Pending, Alone, Loading

\* init_resolver returns None, when it may.
LEMMA NoneRaceInv ==
  ASSUME MapsInv, NEW c \in Threads, Returns(c, NoMap),
         \/ lpc[c] = "open" /\ ~exists
         \/ lpc[c] = "compare"
         \/ lpc[c] = "parse" /\ half,
         UNCHANGED <<fileVars, MTIME, seen, lapped>>
  PROVE  RaceInv'
<1> USE DEF MapsInv, RaceInv
<1>1. InInit(c) /\ lpc[c] # "deref" /\ DOMAIN lpc = Threads /\ DOMAIN map = Threads
  BY DEF InInit, MapInv
<1>2. UNCHANGED <<exists, file, half, mtime, coarse, MTIME, seen, lapped>>
  BY DEF fileVars
<1>3. CASE initBy = c
  <2>1. /\ resolver' = NoMap /\ lazy' = "ready" /\ initBy' = NoMap /\ map' = map
        /\ lpc' = [lpc EXCEPT ![c] = "deref"]
    BY <1>3 DEF Returns, Goto
  <2>3. lazy = "busy" /\ resolver = NoMap
    BY <1>3, NoMapIsNone DEF MapInv
  <2>4. Loading' \subseteq Loading \ {c} /\ Pending' = Pending
    BY <1>1, <2>1 DEF Loading, Pending
  <2>5. ~lapped => Alone'
    BY <2>4 DEF Alone
  <2>6. ASSUME ~lapped, ~coarse, ~half, exists, MTIME = mtime PROVE Current'
    <3>1. c \in Loading
      BY <2>6 DEF Loading
    <3>2. Alone /\ Current
      BY <2>6
    <3>3. Pending = {} /\ \A d \in Threads : lpc[d] = "parse" => d = c
      BY <3>1, <3>2 DEF Alone, Loading
    <3>4. lpc[c] # "parse"
      BY <2>6
    <3>5. file # NoMap
      BY NoMapIsNone DEF MapInv
    <3>6. FALSE
      BY <2>3, <3>2, <3>3, <3>4, <3>5, NoMapIsNone DEF Current, Pending
    <3> QED BY <3>6
  <2>7. \A d \in Threads : initBy' # d
    BY <2>1, NoMapIsNone
  <2>8. ~InInit(Reporter)'
    BY <1>1, <1>3, <2>1, NoMapIsNone DEF InInit
  <2>9. \A d \in Pending' : d \in Loaders /\ lpc'[d] = "deref"
    BY <1>1, <1>3, <2>1, <2>4
  <2> QED BY <1>2, <2>1, <2>5, <2>6, <2>7, <2>8, <2>9
<1>4. CASE initBy # c
  <2>1. /\ map' = [map EXCEPT ![c] = NoMap] /\ lpc' = [lpc EXCEPT ![c] = "idle"]
        /\ UNCHANGED <<resolver, lazy, initBy>>
    BY <1>4 DEF Returns, Goto
  <2>2. c # Reporter /\ c \notin Pending
    BY <1>1, <1>4
  <2>3. map' = map
    BY <1>1, <2>1, <2>2 DEF Pending, PerfMapTypeOK
  <2>4. Loading' = Loading \ {c} /\ Pending' = Pending
    BY <1>1, <2>1, <2>3 DEF Loading, Pending
  <2>5. ~lapped => Alone'
    BY <2>4 DEF Alone
  <2>6. ASSUME ~lapped, ~coarse, ~half, exists, MTIME = mtime PROVE Current'
    <3>1. c \in Loading /\ lpc[c] # "parse"
      BY <2>6 DEF Loading
    <3>2. \A d \in Threads : d # c => lpc'[d] = lpc[d]
      BY <1>1, <2>1
    <3> QED BY <1>2, <2>1, <2>3, <2>4, <2>6, <3>1, <3>2 DEF Current
  <2>7. \A d \in Threads : InInit(d)' <=> InInit(d) /\ d # c
    BY <1>1, <2>1 DEF InInit
  <2>8. \A d \in Pending' : d \in Loaders /\ (lpc'[d] = "deref" \/ initBy' = d)
    BY <1>1, <2>1, <2>2, <2>4
  <2> QED BY <1>2, <1>4, <2>1, <2>2, <2>5, <2>6, <2>7, <2>8, NoMapIsNone
<1> QED BY <1>3, <1>4

\* init_resolver returns what it has read, which is the file unless a line is
\* unfinished.
LEMMA FileRaceInv ==
  ASSUME MapsInv, NEW c \in Threads, NEW m, m # NoMap, ~half => m = file,
         Returns(c, m), lpc[c] = "parse",
         UNCHANGED <<fileVars, MTIME, seen, lapped>>
  PROVE  RaceInv'
<1> USE DEF MapsInv, RaceInv
<1>1. /\ InInit(c) /\ lpc[c] # "deref" /\ DOMAIN lpc = Threads /\ DOMAIN map = Threads
      /\ c \in Loading
  BY NoMapIsNone DEF InInit, MapInv, Loading
<1>2. UNCHANGED <<exists, file, half, mtime, coarse, MTIME, seen, lapped>>
  BY DEF fileVars
<1>3. lpc' = [lpc EXCEPT ![c] = "deref"]
  BY <1>1 DEF Returns, Goto
<1>4. Loading' = Loading \ {c} /\ \A d \in Threads : InInit(d)' <=> InInit(d) /\ d # c
  BY <1>1, <1>3 DEF Loading, InInit
<1>5. ~lapped => Loading' = {} /\ Pending = {}
  BY <1>1, <1>4 DEF Alone
<1>6. CASE initBy = c
  <2>1. resolver' = m /\ lazy' = "ready" /\ initBy' = NoMap /\ map' = map
    BY <1>6 DEF Returns
  <2>3. Pending' = Pending
    BY <2>1 DEF Pending
  <2>4. ~lapped => Alone'
    BY <1>5, <2>3 DEF Alone
  <2>5. ~lapped /\ ~half => Current'
    BY <1>2, <1>5, <2>1, <2>3 DEF Current
  <2>6. \A d \in Threads : initBy' # d
    BY <2>1, NoMapIsNone
  <2>7. ~InInit(Reporter)'
    BY <1>4, <1>6, NoMapIsNone
  <2>8. \A d \in Pending' : d \in Loaders /\ lpc'[d] = "deref"
    BY <1>1, <1>3, <1>6, <2>3
  <2> QED BY <1>2, <2>1, <2>4, <2>5, <2>6, <2>7, <2>8
<1>7. CASE initBy # c
  <2>1. map' = [map EXCEPT ![c] = m] /\ UNCHANGED <<resolver, lazy, initBy>>
    BY <1>7 DEF Returns
  <2>2. c \in Loaders
    BY <1>1, <1>7, NoMapIsNone DEF Threads
  <2>3. Pending' = Pending \cup {c}
    BY <1>1, <2>1 DEF Pending
  <2>4. ~lapped => Alone'
    BY <1>5, <2>3 DEF Alone
  <2>5. ~lapped /\ ~half => Current'
    <3>1. ~lapped => Pending' = {c}
      BY <1>5, <2>3
    <3>2. ~half => map'[c] = file'
      BY <1>1, <1>2, <2>1
    <3> QED BY <2>2, <3>1, <3>2 DEF Current
  <2>6. \A d \in Pending' : d \in Loaders /\ (lpc'[d] = "deref" \/ initBy' = d)
    BY <1>1, <1>3, <2>1, <2>2, <2>3
  <2> QED BY <1>2, <1>4, <1>7, <2>1, <2>4, <2>5, <2>6, NoMapIsNone
<1> QED BY <1>6, <1>7

\* A thread that only moves on within init_resolver
LEMMA MovesOn ==
  ASSUME MapsInv, NEW c \in Threads, NEW p \in {"metadata", "compare", "store_mtime", "parse"},
         InInit(c), Goto(c, p), UNCHANGED <<fileVars, resolver, lazy, initBy, map>>
  PROVE  /\ \A d \in Threads : d # c => lpc'[d] = lpc[d]
         /\ lpc'[c] = p /\ Pending' = Pending
         /\ \A d \in Threads : InInit(d)' <=> InInit(d)
         /\ \A d \in Pending' : d \in Loaders /\ (lpc'[d] = "deref" \/ initBy' = d)
         /\ UNCHANGED <<exists, file, half, mtime, coarse>>
<1>1. DOMAIN lpc = Threads
  BY DEF MapsInv, MapInv
<1>2. lpc'[c] = p /\ \A d \in Threads : d # c => lpc'[d] = lpc[d]
  BY <1>1 DEF Goto
<1>3. Pending' = Pending /\ UNCHANGED <<exists, file, half, mtime, coarse>>
  BY DEF Pending, fileVars
<1>4. \A d \in Threads : InInit(d)' <=> InInit(d)
  BY <1>2 DEF InInit
<1>5. \A d \in Pending : d \in Loaders /\ (lpc'[d] = "deref" \/ initBy' = d)
  BY <1>2 DEF MapsInv, RaceInv, InInit, Pending
<1> QED BY <1>2, <1>3, <1>4, <1>5

LEMMA InitResolverRaceInv ==
  ASSUME MapsInv, NEW c \in Threads, InitResolver(c) PROVE RaceInv'
<1> USE DEF MapsInv, RaceInv, At
<1>0. Reporter \in Threads
  BY NoMapIsNone
<1>1. CASE Open(c)
  <2>1. CASE ~exists
    BY <1>1, <2>1, NoneRaceInv DEF Open
  <2>2. CASE exists
    <3>1. /\ InInit(c) /\ Goto(c, "metadata") /\ UNCHANGED <<fileVars, resolver, lazy, initBy, map>>
          /\ UNCHANGED <<MTIME, seen, lapped>> /\ lpc[c] = "open"
      BY <1>1, <2>2 DEF Open, InInit
    <3>2. /\ \A d \in Threads : d # c => lpc'[d] = lpc[d]
          /\ lpc'[c] = "metadata" /\ Pending' = Pending
          /\ \A d \in Threads : InInit(d)' <=> InInit(d)
          /\ \A d \in Pending' : d \in Loaders /\ (lpc'[d] = "deref" \/ initBy' = d)
          /\ UNCHANGED <<exists, file, half, mtime, coarse>>
      BY <3>1, MovesOn
    <3>3. Loading' = Loading
      BY <3>1, <3>2 DEF Loading
    <3>4. Current => Current'
      BY <3>1, <3>2 DEF Current
    <3>5. Alone => Alone'
      BY <3>2, <3>3 DEF Alone
    <3> QED BY <1>0, <3>1, <3>2, <3>4, <3>5
  <2> QED BY <2>1, <2>2
<1>2. CASE Metadata(c)
  <2>1. /\ InInit(c) /\ Goto(c, "compare") /\ UNCHANGED <<fileVars, resolver, lazy, initBy, map>>
        /\ seen' = [seen EXCEPT ![c] = mtime] /\ MTIME' = MTIME /\ lpc[c] = "metadata"
        /\ lapped' = (lapped \/ Loading # {} \/ \E d \in Loaders : map[d] # NoMap)
    BY <1>2 DEF Metadata, InInit
  <2>2. /\ \A d \in Threads : d # c => lpc'[d] = lpc[d]
        /\ lpc'[c] = "compare" /\ Pending' = Pending
        /\ \A d \in Threads : InInit(d)' <=> InInit(d)
        /\ \A d \in Pending' : d \in Loaders /\ (lpc'[d] = "deref" \/ initBy' = d)
        /\ UNCHANGED <<exists, file, half, mtime, coarse>>
    BY <2>1, MovesOn
  <2>3. \A d \in Threads : seen'[d] <= mtime'
    <3>1. mtime \in Nat /\ DOMAIN seen = Threads
      BY PerfMapAssumption DEF PerfMapTypeOK
    <3> QED BY <2>1, <2>2, <3>1
  <2>4. ~lapped' => ~lapped /\ Loading = {} /\ Pending = {}
    BY <2>1 DEF Pending
  <2>5. Loading' = Loading \cup {c}
    BY <2>1, <2>2 DEF Loading
  <2>6. ~lapped' => Alone'
    BY <2>2, <2>4, <2>5 DEF Alone
  <2>7. Current => Current'
    BY <2>1, <2>2 DEF Current
  <2> QED BY <1>0, <2>1, <2>2, <2>3, <2>4, <2>6, <2>7
<1>3. CASE Compare(c)
  <2>1. CASE MTIME = seen[c]
    BY <1>3, <2>1, NoneRaceInv DEF Compare
  <2>2. CASE MTIME # seen[c]
    <3>1. /\ InInit(c) /\ Goto(c, "store_mtime")
          /\ UNCHANGED <<fileVars, resolver, lazy, initBy, map>>
          /\ UNCHANGED <<MTIME, seen, lapped>> /\ lpc[c] = "compare"
      BY <1>3, <2>2 DEF Compare, InInit
    <3>2. /\ \A d \in Threads : d # c => lpc'[d] = lpc[d]
          /\ lpc'[c] = "store_mtime" /\ Pending' = Pending
          /\ \A d \in Threads : InInit(d)' <=> InInit(d)
          /\ \A d \in Pending' : d \in Loaders /\ (lpc'[d] = "deref" \/ initBy' = d)
          /\ UNCHANGED <<exists, file, half, mtime, coarse>>
      BY <3>1, MovesOn
    <3>3. Loading' = Loading
      BY <3>1, <3>2 DEF Loading
    <3>4. Current => Current'
      BY <3>1, <3>2 DEF Current
    <3>5. Alone => Alone'
      BY <3>2, <3>3 DEF Alone
    <3> QED BY <1>0, <3>1, <3>2, <3>4, <3>5
  <2> QED BY <2>1, <2>2
<1>4. CASE StoreMtime(c)
  <2>1. /\ InInit(c) /\ Goto(c, "parse") /\ UNCHANGED <<fileVars, resolver, lazy, initBy, map>>
        /\ UNCHANGED <<seen, lapped>> /\ MTIME' = seen[c] /\ lpc[c] = "store_mtime"
    BY <1>4 DEF StoreMtime, InInit
  <2>2. /\ \A d \in Threads : d # c => lpc'[d] = lpc[d]
        /\ lpc'[c] = "parse" /\ Pending' = Pending
        /\ \A d \in Threads : InInit(d)' <=> InInit(d)
        /\ \A d \in Pending' : d \in Loaders /\ (lpc'[d] = "deref" \/ initBy' = d)
        /\ UNCHANGED <<exists, file, half, mtime, coarse>>
    BY <2>1, MovesOn
  <2>3. Loading' = Loading /\ c \in Loading
    BY <2>1, <2>2 DEF Loading
  <2>4. Alone => Alone' /\ Pending' = {}
    BY <2>2, <2>3 DEF Alone
  <2>5. ~lapped => Current'
    BY <2>2, <2>4 DEF Current
  <2> QED BY <1>0, <2>1, <2>2, <2>4, <2>5
<1>5. CASE Parse(c)
  <2>1. CASE PerfMapNew = NoMap
    <3>1. half
      BY <2>1, NoMapIsNone DEF PerfMapNew, MapInv
    <3> QED BY <1>5, <2>1, <3>1, NoneRaceInv DEF Parse
  <2>2. CASE PerfMapNew # NoMap
    <3>1. ~half => PerfMapNew = file
      BY DEF PerfMapNew
    <3> QED BY <1>5, <2>2, <3>1, FileRaceInv DEF Parse
  <2> QED BY <2>1, <2>2
<1> QED BY <1>1, <1>2, <1>3, <1>4, <1>5 DEF InitResolver

\* A thread whose place in init_resolver, if it has one, is its first
LEMMA Elsewhere ==
  ASSUME MapsInv, NEW c \in Threads, UNCHANGED map,
         \A d \in Threads : lpc'[d] # lpc[d] => lpc[d] \in {"idle", "deref"}
                                                /\ lpc'[d] \in {"idle", "deref", "open"}
  PROVE  /\ Loading' = Loading /\ Pending' = Pending
         /\ \A d \in Threads : lpc'[d] = "parse" <=> lpc[d] = "parse"
  BY DEF Loading, Pending

LEMMA StepRaceInv == ASSUME MapsInv, [MapStep]_perfMapVars PROVE RaceInv'
<1>0. DOMAIN lpc = Threads /\ DOMAIN map = Threads
  BY DEF MapsInv, MapInv
<1>1. CASE WriteLine \/ WriteHalf
  BY <1>1, WriteRaceInv DEF WriteLine, WriteHalf
<1>2. CASE NextSecond \/ UNCHANGED perfMapVars
  <2>1. UNCHANGED <<fileVars, loadVars>>
    BY <1>2 DEF NextSecond, perfMapVars
  <2> QED BY <2>1 DEF fileVars, loadVars, MapsInv, RaceInv, InInit, Pending, Alone, Loading, Current
<1>3. CASE \E c \in Threads : InitResolver(c)
  BY <1>3, InitResolverRaceInv
<1>4. ASSUME NEW c \in Threads, Initialise(c) PROVE RaceInv'
  <2>1. /\ lpc[c] = "deref" /\ lazy = "uninit" /\ lazy' = "busy" /\ initBy' = c
        /\ lpc' = [lpc EXCEPT ![c] = "open"]
        /\ UNCHANGED <<file, half, MTIME, resolver, seen, map, lapped>>
        /\ \/ UNCHANGED <<exists, mtime, coarse>>
           \/ /\ ~exists /\ exists' = TRUE /\ mtime' = now
              /\ coarse' = (coarse \/ MTIME = now)
    BY <1>4 DEF Initialise, Touch, Written, At, Goto
  <2>2. /\ lpc'[c] = "open" /\ \A d \in Threads : d # c => lpc'[d] = lpc[d]
    BY <1>0, <2>1
  <2>3. Loading' = Loading /\ Pending' = Pending
        /\ \A d \in Threads : lpc'[d] = "parse" <=> lpc[d] = "parse"
    BY <2>1, <2>2, Elsewhere
  <2>4. mtime <= now /\ now \in Nat \ {0} /\ mtime \in Nat /\ MTIME \in Nat
        /\ \A d \in Threads : seen[d] \in Nat
    BY PerfMapAssumption DEF MapsInv, PerfMapTypeOK
  <2>5. (exists' <=> mtime' # 0) /\ mtime <= mtime' /\ mtime' \in Nat
    BY <2>1, <2>4 DEF MapsInv, RaceInv
  <2>6. MTIME' <= mtime' /\ \A d \in Threads : seen'[d] <= mtime'
    BY <2>1, <2>4, <2>5 DEF MapsInv, RaceInv
  <2>7. initBy = NoMap
    BY <2>1 DEF MapsInv, MapInv
  <2>8. ~InInit(Reporter) /\ \A d \in Pending : d \in Loaders /\ lpc[d] = "deref"
    BY <2>7, NoMapIsNone DEF MapsInv, RaceInv, Pending
  <2>9. InInit(c)' /\ (c # Reporter => ~InInit(Reporter)')
    BY <2>2, <2>8, NoMapIsNone DEF InInit
  <2>10. \A d \in Pending' : d \in Loaders /\ (lpc'[d] = "deref" \/ initBy' = d)
    BY <2>1, <2>2, <2>3, <2>8 DEF Pending
  <2>11. ~lapped => Alone'
    BY <2>3 DEF Alone, MapsInv, RaceInv
  <2>12. ASSUME ~lapped', ~coarse', ~half', exists', MTIME' = mtime' PROVE Current'
    <3>1. UNCHANGED <<exists, mtime, coarse>>
      BY <2>1, <2>12
    <3> QED BY <2>1, <2>3, <2>12, <3>1 DEF MapsInv, RaceInv, Current
  <2> QED BY <2>1, <2>5, <2>6, <2>9, <2>10, <2>11, <2>12 DEF RaceInv
<1>5. ASSUME NEW d \in Loaders, StoreMap(d) PROVE RaceInv'
  <2>1. /\ lpc[d] = "deref" /\ lazy = "ready" /\ resolver' = map[d]
        /\ map' = [map EXCEPT ![d] = NoMap] /\ lpc' = [lpc EXCEPT ![d] = "idle"]
        /\ UNCHANGED <<exists, file, half, mtime, coarse, MTIME, lazy, initBy, seen, lapped>>
    BY <1>5 DEF StoreMap, At, Goto, fileVars
  <2>2. d \in Threads /\ d # Reporter
    BY NoMapIsNone
  <2>3. lpc'[d] = "idle" /\ \A c \in Threads : c # d => lpc'[c] = lpc[c] /\ map'[c] = map[c]
    BY <1>0, <2>1, <2>2
  <2>4. Loading' = Loading /\ \A c \in Threads : InInit(c)' <=> InInit(c)
    BY <2>1, <2>2, <2>3 DEF Loading, InInit
  <2>5. d \in Pending /\ Pending' = Pending \ {d}
    BY <1>0, <2>1, <2>2, <2>3 DEF Pending, MapsInv, MapInv
  <2>6. ~lapped => Alone'
    BY <2>1, <2>4, <2>5 DEF Alone, MapsInv, RaceInv
  <2>7. Current => Current'
    BY <2>1, <2>3, <2>5 DEF Current, Pending
  <2>8. \A c \in Pending' : c \in Loaders /\ (lpc'[c] = "deref" \/ initBy' = c)
    BY <2>1, <2>3, <2>5 DEF MapsInv, RaceInv, Pending
  <2> QED BY <2>1, <2>2, <2>4, <2>6, <2>7, <2>8, NoMapIsNone DEF MapsInv, RaceInv
<1>6. CASE GetResolver
  <2>1. PICK d \in Loaders : lpc[d] = "idle"
                             /\ lpc' = [lpc EXCEPT ![d] = "open", ![Reporter] = "deref"]
    BY <1>6 DEF GetResolver, At
  <2>2. /\ lpc[Reporter] = "idle"
        /\ UNCHANGED <<exists, file, half, mtime, coarse, MTIME, resolver, lazy, initBy,
                       seen, map, lapped>>
    BY <1>6 DEF GetResolver, At, fileVars
  <2>3. /\ d # Reporter /\ lpc'[d] = "open" /\ lpc'[Reporter] = "deref"
        /\ \A c \in Threads : c # d /\ c # Reporter => lpc'[c] = lpc[c]
    BY <1>0, <2>1, NoMapIsNone
  <2>4. Loading' = Loading /\ Pending' = Pending
        /\ \A c \in Threads : lpc'[c] = "parse" <=> lpc[c] = "parse"
    BY <2>1, <2>2, <2>3, NoMapIsNone, Elsewhere
  <2>5. \A c \in Threads : initBy' = c => InInit(c)'
    BY <2>1, <2>2, <2>3, NoMapIsNone DEF MapsInv, RaceInv, InInit
  <2>6. ~InInit(Reporter)'
    BY <2>3 DEF InInit
  <2>7. \A c \in Pending' : c \in Loaders /\ (lpc'[c] = "deref" \/ initBy' = c)
    BY <2>1, <2>2, <2>3, <2>4, NoMapIsNone DEF MapsInv, RaceInv, InInit, Pending
  <2>8. (Alone => Alone') /\ (Current => Current')
    BY <2>2, <2>4 DEF Alone, Current
  <2> QED BY <2>2, <2>5, <2>6, <2>7, <2>8 DEF MapsInv, RaceInv
<1>7. CASE LoadMap
  <2>1. /\ lpc[Reporter] = "deref" /\ lpc' = [lpc EXCEPT ![Reporter] = "idle"]
        /\ UNCHANGED <<exists, file, half, mtime, coarse, MTIME, resolver, lazy, initBy,
                       seen, map, lapped>>
    BY <1>7 DEF LoadMap, At, Goto, fileVars
  <2>2. lpc'[Reporter] = "idle" /\ \A c \in Threads : c # Reporter => lpc'[c] = lpc[c]
    BY <1>0, <2>1, NoMapIsNone
  <2>3. Loading' = Loading /\ Pending' = Pending
        /\ \A c \in Threads : lpc'[c] = "parse" <=> lpc[c] = "parse"
    BY <2>1, <2>2, NoMapIsNone, Elsewhere
  <2>4. \A c \in Threads : InInit(c)' <=> InInit(c)
    BY <2>1, <2>2 DEF InInit
  <2>5. \A c \in Pending' : c \in Loaders /\ (lpc'[c] = "deref" \/ initBy' = c)
    BY <2>1, <2>2, <2>3, NoMapIsNone DEF MapsInv, RaceInv, Pending
  <2>6. (Alone => Alone') /\ (Current => Current')
    BY <2>1, <2>3 DEF Alone, Current
  <2> QED BY <2>1, <2>4, <2>5, <2>6, NoMapIsNone DEF MapsInv, RaceInv
<1> QED BY <1>1, <1>2, <1>3, <1>4, <1>5, <1>6, <1>7 DEF MapStep, Environment, LoaderStep

\* When no loader is at work and the modification time is the one last loaded,
\* the copy in use is the file as it is, unless two loaders overlapped or the
\* JIT wrote twice within a second (init_resolver compares whole seconds, and
\* stores MTIME and RESOLVER apart).
THEOREM MapFresh == MapSpec => []StaleOnlyIfRaced
<1>1. PerfMapInit => MapsInv
  BY InitMapType, InitMapInv, InitRaceInv DEF MapsInv
<1>2. MapsInv /\ [MapStep]_perfMapVars => MapsInv'
  BY StepMapType, StepMapInv, StutterMapInv, StepRaceInv DEF MapsInv
<1>3. MapsInv => StaleOnlyIfRaced
  <2> SUFFICES ASSUME MapsInv, exists, lazy = "ready", MTIME = mtime, ~half, ~lapped,
                      ~coarse,
                      \A c \in Threads : lpc[c] = "idle"
               PROVE  resolver = file
    BY DEF StaleOnlyIfRaced
  <2>1. Current
    BY DEF MapsInv, RaceInv
  <2>2. initBy = NoMap
    BY DEF MapsInv, MapInv
  <2>3. Pending = {}
    BY <2>2, NoMapIsNone DEF MapsInv, RaceInv, Pending
  <2>4. file # NoMap /\ \A d \in Loaders : d \in Threads
    BY NoMapIsNone DEF MapsInv, MapInv
  <2> QED BY <2>1, <2>3, <2>4 DEF Current, Pending
<1> QED BY <1>1, <1>2, <1>3, PTL DEF MapSpec
=============================================================================
