------------------------------ MODULE PerfMap -------------------------------
(***************************************************************************)
(* The symbols a JIT compiler writes to /tmp/perf-<pid>.map, and the copy  *)
(* of them that reports look up.  Every lookup starts a thread that loads  *)
(* the file again if its modification time has changed; the lookup itself  *)
(* takes the copy that is there.  The first one to need the copy makes it, *)
(* inside a Lazy.                                                          *)
(*                                                                         *)
(* The file only grows.  Its last line may be half written: it parses as   *)
(* soon as its start and a digit of its length are there, with the length  *)
(* or the name cut.  Modification times count whole seconds, as the code   *)
(* does.                                                                   *)
(***************************************************************************)
EXTENDS Integers, Sequences

CONSTANTS Loaders,     \* bound: the loader threads that can be alive at once
          Reporter,    \* the thread that builds reports
          Lines,       \* what the JIT may write: [start, end, name]
          Cuts,        \* what the beginnings of each line that parse read as
          MaxLines,    \* bound: the lines of the file
          MaxSecond,   \* bound: the clock
          NoMap        \* the resolver is None

CutsOf(e) == {Cuts[e][n] : n \in DOMAIN Cuts[e]}

\* The entries that PerfMap::new may make of the file
Parsed == Lines \cup UNION {CutsOf(e) : e \in Lines}

\* There is no name before the length is complete.
IsCut(c, e) ==
  c.start = e.start /\ c.end <= e.end /\ (c.end < e.end => c.name = <<>>)

ASSUME PerfMapAssumption ==
  /\ Reporter \notin Loaders
  /\ MaxLines \in Nat /\ MaxSecond \in Nat \ {0}
  /\ Cuts \in [Lines -> Seq(Parsed)]
  /\ \A e \in Lines : \A c \in CutsOf(e) : IsCut(c, e)
  /\ NoMap \notin Seq(Parsed) /\ NoMap \notin Loaders \cup {Reporter}

VARIABLES exists, file, mtime,   \* the file, and the line being written:
          half, part, \*   the last one is unfinished; what there is of it
                      \*   reads as Cuts[..][part], or does not parse if 0
          now,        \* the second of the wall clock
          MTIME,      \* the modification time that was last loaded
          resolver,   \* RESOLVER
          lazy,       \* the Lazy around it: "uninit", "busy", "ready"
          initBy,     \* the thread that runs its initialiser, or NoMap
          lpc, seen, map,   \* of each thread in init_resolver
          lapped,     \* history: two threads have loaded at a time
          coarse      \* history: a write fell in a second already loaded

fileVars   == <<exists, file, half, part, mtime, coarse>>
loadVars   == <<MTIME, resolver, lazy, initBy, lpc, seen, map, lapped>>
perfMapVars == <<fileVars, now, loadVars>>

Threads == Loaders \cup {Reporter}
Maps == {NoMap} \cup Seq(Parsed)
Lpcs == {"idle", "open", "metadata", "compare", "store_mtime", "parse",
         "deref", "store_map"}

\* The last line has that many beginnings.
LastOK ==
  /\ half \in BOOLEAN /\ part \in Nat
  /\ half => file # <<>> /\ part <= Len(Cuts[file[Len(file)]])
  /\ ~half => part = 0

PerfMapTypeOK ==
  /\ exists \in BOOLEAN /\ LastOK
  /\ file \in Seq(Lines) /\ Len(file) <= MaxLines
  /\ now \in 1 .. MaxSecond /\ mtime \in 0 .. now /\ MTIME \in 0 .. now
  /\ resolver \in Maps /\ lazy \in {"uninit", "busy", "ready"}
  /\ initBy \in Threads \cup {NoMap} /\ (initBy # NoMap <=> lazy = "busy")
  /\ lpc \in [Threads -> Lpcs]
  /\ seen \in [Threads -> 0 .. now] /\ map \in [Threads -> Maps]
  /\ lapped \in BOOLEAN /\ coarse \in BOOLEAN

PerfMapInit ==
  /\ exists = FALSE /\ file = <<>> /\ half = FALSE /\ part = 0
  /\ mtime = 0 /\ now = 1
  /\ MTIME = 0 /\ resolver = NoMap /\ lazy = "uninit" /\ initBy = NoMap
  /\ lpc = [c \in Threads |-> "idle"]
  /\ seen = [c \in Threads |-> 0] /\ map = [c \in Threads |-> NoMap]
  /\ lapped = FALSE /\ coarse = FALSE

-----------------------------------------------------------------------------
(* The JIT and the clock                                                   *)

Written ==
  /\ exists' = TRUE
  /\ mtime' = now
  /\ coarse' = (coarse \/ MTIME = now)

NewLine ==
  ~half /\ Len(file) < MaxLines /\ \E e \in Lines : file' = Append(file, e)

SameLine == half /\ UNCHANGED file

\* A whole line, or the rest of one that was begun
WriteLine ==
  /\ NewLine \/ SameLine
  /\ half' = FALSE /\ part' = 0
  /\ Written
  /\ UNCHANGED <<now, loadVars>>

\* The beginning of a line, or more of it
WriteHalf ==
  /\ NewLine \/ SameLine
  /\ half' = TRUE
  /\ \E n \in 0 .. Len(Cuts[file'[Len(file')]]) : part' = n /\ (half => part < n)
  /\ Written
  /\ UNCHANGED <<now, loadVars>>

NextSecond ==
  /\ now < MaxSecond
  /\ now' = now + 1
  /\ UNCHANGED <<fileVars, loadVars>>

-----------------------------------------------------------------------------
(* init_resolver, by a loader or by the initialiser of the Lazy            *)

At(c, p) == lpc[c] = p
Goto(c, p) == lpc' = [lpc EXCEPT ![c] = p]

\* The threads that have looked at the modification time and not yet finished
Loading == {c \in Threads : lpc[c] \in {"compare", "store_mtime", "parse"}}

\* init_resolver returns m.  The Lazy takes it as it is; a loader keeps the old
\* copy when it is None.
LoaderKeepsNone(c, m) ==
  IF initBy = c
    THEN /\ resolver' = m /\ lazy' = "ready" /\ initBy' = NoMap
         /\ Goto(c, "deref")
         /\ UNCHANGED map
    ELSE /\ map' = [map EXCEPT ![c] = m]
         /\ Goto(c, "deref")
         /\ UNCHANGED <<resolver, lazy, initBy>>

Returns(c, m) ==
  IF initBy = c
    THEN /\ resolver' = m /\ lazy' = "ready" /\ initBy' = NoMap
         /\ Goto(c, "deref")
         /\ UNCHANGED map
    ELSE /\ map' = [map EXCEPT ![c] = m]
         /\ Goto(c, IF m = NoMap THEN "idle" ELSE "deref")
         /\ UNCHANGED <<resolver, lazy, initBy>>

Open(c) ==
  /\ At(c, "open")
  /\ IF exists
       THEN Goto(c, "metadata") /\ UNCHANGED <<resolver, lazy, initBy, map>>
       ELSE Returns(c, NoMap)
  /\ UNCHANGED <<fileVars, now, MTIME, seen, lapped>>

Metadata(c) ==
  /\ At(c, "metadata")
  /\ seen' = [seen EXCEPT ![c] = mtime]
  /\ Goto(c, "compare")
  /\ lapped' = (lapped \/ Loading # {} \/ \E d \in Loaders : map[d] # NoMap)
  /\ UNCHANGED <<fileVars, now, MTIME, resolver, lazy, initBy, map>>

Compare(c) ==
  /\ At(c, "compare")
  /\ IF MTIME = seen[c]
       THEN Returns(c, NoMap)
       ELSE Goto(c, "store_mtime") /\ UNCHANGED <<resolver, lazy, initBy, map>>
  /\ UNCHANGED <<fileVars, now, MTIME, seen, lapped>>

StoreMtime(c) ==
  /\ At(c, "store_mtime")
  /\ MTIME' = seen[c]
  /\ Goto(c, "parse")
  /\ UNCHANGED <<fileVars, now, resolver, lazy, initBy, seen, map, lapped>>

\* PerfMap::new reads to the end of the file; a line that does not parse makes
\* it None.
PerfMapNew ==
  IF ~half THEN file
  ELSE IF part = 0 THEN NoMap
  ELSE [file EXCEPT ![Len(file)] = Cuts[file[Len(file)]][part]]

\* Mutant: the lines that are there already are not read again.
ParseOn(c) ==
  /\ At(c, "parse")
  /\ Returns(c, IF resolver = NoMap \/ PerfMapNew = NoMap THEN PerfMapNew
                ELSE resolver \o SubSeq(PerfMapNew, Len(resolver) + 1, Len(PerfMapNew)))
  /\ UNCHANGED <<fileVars, now, MTIME, seen, lapped>>

\* MTIME has been stored already when this fails.
Parse(c) ==
  /\ At(c, "parse")
  /\ Returns(c, PerfMapNew)
  /\ UNCHANGED <<fileVars, now, MTIME, seen, lapped>>

InitResolver(c) ==
  Open(c) \/ Metadata(c) \/ Compare(c) \/ StoreMtime(c) \/ Parse(c)

-----------------------------------------------------------------------------
(* get_resolver                                                            *)

\* A loader is spawned, then the reporter goes for RESOLVER.
GetResolver ==
  /\ At(Reporter, "idle")
  /\ \E d \in Loaders :
       At(d, "idle") /\ lpc' = [lpc EXCEPT ![d] = "open", ![Reporter] = "deref"]
  /\ UNCHANGED <<fileVars, now, MTIME, resolver, lazy, initBy, seen, map, lapped>>

\* touch, which makes the file if it is not there; nobody looks at its error.
Touch ==
  /\ \/ exists /\ UNCHANGED <<exists, mtime, coarse>>
     \/ ~exists /\ Written
     \/ ~exists /\ UNCHANGED <<exists, mtime, coarse>>
  /\ UNCHANGED <<file, half, part>>

\* Mutant: the Lazy does not tell that its initialiser is running.
InitialiseTwice(c) ==
  /\ At(c, "deref") /\ lazy = "uninit"
  /\ initBy' = c /\ UNCHANGED lazy
  /\ Touch
  /\ Goto(c, "open")
  /\ UNCHANGED <<now, MTIME, resolver, seen, map, lapped>>

\* Whoever uses RESOLVER first runs the initialiser, which touches the file.
Initialise(c) ==
  /\ At(c, "deref") /\ lazy = "uninit"
  /\ lazy' = "busy" /\ initBy' = c
  /\ Touch
  /\ Goto(c, "open")
  /\ UNCHANGED <<now, MTIME, resolver, seen, map, lapped>>

\* Mutant: a map that is there already stays.
StoreMapOnce(d) ==
  /\ At(d, "deref") /\ lazy = "ready"
  /\ resolver' = IF resolver = NoMap THEN map[d] ELSE resolver
  /\ map' = [map EXCEPT ![d] = NoMap]
  /\ Goto(d, "idle")
  /\ UNCHANGED <<fileVars, now, MTIME, lazy, initBy, seen, lapped>>

\* RESOLVER.store, at the end of a loader
StoreMap(d) ==
  /\ At(d, "deref") /\ lazy = "ready"
  /\ resolver' = map[d]
  /\ map' = [map EXCEPT ![d] = NoMap]
  /\ Goto(d, "idle")
  /\ UNCHANGED <<fileVars, now, MTIME, lazy, initBy, seen, lapped>>

\* RESOLVER.load, at the end of get_resolver: what the lookup then uses is
\* `resolver`.
LoadMap ==
  /\ At(Reporter, "deref") /\ lazy = "ready"
  /\ Goto(Reporter, "idle")
  /\ UNCHANGED <<fileVars, now, MTIME, resolver, lazy, initBy, seen, map, lapped>>

\* PerfMap::find: the first entry of the map that covers the address
Covers(e, a) == e.start <= a /\ a < e.end
Found(m, a) == m # NoMap /\ \E i \in DOMAIN m : Covers(m[i], a)
Find(m, a) == m[CHOOSE i \in DOMAIN m :
                  Covers(m[i], a) /\ \A k \in 1 .. i - 1 : ~Covers(m[k], a)].name

Environment == WriteLine \/ WriteHalf \/ NextSecond

LoaderStep ==
  \/ \E c \in Threads : InitResolver(c) \/ Initialise(c)
  \/ \E d \in Loaders : StoreMap(d)

-----------------------------------------------------------------------------
(* Properties                                                              *)

\* What line i of the file has parsed as since it was begun
Readings(i) ==
  IF half /\ i = Len(file) THEN {Cuts[file[i]][n] : n \in 1 .. part}
                           ELSE {file[i]} \cup CutsOf(file[i])

\* m has the file's lines from the first on, each whole but for the last, which
\* may be a beginning of the line that is there.
BeginsFile(m) ==
  /\ Len(m) <= Len(file)
  /\ \A i \in DOMAIN m : IF i < Len(m) THEN m[i] = file[i] ELSE m[i] \in Readings(i)

\* However the JIT's writes fall between the loads, lookups use the lines of the
\* file in order, none missing or twice, and nothing the JIT has not written.
\* An entry that is cut is the last one, so that a reload replaces it.
ResolverFromFile == resolver # NoMap => BeginsFile(resolver)

\* Once no loader is at work and the modification time is the loaded one, the
\* copy is the file, unless two loaders overlapped (the older may have stored
\* last) or the JIT wrote twice within a second: nothing else makes it stale.
StaleOnlyIfRaced ==
  /\ exists /\ lazy = "ready" /\ MTIME = mtime /\ ~half
  /\ \A c \in Threads : lpc[c] = "idle"
  /\ ~lapped /\ ~coarse
  => resolver = file

\* Lookups never lose the map they had because of a reload that fails.
MapStays == [][resolver # NoMap => resolver' # NoMap]_perfMapVars
=============================================================================
