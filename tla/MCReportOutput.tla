--------------------------- MODULE MCReportOutput ---------------------------
(***************************************************************************)
(* A few backtraces: through the handler (3) and the frame the kernel made *)
(* (4), of code without debug information that a JIT may describe (1), of  *)
(* two functions inlined into each other (2, 5) and of another function    *)
(* with one of their demangled names (6).                                  *)
(***************************************************************************)
EXTENDS ReportOutput, TLC

Sym(n, f, l) == [name |-> n, filename |-> f, lineno |-> l]

Handler == <<"perf_signal_handler">>
ManyF == <<"_f1">>
OtherF == <<"_f2">>
PlainG == <<"g">>
Jitted == <<"jit">>
JitCut == <<"ji">>

MCRawNames == {Handler, ManyF, OtherF, PlainG, Jitted, JitCut, <<>>}
MCDemangle == [n \in MCRawNames |-> IF n \in {ManyF, OtherF} THEN <<"f">> ELSE n]
MCFiles == {<<"Unknown">>, <<"a", ".rs">>, <<>>}
MCLineNumbers == {0, 7, 8}

Line(s, e, n) == [start |-> s, end |-> e, name |-> n]

\* The one may be cut in its name, the other in its length.
MCLines == {Line(1, 2, Jitted), Line(0, 2, PlainG)}
MCCuts == [e \in MCLines |->
             IF e.name = Jitted THEN <<Line(1, 2, JitCut)>>
                                ELSE <<Line(0, 1, <<>>)>>]

MCIps == 1 .. 6
MCDebugInfo ==
  << <<>>,
     <<Sym(ManyF, <<"a", ".rs">>, 7), Sym(PlainG, <<>>, 7)>>,
     <<Sym(Handler, <<"Unknown">>, 0)>>,
     <<Sym(PlainG, <<"Unknown">>, 0)>>,
     <<Sym(ManyF, <<"a", ".rs">>, 8), Sym(PlainG, <<>>, 7)>>,
     <<Sym(OtherF, <<>>, 8)>> >>

MCThreadIds == {1, 7, 10, 12, 17}
MCOsName == [id \in MCThreadIds |-> IF id = 7 THEN <<"worker">> ELSE NoName]
MCThreadNames == {<<"worker">>, <<"PROCESSED">>} \cup {FallbackName(id) : id \in MCThreadIds}
MCRename == [n \in MCThreadNames |-> IF n = <<"worker">> THEN <<"PROCESSED">> ELSE n]

E(bt, id, n) ==
  [frames |-> bt, thread_id |-> id, sample_timestamp |-> 1, count |-> n]

MCEntries == {{E(<<3, 4, 1>>, 12, 2), E(<<>>, 17, 1)},
              {E(<<2>>, 10, 2), E(<<5>>, 10, 1), E(<<6>>, 1, 3)},
              {E(<<1, 2, 1>>, 7, 1)}}

\* The instance meets the conditions of EntriesShown and LabelsDiffer.
ASSUME HandlerApart /\ IdsFit

MCSymmetry == Permutations(Loaders)

\* Some address of the report is in the range of a line that the JIT may write.
\* For the other reports it writes nothing, since they would show no difference.
Jitting == \E e \in source : \E i \in DOMAIN e.frames :
             \E l \in Lines : Covers(l, e.frames[i])

\* The encoding does not read the perf map, so nothing else moves from its
\* first step on.  It is taken when the perf map has come to its end.
Settled ==
  /\ now = MaxSecond /\ MTIME = mtime
  /\ Jitting => Len(file) = MaxLines /\ ~half
  /\ \A d \in Loaders : lpc[d] = "idle"

MCNext ==
  \/ Build
  \/ (stage = "built" => Settled) /\ Encode
  \/ /\ stage \in {"entries", "lookup", "resolve"}
     /\ Others
     /\ ~Jitting => UNCHANGED <<file, half, part>>

MCSpec == OutputInit /\ [][MCNext]_outputVars
=============================================================================
