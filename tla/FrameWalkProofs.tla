--------------------------- MODULE FrameWalkProofs ---------------------------
(***************************************************************************)
(* What a walk records: of a stack in order, every frame up to the depth   *)
(* limit or the first blocklisted one.                                     *)
(*                                                                         *)
(* The invariant is that of a loop: what is recorded, followed by what the *)
(* frames from fp on would add, is the whole of the callers, and           *)
(* CallersFromIs is the equation that one more frame keeps.  The walk ends *)
(* early only when validate refuses a frame.  It never refuses one whose   *)
(* memory is there, once the pipe is open (VInv), and while it is not, no  *)
(* other thread is in validate to open it behind the walk's back.          *)
(***************************************************************************)
EXTENDS AddrValidateProofs, SequenceTheorems, DataLemmas

-----------------------------------------------------------------------------
(* The return addresses above a frame                                      *)

\* What comes after a frame whose saved pointer is q
RestOf(m, q) == IF q \in DOMAIN m THEN CallersFrom(m)[q] ELSE <<>>

\* The equation of CallersFrom, for one frame
Equation(m, g, p) ==
  g[p] = <<Word(m, p + 1)>> \o (IF m[p] \in (p + 1) .. Len(m) THEN g[m[p]] ELSE <<>>)

LEMMA WordIs == ASSUME NEW m \in Seq(Nat), NEW a PROVE Word(m, a) \in Nat
  BY DEF Word, Null

\* There are return addresses above each frame: those of the highest first.
LEMMA CallersFromExist ==
  ASSUME NEW m \in Seq(Nat)
  PROVE  \E g \in [DOMAIN m -> Seq(Nat)] : \A p \in DOMAIN m : Equation(m, g, p)
<1> DEFINE N == Len(m)
           F == [DOMAIN m -> Seq(Nat)]
           T == {k \in Nat : \E g \in F : \A p \in DOMAIN m : p > N - k => Equation(m, g, p)}
<1>0. N \in Nat /\ DOMAIN m = 1 .. N /\ N = Len(m)
  OBVIOUS
<1> HIDE DEF N
<1>1. 0 \in T
  <2>1. [p \in DOMAIN m |-> <<>>] \in F
    OBVIOUS
  <2>2. \A p \in DOMAIN m : ~(p > N - 0)
    BY <1>0
  <2> QED BY <2>1, <2>2
<1>2. ASSUME NEW k \in Nat, k \in T PROVE k + 1 \in T
  <2>1. PICK g \in F : \A p \in DOMAIN m : p > N - k => Equation(m, g, p)
    BY <1>2
  <2>2. CASE N - k \notin DOMAIN m
    <3>1. \A p \in DOMAIN m : p > N - (k + 1) => p > N - k
      BY <1>0, <2>2
    <3> QED BY <2>1, <3>1
  <2>3. CASE N - k \in DOMAIN m
    <3> DEFINE r == N - k
               v == <<Word(m, r + 1)>> \o (IF m[r] \in (r + 1) .. N THEN g[m[r]] ELSE <<>>)
               h == [g EXCEPT ![r] = v]
    <3>1. v \in Seq(Nat)
      <4>1. <<Word(m, r + 1)>> \in Seq(Nat)
        BY WordIs
      <4>2. (IF m[r] \in (r + 1) .. N THEN g[m[r]] ELSE <<>>) \in Seq(Nat)
        BY <1>0, <2>3
      <4> QED BY <4>1, <4>2, ConcatProperties
    <3> HIDE DEF v
    <3>2. h \in F
      BY <3>1
    <3>3. \A p \in DOMAIN m : p # r => h[p] = g[p]
      OBVIOUS
    <3>4. h[r] = v
      BY <2>3
    <3>5. ASSUME NEW p \in DOMAIN m, p > N - (k + 1) PROVE Equation(m, h, p)
      <4>1. \A q \in (p + 1) .. N : q \in DOMAIN m /\ q # r
        <5>1. p \in 1 .. N /\ p >= r /\ r \in Int
          BY <1>0, <3>5
        <5> HIDE DEF r
        <5> QED BY <1>0, <5>1
      <4>2. m[p] \in (p + 1) .. N => h[m[p]] = g[m[p]]
        BY <3>3, <4>1
      <4>3. CASE p = r
        BY <1>0, <3>4, <4>2, <4>3 DEF Equation, v
      <4>4. CASE p # r
        <5>1. p > N - k
          BY <1>0, <3>5, <4>4
        <5> QED BY <1>0, <2>1, <3>3, <4>2, <4>4, <5>1 DEF Equation
      <4> QED BY <4>3, <4>4
    <3>6. \E f \in F : \A p \in DOMAIN m : p > N - (k + 1) => Equation(m, f, p)
      <4> HIDE DEF h, F
      <4> QED BY <3>2, <3>5
    <3>7. k + 1 \in Nat
      OBVIOUS
    <3> QED BY <3>6, <3>7
  <2> QED BY <2>2, <2>3
<1>3. N \in T
  <2> HIDE DEF T
  <2> QED BY <1>0, <1>1, <1>2, Induction
<1>4. PICK g \in F : \A p \in DOMAIN m : p > N - N => Equation(m, g, p)
  BY <1>3
<1> QED BY <1>0, <1>4

\* CallersFrom is what its equation says.
LEMMA CallersFromIs ==
  ASSUME NEW m \in Seq(Nat), NEW p \in DOMAIN m
  PROVE  CallersFrom(m)[p] \in Seq(Nat) /\ Equation(m, CallersFrom(m), p)
<1> DEFINE N == Len(m)
           Rhs(f) == [q \in DOMAIN m |->
              <<Word(m, q + 1)>> \o (IF m[q] \in (q + 1) .. N THEN f[m[q]] ELSE <<>>)]
<1>0. N \in Nat /\ DOMAIN m = 1 .. N /\ N = Len(m)
  OBVIOUS
<1> HIDE DEF N
<1>1. \E g : g = Rhs(g)
  <2>1. PICK g \in [DOMAIN m -> Seq(Nat)] : \A q \in DOMAIN m : Equation(m, g, q)
    BY CallersFromExist
  <2>2. g = Rhs(g)
    BY <1>0, <2>1 DEF Equation
  <2> QED BY <2>2
<1>2. CallersFrom(m) = Rhs(CallersFrom(m))
  BY <1>0, <1>1, ZenonT(30) DEF CallersFrom
<1> HIDE DEF Rhs
<1>3. \A q \in DOMAIN m : Equation(m, CallersFrom(m), q)
  BY <1>0, <1>2 DEF Rhs, Equation
<1>4. \A q \in DOMAIN m : CallersFrom(m)[q] \in Seq(Nat)
  <2> DEFINE Bad == {k \in Nat : \E q \in DOMAIN m : k = N - q /\ CallersFrom(m)[q] \notin Seq(Nat)}
  <2>0. ASSUME NEW q \in DOMAIN m, CallersFrom(m)[q] \notin Seq(Nat) PROVE N - q \in Bad
    <3>1. N - q \in Nat
      BY <1>0
    <3> QED BY <2>0, <3>1
  <2> SUFFICES ASSUME Bad # {} PROVE FALSE
    BY <2>0
  <2>1. PICK k \in Bad : \A j \in Bad : k <= j
    <3>1. Bad \subseteq Nat
      OBVIOUS
    <3> HIDE DEF Bad
    <3> QED BY <3>1, Least
  <2>2. PICK q \in DOMAIN m : k = N - q /\ CallersFrom(m)[q] \notin Seq(Nat)
    BY <2>1
  <2>3. \A r \in (q + 1) .. N : CallersFrom(m)[r] \in Seq(Nat)
    <3> SUFFICES ASSUME NEW r \in (q + 1) .. N, CallersFrom(m)[r] \notin Seq(Nat) PROVE FALSE
      OBVIOUS
    <3>1. r \in DOMAIN m /\ r \in Int /\ N - r < N - q
      <4>1. q \in 1 .. N
        BY <1>0
      <4>2. r \in 1 .. N /\ r > q /\ N - r < N - q
        BY <1>0, <4>1, SMTT(30)
      <4> QED BY <1>0, <4>2
    <3>2. N - r \in Bad
      BY <2>0, <3>1
    <3>3. k <= N - r /\ k = N - q
      BY <2>1, <2>2, <3>2
    <3> QED BY <1>0, <3>1, <3>3
  <2>4. <<Word(m, q + 1)>> \in Seq(Nat)
    BY WordIs
  <2>5. (IF m[q] \in (q + 1) .. N THEN CallersFrom(m)[m[q]] ELSE <<>>) \in Seq(Nat)
    <3>1. <<>> \in Seq(Nat)
      OBVIOUS
    <3> QED BY <2>3, <3>1, Zenon
  <2>6. Equation(m, CallersFrom(m), q)
    BY <1>3
  <2>7. CallersFrom(m)[q] \in Seq(Nat)
    BY <1>0, <2>4, <2>5, <2>6, ConcatProperties DEF Equation
  <2> QED BY <2>2, <2>7
<1> QED BY <1>3, <1>4

\* A frame of a stack in order adds its return address to those of the next.
LEMMA OneFrame ==
  ASSUME NEW m \in Seq(Nat), NEW p, InOrder(m, p)
  PROVE  /\ p \in DOMAIN m /\ p + 1 \in DOMAIN m /\ p # Null /\ m[p] \in Nat
         /\ m[p] = Null \/ (p < m[p] /\ InOrder(m, m[p]))
         /\ CallersFrom(m)[p] = <<m[p + 1]>> \o RestOf(m, m[p])
         /\ RestOf(m, m[p]) \in Seq(Nat)
<1>1. PICK S \in SUBSET DOMAIN m :
        /\ p \in S
        /\ \A q \in S : q + 1 \in DOMAIN m /\ (m[q] = Null \/ (q < m[q] /\ m[q] \in S))
  BY DEF InOrder
<1>2. /\ p \in DOMAIN m /\ p + 1 \in DOMAIN m
      /\ p # Null /\ m[p] \in Nat /\ Null \notin DOMAIN m
  BY <1>1 DEF Null
<1>3. m[p] = Null \/ (p < m[p] /\ InOrder(m, m[p]))
  BY <1>1 DEF InOrder
<1>4. m[p] # Null => m[p] \in DOMAIN m /\ m[p] \in (p + 1) .. Len(m)
  BY <1>1, <1>2
<1>5. m[p] = Null => m[p] \notin (p + 1) .. Len(m)
  BY <1>2 DEF Null
<1>6. RestOf(m, m[p]) = IF m[p] \in (p + 1) .. Len(m) THEN CallersFrom(m)[m[p]] ELSE <<>>
  BY <1>2, <1>4, <1>5 DEF RestOf
<1>7. Equation(m, CallersFrom(m), p) /\ Word(m, p + 1) = m[p + 1]
  BY <1>2, CallersFromIs DEF Word
<1>8. RestOf(m, m[p]) \in Seq(Nat)
  BY CallersFromIs DEF RestOf
<1> QED BY <1>2, <1>3, <1>6, <1>7, <1>8 DEF Equation

-----------------------------------------------------------------------------
(* Types                                                                   *)

TypeInv == HandlerTypeOK /\ mapped \subseteq Readable

LEMMA MappedShrinks == ASSUME [WalkNext]_vars PROVE mapped' \subseteq mapped
<1>1. AnyStep \/ UNCHANGED validateVars
  BY WalkStepsValidate
<1>2. ASSUME NEW c \in Contexts, ValidateStep(c) PROVE mapped' = mapped
  BY <1>2 DEF ValidateStep, Load, ReadPipe, ClosePipe, CreatePipe, StoreRead, StoreWrite, WritePipe
<1> QED BY <1>1, <1>2 DEF AnyStep, Return, Begin, AppOpen, AppClose, Unmap, validateVars

LEMMA InitTypeInv == WalkInit => TypeInv
<1> SUFFICES ASSUME WalkInit PROVE TypeInv
  OBVIOUS
<1>1. mem \in Memories
  BY FrameWalkAssumption DEF WalkInit
<1>2. bt \in Seq(Nat) /\ Len(bt) <= MaxDepth
  BY FrameWalkAssumption DEF WalkInit, AtRest
<1> QED BY <1>1, <1>2 DEF WalkInit, PipeInit, AtRest, TypeInv, HandlerTypeOK, Wpcs, Errnos, Null

LEMMA StepTypeInv == ASSUME TypeInv, [WalkNext]_vars PROVE TypeInv'
<1> USE FrameWalkAssumption DEF TypeInv, HandlerTypeOK, Goto, At
<1>0. mapped' \subseteq Readable
  BY MappedShrinks
<1>1. \A a : Word(mem, a) \in Nat
  BY WordIs
<1>2. CASE Interrupt
  BY <1>0, <1>2 DEF Interrupt, StartWalk, StartHop, walkVars, Wpcs, Errnos
<1>3. CASE Callback
  <2>1. CASE bt' = Append(bt, frame) /\ Len(bt) # MaxDepth
    <3>1. bt' \in Seq(Nat) /\ Len(bt') = Len(bt) + 1 /\ Len(bt) \in Nat
      BY <2>1
    <3> QED BY <1>0, <1>3, <2>1, <3>1 DEF Callback, threadVars, Wpcs, Null
  <2>2. CASE UNCHANGED bt
    BY <1>0, <1>3, <2>2 DEF Callback, threadVars, Wpcs, Null
  <2> QED BY <1>3, <2>1, <2>2 DEF Callback
<1>4. CASE Record
  BY <1>0, <1>4 DEF Record, walkVars, threadVars, Wpcs
<1>5. CASE ReturnFromHandler
  <2>1. <<>> \in Seq(Nat) /\ Len(<<>>) = 0
    OBVIOUS
  <2> QED BY <1>0, <1>5, <2>1 DEF ReturnFromHandler, Wpcs, Null
<1>6. CASE Validating
  BY <1>0, <1>6 DEF Validating, walkVars
<1>7. CASE CheckFrame
  BY <1>0, <1>7 DEF CheckFrame, Ask, walkVars, threadVars, Wpcs
<1>8. CASE Validated
  BY <1>0, <1>8 DEF Validated, threadVars, Wpcs
<1>9. CASE ReadRet
  BY <1>0, <1>1, <1>9 DEF ReadRet, threadVars, Wpcs
<1>10. CASE ReadNext
  BY <1>0, <1>1, <1>10 DEF ReadNext, threadVars, Wpcs
<1>11. CASE HopAsk
  BY <1>0, <1>11, AddrValidateAssumption DEF HopAsk, Ask, threadVars, Wpcs
<1>12. CASE HopValidated
  BY <1>0, <1>12 DEF HopValidated, walkVars, threadVars, Wpcs
<1>13. CASE HopRead
  BY <1>0, <1>13 DEF HopRead, walkVars, threadVars, Wpcs
<1>14. CASE HopFrame
  BY <1>0, <1>14 DEF HopFrame, threadVars, Wpcs
<1>15. CASE OthersStep
  BY <1>0, <1>15 DEF OthersStep, walkVars, threadVars
<1>16. CASE OthersUnmap
  BY <1>0, <1>16 DEF OthersUnmap, Unmap, walkVars, threadVars
<1>17. CASE UNCHANGED vars
  BY <1>0, <1>17 DEF vars, walkVars, threadVars
<1> QED BY <1>2, <1>3, <1>4, <1>5, <1>6, <1>7, <1>8, <1>9, <1>10, <1>11, <1>12, <1>13, <1>14,
           <1>15, <1>16, <1>17 DEF WalkNext, HandlerStep

LEMMA WalkTypeInv == WalkSpec => []TypeInv
BY InitTypeInv, StepTypeInv, PTL DEF WalkSpec

\* Only words are asked about.
LEMMA AddrIsWord ==
  ASSUME PipeTypeOK, TypeInv, [WalkNext]_vars PROVE addr' \in [Contexts -> Nat]
<1> USE DEF PipeTypeOK
<1>0. fp \in Nat
  BY DEF TypeInv, HandlerTypeOK
<1>1. ASSUME NEW c \in Contexts, ValidateStep(c) PROVE addr' = addr
  BY <1>1 DEF ValidateStep, Load, ReadPipe, ClosePipe, CreatePipe, StoreRead, StoreWrite,
              WritePipe
<1>2. ASSUME NEW c \in Contexts, Return(c) PROVE addr' \in [Contexts -> Nat]
  BY <1>2 DEF Return, Null
<1>3. ASSUME NEW c \in Contexts, NEW a \in Nat, Begin(c, a) PROVE addr' \in [Contexts -> Nat]
  BY <1>3 DEF Begin
<1>4. Sampler \in Contexts /\ Addresses \subseteq Nat
  BY FrameWalkAssumption, AddrValidateAssumption
<1>5. CASE CheckFrame \/ HopAsk
  BY <1>0, <1>3, <1>4, <1>5 DEF CheckFrame, HopAsk, Ask, validateVars, callVars
<1>6. CASE Validating \/ Validated \/ HopValidated
  BY <1>1, <1>2, <1>4, <1>6 DEF Validating, Validated, HopValidated
<1>7. CASE Interrupt \/ ReadRet \/ ReadNext \/ HopRead \/ HopFrame \/ Callback \/ Record
             \/ ReturnFromHandler
  BY <1>7 DEF Interrupt, ReadRet, ReadNext, HopRead, HopFrame, Callback, Record,
              ReturnFromHandler, validateVars, callVars
<1>8. CASE OthersStep
  BY <1>1, <1>2, <1>3, <1>4, <1>8 DEF OthersStep, AppOpen, AppClose, callVars
<1>9. CASE OthersUnmap
  BY <1>9 DEF OthersUnmap, Unmap, callVars
<1>10. CASE UNCHANGED vars
  BY <1>10 DEF vars, validateVars, callVars
<1> QED BY <1>5, <1>6, <1>7, <1>8, <1>9, <1>10 DEF WalkNext, HandlerStep

\* Every variable has its type, those of the pipe among them: it never holds more
\* checks than it has room for, nor a backtrace more frames than MAX_DEPTH, the
\* room it has in the signal handler.
THEOREM WalkTypes == WalkSpec => []WalkTypeOK
<1>1. WalkInit => WalkTypeOK /\ TypeInv
  BY InitTypeInv, AddrValidateAssumption
  DEF WalkInit, PipeInit, PipeTypeOK, Vpcs, Pipes, Null, WalkTypeOK, TypeInv
<1>2. WalkTypeOK /\ TypeInv /\ [WalkNext]_vars => (WalkTypeOK /\ TypeInv)'
  <2> SUFFICES ASSUME PipeTypeOK, TypeInv, [WalkNext]_vars PROVE PipeTypeOK' /\ TypeInv'
    BY DEF WalkTypeOK, TypeInv
  <2>1. UNCHANGED validateVars => PipeTypeOK'
    BY DEF PipeTypeOK, validateVars, callVars
  <2> QED BY <2>1, AddrIsWord, StepPipeType, StepTypeInv, WalkStepsValidate
<1> QED BY <1>1, <1>2, PTL DEF WalkSpec

-----------------------------------------------------------------------------
(* The invariant of a walk                                                 *)

\* While the pipe is not open, only the walk is in validate.
OnlySampler ==
  write_fd = NoFd => \A c \in Contexts \ {Sampler} : vpc[c] = "idle"

Clear == \A i \in 1 .. Len(bt) : ~IsBlocklisted(bt[i])

\* What is recorded, and the callers that `rest` holds, are all there are.
Leaves(rest) == rest \in Seq(Nat) /\ Callers = bt \o rest

\* The backtrace ends with the stack, at the limit, or at a blocklisted frame.
Settled ==
  \E rest \in Seq(Nat) :
    /\ Leaves(rest)
    /\ rest = <<>> \/ Len(bt) = MaxDepth \/ IsBlocklisted(rest[1])

\* The walk of a stack in order, whose memory is there, is at frame fp.
OnFrame == InOrder(mem, fp) /\ Leaves(RestOf(mem, fp))

InOrderInv ==
  /\ Clear
  /\ wpc = "check" =>
       \/ OnFrame /\ (last = Null \/ fp > last)
       \/ fp = Null /\ last > fp /\ Leaves(<<>>)
  /\ wpc \in {"validating", "read_ret"} => OnFrame
  /\ wpc = "callback" => OnFrame /\ frame = mem[fp + 1] /\ last = fp
  /\ wpc = "read_ret" => last = fp
  /\ wpc = "read_next" => InOrder(mem, fp) /\ Leaves(RestOf(mem, mem[fp])) /\ last = fp
  /\ wpc = "record" => Settled \/ write_fd = NoFd

InWalk == wpc \in {"check", "validating", "read_ret", "callback", "read_next", "record"}

\* The walks that StackComplete is about
Steady == backend = "frame-pointer" /\ WellFormed /\ DOMAIN mem \subseteq mapped

StackInv ==
  /\ wpc = "off" => bt = <<>> /\ last = Null
  /\ Steady /\ InWalk => InOrderInv

WalkStackInv == VInv /\ WalkInv /\ TypeInv /\ OnlySampler /\ StackInv

-----------------------------------------------------------------------------
(* Who opens the pipe                                                      *)

\* Once open, the pipe stays open.
LEMMA StaysOpen ==
  ASSUME VInv, AnyStep, write_fd # NoFd PROVE write_fd' # NoFd
<1>1. PICK p \in Pipes : OpenAt(p)
  BY DEF VInv, OpenInv
<1>2. \A c \in Contexts : ~StoreWrite(c)
  BY <1>1 DEF StoreWrite, Move, OpenAt, OpenCtx
<1>3. ASSUME NEW c \in Contexts, ValidateStep(c) PROVE write_fd' = write_fd
  BY <1>2, <1>3 DEF ValidateStep, Load, ReadPipe, ClosePipe, CreatePipe, StoreRead, WritePipe
<1> QED BY <1>3 DEF AnyStep, Return, Begin, AppOpen, AppClose, Unmap

LEMMA IdleStays ==
  ASSUME NEW c \in Contexts, ValidateStep(c) \/ Return(c) PROVE vpc[c] # "idle"
<1>1. ReadPipe(c) \/ CreatePipe(c) => vpc[c] # "idle"
  BY Zenon DEF ReadPipe, CreatePipe, Move
<1> QED BY <1>1 DEF ValidateStep, Return, Load, ClosePipe, StoreRead, StoreWrite, WritePipe, Move

LEMMA StepOnlySampler ==
  ASSUME VInv, OnlySampler, [WalkNext]_vars PROVE OnlySampler'
<1> SUFFICES ASSUME write_fd' = NoFd,
                    NEW d \in Contexts \ {Sampler}
             PROVE  vpc'[d] = "idle"
  BY DEF OnlySampler
<1>0. Sampler \in Contexts
  BY FrameWalkAssumption
<1>1. AnyStep \/ UNCHANGED validateVars
  BY WalkStepsValidate
<1>2. write_fd = NoFd
  BY <1>1, StaysOpen DEF validateVars
<1>3. vpc[d] = "idle"
  BY <1>2 DEF OnlySampler
<1>4. CASE OthersStep
  <2>1. CASE AppOpen \/ AppClose
    BY <1>3, <2>1 DEF AppOpen, AppClose, callVars
  <2>2. CASE \E c \in Contexts \ {Sampler} : ValidateStep(c) \/ Return(c)
    BY <1>2, <2>2, IdleStays DEF OnlySampler
  <2> QED BY <1>2, <1>4, <2>1, <2>2, Zenon DEF OthersStep
<1>5. CASE OthersUnmap
  BY <1>3, <1>5 DEF OthersUnmap, Unmap, callVars
<1>6. CASE UNCHANGED vars
  BY <1>3, <1>6 DEF vars, validateVars, callVars
<1>7. ASSUME ValidateStep(Sampler) \/ Return(Sampler) \/ (\E a : Begin(Sampler, a))
      PROVE  vpc'[d] = "idle"
  BY <1>0, <1>3, <1>7, OthersStay DEF VInv
<1>8. CASE Validating \/ Validated \/ HopValidated
  BY <1>7, <1>8 DEF Validating, Validated, HopValidated
<1>9. CASE CheckFrame \/ HopAsk
  BY <1>3, <1>7, <1>9 DEF CheckFrame, HopAsk, Ask, validateVars, callVars
<1>10. CASE Interrupt \/ ReadRet \/ ReadNext \/ HopRead \/ HopFrame \/ Callback \/ Record
              \/ ReturnFromHandler
  BY <1>3, <1>10 DEF Interrupt, ReadRet, ReadNext, HopRead, HopFrame, Callback, Record,
                     ReturnFromHandler, validateVars, callVars
<1> QED BY <1>4, <1>5, <1>6, <1>8, <1>9, <1>10 DEF WalkNext, HandlerStep

-----------------------------------------------------------------------------
(* The steps of the walk                                                   *)

\* A step within a walk takes its stack and what follows from it along.
LEMMA SameStack ==
  ASSUME [WalkNext]_vars, UNCHANGED <<backend, mem, start>>, Steady'
  PROVE  Steady /\ Callers' = Callers
<1>1. mapped' \subseteq mapped
  BY MappedShrinks
<1> QED BY <1>1 DEF Steady, WellFormed, Callers

LEMMA InterruptStack ==
  ASSUME WalkStackInv, Interrupt, Steady', InWalk' PROVE InOrderInv'
<1>1. StartWalk
  BY DEF Interrupt, StartHop, Steady, InWalk, Goto
<1>2. wpc = "off" /\ bt = <<>> /\ last = Null
  BY DEF Interrupt, At, WalkStackInv, StackInv
<1>3. wpc' = "check" /\ bt' = <<>> /\ last' = Null /\ fp' = start' /\ mem' \in Seq(Nat)
  BY <1>1, <1>2, FrameWalkAssumption DEF StartWalk, Goto
<1>4. InOrder(mem', fp')
  BY <1>3 DEF Steady, WellFormed
<1>5. fp' \in DOMAIN mem' /\ CallersFrom(mem')[fp'] \in Seq(Nat)
  BY <1>3, <1>4, OneFrame, CallersFromIs
<1>6. Callers' = bt' \o RestOf(mem', fp') /\ RestOf(mem', fp') \in Seq(Nat)
  BY <1>3, <1>5 DEF Callers, RestOf
<1> QED BY <1>3, <1>4, <1>6 DEF InOrderInv, Clear, OnFrame, Leaves

LEMMA CheckStack ==
  ASSUME WalkStackInv, CheckFrame, Steady, Callers' = Callers PROVE InOrderInv'
<1>1. wpc = "check" /\ UNCHANGED <<mem, walkVars>>
  BY DEF CheckFrame, At
<1>2. InOrderInv
  BY <1>1 DEF WalkStackInv, StackInv, InWalk
<1>3. {fp, last} \subseteq Nat
  BY DEF WalkStackInv, TypeInv, HandlerTypeOK
<1>4. Clear'
  BY <1>1, <1>2 DEF InOrderInv, Clear, walkVars
<1>5. CASE last # Null /\ fp < last
  <2>1. wpc' = "record"
    BY <1>5 DEF CheckFrame, Goto
  <2>2. Leaves(<<>>)
    BY <1>1, <1>2, <1>3, <1>5 DEF InOrderInv
  <2>3. Settled'
    BY <1>1, <2>2 DEF Settled, Leaves, walkVars
  <2> QED BY <1>4, <2>1, <2>3 DEF InOrderInv
<1>6. CASE ~(last # Null /\ fp < last)
  <2>1. wpc' = "validating"
    BY <1>6 DEF CheckFrame, Ask, Goto
  <2>2. OnFrame
    BY <1>1, <1>2, <1>3, <1>6 DEF InOrderInv, Null
  <2>3. OnFrame'
    BY <1>1, <2>2 DEF OnFrame, Leaves, walkVars
  <2> QED BY <1>4, <2>1, <2>3 DEF InOrderInv
<1> QED BY <1>5, <1>6

LEMMA ValidatedStack ==
  ASSUME WalkStackInv, Validated, Steady, Callers' = Callers PROVE InOrderInv'
<1>0. Sampler \in Contexts
  BY FrameWalkAssumption
<1>1. wpc = "validating" /\ UNCHANGED <<mem, start, fp, frame, bt>> /\ write_fd' = write_fd
  BY DEF Validated, Return, At
<1>2. InOrderInv
  BY <1>1 DEF WalkStackInv, StackInv, InWalk
<1>3. OnFrame /\ Clear
  BY <1>1, <1>2 DEF InOrderInv
<1>4. OnFrame' /\ Clear'
  BY <1>1, <1>3 DEF OnFrame, Leaves, Clear
<1>5. CASE result[Sampler]
  BY <1>4, <1>5 DEF Validated, Goto, InOrderInv
<1>6. CASE ~result[Sampler]
  <2>1. wpc' = "record"
    BY <1>6 DEF Validated, Goto
  <2>2. vpc[Sampler] = "done" /\ addr[Sampler] = fp
    BY <1>1 DEF Validated, Return, Move, WalkStackInv, WalkInv, FaultInv
  <2>3. mem \in Seq(Nat)
    BY FrameWalkAssumption DEF WalkStackInv, TypeInv, HandlerTypeOK
  <2>4. fp \in DOMAIN mem /\ fp + 1 \in DOMAIN mem /\ fp # Null
    BY <1>3, <2>3, OneFrame DEF OnFrame
  <2>5. fp .. (fp + 1) \subseteq DOMAIN mem
    BY <2>3, <2>4
  <2>6. Span(addr[Sampler]) \subseteq mapped
    BY <2>2, <2>5 DEF Span, Steady
  <2>7. write_fd = NoFd
    BY <1>0, <1>6, <2>2, <2>4, <2>6 DEF WalkStackInv, VInv, ReadableAccepted
  <2> QED BY <1>1, <1>4, <2>1, <2>7 DEF InOrderInv
<1> QED BY <1>5, <1>6

LEMMA ReadRetStack ==
  ASSUME WalkStackInv, ReadRet, Steady, Callers' = Callers, InWalk' PROVE InOrderInv'
<1>1. wpc = "read_ret" /\ UNCHANGED <<mem, fp, last, bt>>
  BY DEF ReadRet, At
<1>2. InOrderInv
  BY <1>1 DEF WalkStackInv, StackInv, InWalk
<1>3. wpc' = "callback" /\ frame' = Word(mem, fp + 1)
  BY DEF ReadRet, Goto, InWalk
<1>4. mem \in Seq(Nat)
  BY FrameWalkAssumption DEF WalkStackInv, TypeInv, HandlerTypeOK
<1>5. OnFrame /\ Clear /\ last = fp
  BY <1>1, <1>2 DEF InOrderInv
<1>6. Word(mem, fp + 1) = mem[fp + 1]
  BY <1>4, <1>5, OneFrame DEF OnFrame, Word
<1>7. OnFrame' /\ Clear'
  BY <1>1, <1>5 DEF OnFrame, Leaves, Clear
<1> QED BY <1>1, <1>3, <1>5, <1>6, <1>7 DEF InOrderInv

LEMMA CallbackStack ==
  ASSUME WalkStackInv, Callback, Steady, Callers' = Callers PROVE InOrderInv'
<1>1. wpc = "callback" /\ UNCHANGED <<mem, fp, last, backend>>
  BY DEF Callback, At
<1>2. InOrderInv
  BY <1>1 DEF WalkStackInv, StackInv, InWalk
<1>3. OnFrame /\ Clear /\ frame = mem[fp + 1] /\ last = fp
  BY <1>1, <1>2 DEF InOrderInv
<1>4. mem \in Seq(Nat) /\ frame \in Nat /\ bt \in Seq(Nat)
  BY FrameWalkAssumption DEF WalkStackInv, TypeInv, HandlerTypeOK
<1>5. /\ fp \in DOMAIN mem
      /\ CallersFrom(mem)[fp] = <<frame>> \o RestOf(mem, mem[fp])
      /\ RestOf(mem, mem[fp]) \in Seq(Nat)
  BY <1>3, <1>4, OneFrame DEF OnFrame
<1> DEFINE rest == RestOf(mem, mem[fp])
<1>6. RestOf(mem, fp) = <<frame>> \o rest /\ rest \in Seq(Nat)
  BY <1>5 DEF RestOf
<1>7. Callers = bt \o (<<frame>> \o rest) /\ <<frame>> \o rest \in Seq(Nat)
  BY <1>3, <1>6 DEF OnFrame, Leaves
<1> HIDE DEF rest
<1>8. CASE IsBlocklisted(frame) \/ Len(bt) = MaxDepth
  <2>1. wpc' = "record" /\ bt' = bt
    BY <1>8 DEF Callback, Goto, Steady
  <2>2. (<<frame>> \o rest)[1] = frame
    BY <1>4, <1>6
  <2>3. Settled'
    BY <1>7, <1>8, <2>1, <2>2 DEF Settled, Leaves
  <2> QED BY <1>3, <2>1, <2>3 DEF InOrderInv, Clear
<1>9. CASE ~(IsBlocklisted(frame) \/ Len(bt) = MaxDepth)
  <2>1. wpc' = "read_next" /\ bt' = Append(bt, frame)
    BY <1>9 DEF Callback, Goto, Steady
  <2>2. Callers = Append(bt, frame) \o rest
    BY <1>4, <1>6, <1>7, SMTT(30)
  <2>3. Leaves(RestOf(mem, mem[fp]))'
    BY <1>1, <1>6, <2>1, <2>2 DEF Leaves, rest
  <2>4. Clear'
    BY <1>3, <1>4, <1>9, <2>1 DEF Clear
  <2> QED BY <1>1, <1>3, <2>1, <2>3, <2>4 DEF InOrderInv, OnFrame
<1> QED BY <1>8, <1>9

LEMMA ReadNextStack ==
  ASSUME WalkStackInv, ReadNext, Steady, Callers' = Callers, InWalk' PROVE InOrderInv'
<1>1. wpc = "read_next" /\ UNCHANGED <<mem, last, bt>>
  BY DEF ReadNext, At
<1>2. InOrderInv
  BY <1>1 DEF WalkStackInv, StackInv, InWalk
<1>3. wpc' = "check" /\ fp' = Word(mem, fp)
  BY DEF ReadNext, Goto, InWalk
<1>4. mem \in Seq(Nat)
  BY FrameWalkAssumption DEF WalkStackInv, TypeInv, HandlerTypeOK
<1>5. Clear /\ InOrder(mem, fp) /\ Leaves(RestOf(mem, mem[fp])) /\ last = fp
  BY <1>1, <1>2 DEF InOrderInv
<1>6. /\ fp \in DOMAIN mem /\ fp \in Nat /\ fp # Null
      /\ mem[fp] = Null \/ (fp < mem[fp] /\ InOrder(mem, mem[fp]))
  <2>1. fp \in Nat
    BY DEF WalkStackInv, TypeInv, HandlerTypeOK
  <2> QED BY <1>4, <1>5, <2>1, OneFrame
<1>7. fp' = mem[fp]
  BY <1>3, <1>6 DEF Word
<1>8. Clear' /\ Leaves(RestOf(mem, fp))'
  BY <1>1, <1>5, <1>7 DEF Clear, Leaves
<1>9. CASE mem[fp] = Null
  <2>1. RestOf(mem', fp') = <<>>
    BY <1>1, <1>4, <1>7, <1>9 DEF RestOf, Null
  <2>2. fp' = Null /\ last' > fp'
    BY <1>1, <1>5, <1>6, <1>7, <1>9 DEF Null
  <2>3. Leaves(<<>>)'
    BY <1>8, <2>1 DEF Leaves
  <2> QED BY <1>3, <1>8, <2>2, <2>3 DEF InOrderInv
<1>10. CASE fp < mem[fp] /\ InOrder(mem, mem[fp])
  BY <1>1, <1>3, <1>5, <1>7, <1>8, <1>10 DEF InOrderInv, OnFrame
<1> QED BY <1>6, <1>9, <1>10

\* Other threads leave the walk where it is.
LEMMA OthersStack ==
  ASSUME WalkStackInv, OthersStep \/ OthersUnmap \/ Validating, Steady, Callers' = Callers,
         InWalk'
  PROVE  InOrderInv'
<1>1. UNCHANGED <<mem, wpc, walkVars>>
  BY DEF OthersStep, OthersUnmap, Validating
<1>2. InOrderInv
  BY <1>1 DEF WalkStackInv, StackInv, InWalk
<1>3. ASSUME wpc = "record", write_fd = NoFd PROVE write_fd' = NoFd
  <2>1. \A c \in Contexts : vpc[c] = "idle"
    BY <1>3 DEF WalkStackInv, OnlySampler, WalkInv, FaultInv
  <2>2. CASE OthersStep
    <3>1. CASE AppOpen \/ AppClose
      BY <1>3, <3>1 DEF AppOpen, AppClose
    <3> QED BY <1>3, <2>1, <2>2, <3>1, IdleStays, Zenon DEF OthersStep
  <2>3. CASE OthersUnmap
    BY <1>3, <2>3 DEF OthersUnmap, Unmap
  <2>4. CASE Validating
    BY <2>1, <2>4, IdleStays, FrameWalkAssumption DEF Validating
  <2> QED BY <2>2, <2>3, <2>4
<1> QED
  BY <1>1, <1>2, <1>3 DEF InOrderInv, Clear, OnFrame, Leaves, Settled, walkVars

LEMMA StepInOrder ==
  ASSUME WalkStackInv, [WalkNext]_vars, Steady', InWalk' PROVE InOrderInv'
<1>1. CASE Interrupt
  BY <1>1, InterruptStack
<1>2. CASE ReturnFromHandler
  BY <1>2 DEF ReturnFromHandler, Goto, InWalk
<1>3. CASE HopAsk \/ HopValidated \/ HopRead \/ HopFrame
  <2>1. backend = "framehop" /\ backend' = backend
    BY <1>3 DEF HopAsk, HopValidated, HopRead, HopFrame, At, WalkStackInv, WalkInv, FaultInv
  <2> QED BY <2>1 DEF Steady
<1>4. CASE UNCHANGED vars
  <2>1. InWalk /\ Steady
    BY <1>4 DEF vars, walkVars, validateVars, InWalk, Steady, WellFormed
  <2> QED BY <1>4, <2>1 DEF vars, walkVars, validateVars, WalkStackInv, StackInv, InOrderInv,
                            Clear, OnFrame, Leaves, Settled, Callers
<1>5. ASSUME UNCHANGED <<backend, mem, start>> PROVE Steady /\ Callers' = Callers
  BY <1>5, SameStack
<1>6. CASE CheckFrame
  BY <1>5, <1>6, CheckStack DEF CheckFrame, walkVars
<1>7. CASE Validated
  BY <1>5, <1>7, ValidatedStack DEF Validated
<1>8. CASE ReadRet
  BY <1>5, <1>8, ReadRetStack DEF ReadRet
<1>9. CASE ReadNext
  BY <1>5, <1>9, ReadNextStack DEF ReadNext
<1>10. CASE Callback
  BY <1>5, <1>10, CallbackStack DEF Callback
<1>11. CASE Record
  BY <1>11 DEF Record, Goto, InWalk
<1>12. CASE OthersStep \/ OthersUnmap \/ Validating
  <2>1. UNCHANGED <<backend, mem, start>>
    BY <1>12 DEF OthersStep, OthersUnmap, Validating, walkVars
  <2> QED BY <1>5, <1>12, <2>1, OthersStack
<1> QED BY <1>1, <1>2, <1>3, <1>4, <1>6, <1>7, <1>8, <1>9, <1>10, <1>11, <1>12
        DEF WalkNext, HandlerStep

\* At rest, nothing is recorded.
LEMMA StepAtRest ==
  ASSUME StackInv, [WalkNext]_vars, wpc' = "off" PROVE bt' = <<>> /\ last' = Null
<1>1. CASE ReturnFromHandler
  BY <1>1 DEF ReturnFromHandler
<1>2. CASE Validating \/ OthersStep \/ OthersUnmap \/ UNCHANGED vars
  BY <1>2 DEF Validating, OthersStep, OthersUnmap, vars, walkVars, StackInv
<1>3. ASSUME Interrupt \/ CheckFrame \/ Validated \/ ReadRet \/ ReadNext
             \/ HopAsk \/ HopValidated \/ HopRead \/ HopFrame \/ Callback \/ Record
      PROVE  FALSE
  BY <1>3 DEF Interrupt, StartWalk, StartHop, CheckFrame, Ask, Validated, ReadRet, ReadNext,
              HopAsk, HopValidated, HopRead, HopFrame, Callback, Record, Goto
<1> QED BY <1>1, <1>2, <1>3 DEF WalkNext, HandlerStep

LEMMA WalkStackInvariant == ASSUME Roomy PROVE WalkSpec => []WalkStackInv
<1>1. WalkInit => OnlySampler /\ StackInv
  BY DEF WalkInit, PipeInit, AtRest, OnlySampler, StackInv, InWalk
<1>2. WalkStackInv /\ [WalkNext]_vars => OnlySampler'
  BY StepOnlySampler DEF WalkStackInv
<1>3. WalkStackInv /\ [WalkNext]_vars => StackInv'
  BY StepInOrder, StepAtRest DEF WalkStackInv, StackInv
<1>4. VInv /\ WalkInv /\ TypeInv /\ OnlySampler /\ StackInv <=> WalkStackInv
  BY DEF WalkStackInv
<1> QED BY <1>1, <1>2, <1>3, <1>4, WalkVInv, WalkInvariant, WalkTypeInv, PTL DEF WalkSpec

-----------------------------------------------------------------------------
(* What is recorded                                                        *)

LEMMA SettledIsComplete ==
  ASSUME Settled, Clear, bt \in Seq(Nat), MaxDepth \in Nat, Len(bt) <= MaxDepth
  PROVE  LET kept(n) == n <= MaxDepth /\ \A i \in 1 .. n : ~IsBlocklisted(Callers[i])
             depth == CHOOSE n \in 0 .. Len(Callers) :
                        kept(n) /\ (n < Len(Callers) => ~kept(n + 1))
         IN bt = SubSeq(Callers, 1, depth)
<1> DEFINE kept(n) == n <= MaxDepth /\ \A i \in 1 .. n : ~IsBlocklisted(Callers[i])
           N == Len(Callers)
           k == Len(bt)
           Right(n) == kept(n) /\ (n < N => ~kept(n + 1))
<1>1. PICK rest \in Seq(Nat) :
        /\ Callers = bt \o rest
        /\ rest = <<>> \/ Len(bt) = MaxDepth \/ IsBlocklisted(rest[1])
  BY DEF Settled, Leaves
<1>2. /\ Callers \in Seq(Nat) /\ N = k + Len(rest) /\ k \in Nat /\ N \in Nat
      /\ \A i \in 1 .. k : Callers[i] = bt[i]
      /\ rest # <<>> => Len(rest) > 0 /\ Callers[k + 1] = rest[1]
  BY <1>1
<1>3. kept(k)
  BY <1>2 DEF Clear
<1>4. k < N => ~kept(k + 1)
  <2> SUFFICES ASSUME k < N, kept(k + 1) PROVE FALSE
    OBVIOUS
  <2>1. rest # <<>> /\ k + 1 \in 1 .. (k + 1)
    BY <1>1, <1>2
  <2>2. k + 1 <= MaxDepth
    OBVIOUS
  <2>3. ~IsBlocklisted(Callers[k + 1])
    BY <2>1
  <2>4. IsBlocklisted(rest[1])
    BY <1>1, <1>2, <2>1, <2>2
  <2>5. Callers[k + 1] = rest[1]
    BY <1>2, <2>1
  <2> QED BY <2>3, <2>4, <2>5
<1>5. ASSUME NEW n \in 0 .. N, Right(n) PROVE n = k
  <2>1. CASE n < k
    <3>1. n + 1 <= MaxDepth /\ n < N
      BY <1>2, <2>1
    <3>2. \A i \in 1 .. (n + 1) : i \in 1 .. k
      BY <1>2, <2>1
    <3>3. kept(n + 1)
      BY <1>3, <3>1, <3>2
    <3> QED BY <1>5, <3>1, <3>3
  <2>2. CASE n > k
    <3>1. k + 1 <= MaxDepth /\ k < N
      BY <1>2, <1>5, <2>2, SMTT(30)
    <3>2. \A i \in 1 .. (k + 1) : i \in 1 .. n
      BY <1>2, <2>2
    <3>3. kept(k + 1)
      BY <1>5, <3>1, <3>2
    <3> QED BY <1>4, <3>1, <3>3
  <2> QED BY <1>2, <2>1, <2>2
<1>6. k \in 0 .. N /\ Right(k)
  BY <1>2, <1>3, <1>4
<1>7. (CHOOSE n \in 0 .. N : Right(n)) = k
  <2> HIDE DEF Right, N, k
  <2> QED BY <1>5, <1>6
<1>8. bt = SubSeq(Callers, 1, k)
  BY <1>1, <1>2
<1> QED BY <1>7, <1>8

\* Whatever the other threads do with the pipe that validate shares, a walk of a
\* stack in order whose memory is there records each of its frames, in order, up
\* to the depth limit or the first blocklisted one.
THEOREM WalkComplete == ASSUME Roomy PROVE WalkSpec => []StackComplete
<1>1. ASSUME WalkStackInv PROVE StackComplete
  <2> SUFFICES ASSUME wpc = "record", backend = "frame-pointer", WellFormed,
                      DOMAIN mem \subseteq mapped, write_fd # NoFd
               PROVE  LET kept(n) == n <= MaxDepth
                                     /\ \A i \in 1 .. n : ~IsBlocklisted(Callers[i])
                          depth == CHOOSE n \in 0 .. Len(Callers) :
                                     kept(n) /\ (n < Len(Callers) => ~kept(n + 1))
                      IN bt = SubSeq(Callers, 1, depth)
    BY DEF StackComplete
  <2>1. Settled /\ Clear
    BY <1>1 DEF WalkStackInv, StackInv, Steady, InWalk, InOrderInv
  <2>2. bt \in Seq(Nat) /\ Len(bt) <= MaxDepth /\ MaxDepth \in Nat
    BY <1>1, FrameWalkAssumption DEF WalkStackInv, TypeInv, HandlerTypeOK
  <2> QED BY <2>1, <2>2, SettledIsComplete
<1>2. WalkStackInv => StackComplete
  BY <1>1
<1> QED BY <1>2, WalkStackInvariant, PTL
=============================================================================
